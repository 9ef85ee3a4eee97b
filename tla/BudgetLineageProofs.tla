------------------------- MODULE BudgetLineageProofs -------------------------
(***************************************************************************)
(* A live reservation never loses the record it charges, what a record has *)
(* consumed is never forgotten, a dispatch fits its limit, and orderly     *)
(* changes of the contract add no capacity: for every number of calls and  *)
(* runs, every sequence of contracts and every bound on the records.       *)
(***************************************************************************)
EXTENDS BudgetLineage, FiniteSetTheorems, WellFoundedInduction, TLAPS

--------------------------------------------------------------------------------
(* Sums over finite sets. The inductions take the least counterexample of  *)
(* a set of numbers. (ActionStateProofs needs the same facts, but is about *)
(* other variables.)                                                       *)

\* The table that SumFunctionOnSet reads off, with the order in which it takes
\* the elements.
Choice(s) == CHOOSE x \in s : TRUE
Summing(g, f, S) ==
    g = [s \in SUBSET S |-> IF s = {} THEN 0 ELSE f[Choice(s)] + g[s \ {Choice(s)}]]

\* The sum over S is the entry of S in a table of all its subsets.
LEMMA SumIsOfTable ==
    ASSUME NEW f, NEW S
    PROVE SumFunctionOnSet(f, S) = (CHOOSE g : Summing(g, f, S))[S]
BY DEF SumFunctionOnSet, FoldFunctionOnSet, MapThenFoldSet, Summing, Choice

\* Numbers are well founded: this is what the inductions below stand on.
Less == {p \in Nat \X Nat : p[1] < p[2]}

\* A set of numbers with a member has a least one.
LEMMA LeastNumber ==
    ASSUME NEW T \in SUBSET Nat, T # {}
    PROVE \E n \in T : \A m \in T : n <= m
<1>1. IsWellFoundedOn(Less, Nat)
  <2>1. Less = OpToRel(<, Nat)
    BY Zenon DEF OpToRel, Less
  <2> QED
    BY <2>1, NatLessThanWellFounded, Zenon
<1>2. \E n \in T : \A m \in T : ~(<<m, n>> \in Less)
  BY <1>1, WFMin, Zenon
<1>3. PICK n \in T : \A m \in T : ~(<<m, n>> \in Less)
  BY <1>2
<1>4. \A m \in T : ~(m < n)
  BY <1>3 DEF Less
<1>5. \A m \in T : m \in Nat /\ n \in Nat
  OBVIOUS
<1> QED
  BY <1>4, <1>5

\* There is such a table for a finite set: by induction over the size of its
\* entries.
LEMMA SumTableExists ==
    ASSUME NEW S, IsFiniteSet(S), NEW f
    PROVE  \E g : Summing(g, f, S)
<1> DEFINE Small(n) == {s \in SUBSET S : Cardinality(s) <= n}
           Entries(g, n) == [s \in Small(n) |-> IF s = {} THEN 0 ELSE f[Choice(s)] + g[s \ {Choice(s)}]]
           Bad == {n \in Nat : ~ \E g : g = Entries(g, n)}
<1>1. \A s \in SUBSET S : IsFiniteSet(s) /\ Cardinality(s) \in Nat
  BY FS_Subset, FS_CardinalityType
<1>2. \A s \in SUBSET S : s # {} => /\ Choice(s) \in s
                                    /\ s \ {Choice(s)} \in SUBSET S
                                    /\ Cardinality(s \ {Choice(s)}) = Cardinality(s) - 1
  <2> SUFFICES ASSUME NEW s \in SUBSET S, s # {}
               PROVE  /\ Choice(s) \in s
                      /\ s \ {Choice(s)} \in SUBSET S
                      /\ Cardinality(s \ {Choice(s)}) = Cardinality(s) - 1
    OBVIOUS
  <2>1. Choice(s) \in s
    BY DEF Choice
  <2> QED
    BY <1>1, <2>1, FS_RemoveElement
<1>3. Bad = {}
  <2> SUFFICES ASSUME Bad # {} PROVE FALSE
    OBVIOUS
  <2>1. PICK n \in Bad : \A m \in Bad : n <= m
    BY LeastNumber
  <2>2. CASE n = 0
    <3> DEFINE g == [s \in Small(0) |-> 0]
    <3>1. \A s \in Small(0) : s = {}
      BY <1>1, FS_EmptySet
    <3>2. g = Entries(g, 0)
      BY <3>1
    <3> QED
      BY <2>1, <2>2, <3>2
  <2>3. CASE n # 0
    <3>1. n - 1 \in Nat /\ n - 1 \notin Bad
      <4> HIDE DEF Bad
      <4>1. Bad \in SUBSET Nat
        BY DEF Bad
      <4> QED
        BY <2>1, <2>3, <4>1
    <3>2. PICK g : g = Entries(g, n - 1)
      BY <3>1
    <3> DEFINE h == Entries(g, n)
    <3>3. \A s \in Small(n) : s # {} => s \ {Choice(s)} \in Small(n - 1)
      BY <1>1, <1>2, <2>1
    <3>4. \A s \in Small(n - 1) : s \in Small(n)
      BY <1>1, <2>1
    <3>5. \A s \in Small(n - 1) : h[s] = g[s]
      BY <3>2, <3>4
    <3>6. h = Entries(h, n)
      BY <3>3, <3>5
    <3> QED
      BY <2>1, <3>6
  <2> QED
    BY <2>2, <2>3
<1>4. Cardinality(S) \in Nat /\ \A s \in SUBSET S : Cardinality(s) <= Cardinality(S)
  BY FS_Subset, FS_CardinalityType
<1>5. Small(Cardinality(S)) = SUBSET S
  BY <1>4
<1>6. PICK g : g = Entries(g, Cardinality(S))
  BY <1>3, <1>4
<1> QED
  BY <1>5, <1>6 DEF Summing

\* Any two tables of sums agree where their values do.
LEMMA SumTablesAgree ==
    ASSUME NEW S, IsFiniteSet(S), NEW T \in SUBSET S, NEW e, NEW f, \A x \in T : e[x] = f[x],
           NEW g, Summing(g, e, S), NEW h, Summing(h, f, T)
    PROVE  \A s \in SUBSET T : g[s] = h[s]
<1> DEFINE Bad == {n \in Nat : \E s \in SUBSET T : Cardinality(s) = n /\ g[s] # h[s]}
<1>1. \A s \in SUBSET T : IsFiniteSet(s) /\ Cardinality(s) \in Nat /\ s \in SUBSET S
  BY FS_Subset, FS_CardinalityType
<1>2. Bad = {}
  <2> SUFFICES ASSUME Bad # {} PROVE FALSE
    OBVIOUS
  <2>1. PICK n \in Bad : \A m \in Bad : n <= m
    BY LeastNumber
  <2>2. PICK s \in SUBSET T : Cardinality(s) = n /\ g[s] # h[s]
    BY <2>1
  <2>3. s # {}
    BY <2>2 DEF Summing
  <2> DEFINE x == Choice(s)
  <2>4. x \in s
    BY <2>3 DEF Choice
  <2>5. s \ {x} \in SUBSET T /\ Cardinality(s \ {x}) = n - 1 /\ n - 1 \in Nat
    <3>1. Cardinality(s \ {x}) = n - 1
      BY <1>1, <2>2, <2>4, FS_RemoveElement
    <3>2. s \ {x} \in SUBSET T
      OBVIOUS
    <3> QED
      BY <1>1, <3>1, <3>2
  <2>6. g[s \ {x}] = h[s \ {x}]
    <3> HIDE DEF x
    <3>1. n - 1 \notin Bad
      BY <2>1, <2>5
    <3> QED
      BY <2>5, <3>1
  <2>7. g[s] = e[x] + g[s \ {x}]
    BY <1>1, <2>3 DEF Summing
  <2>8. h[s] = f[x] + h[s \ {x}]
    BY <2>3 DEF Summing
  <2> QED
    BY <2>2, <2>4, <2>6, <2>7, <2>8
<1> QED
  BY <1>1, <1>2

\* The sum over a set: nothing for the empty set, and otherwise the value of the
\* chosen element and the sum over the others.
LEMMA SumUnfolds ==
    ASSUME NEW S, IsFiniteSet(S), NEW f
    PROVE  SumFunctionOnSet(f, S)
            = IF S = {} THEN 0 ELSE f[Choice(S)] + SumFunctionOnSet(f, S \ {Choice(S)})
<1> DEFINE T == S \ {Choice(S)}
           g == CHOOSE g : Summing(g, f, S)
           h == CHOOSE h : Summing(h, f, T)
<1>1. IsFiniteSet(T) /\ T \in SUBSET S
  BY FS_Subset
<1>2. Summing(g, f, S)
  <2>1. \E k : Summing(k, f, S)
    BY SumTableExists
  <2> QED
    BY <2>1, Zenon
<1>3. Summing(h, f, T)
  <2> HIDE DEF T
  <2>1. \E k : Summing(k, f, T)
    BY <1>1, SumTableExists
  <2> QED
    BY <2>1, Zenon
<1>4. SumFunctionOnSet(f, S) = g[S] /\ SumFunctionOnSet(f, T) = h[T]
  BY SumIsOfTable, Zenon
<1> HIDE DEF g, h
<1>5. g[T] = h[T]
  <2> HIDE DEF T
  <2>1. \A s \in SUBSET T : g[s] = h[s]
    BY <1>1, <1>2, <1>3, SumTablesAgree
  <2> QED
    BY <2>1
<1>6. g[S] = IF S = {} THEN 0 ELSE f[Choice(S)] + g[T]
  BY <1>2 DEF Summing
<1> QED
  BY <1>4, <1>5, <1>6

\* Nothing sums to nothing.
LEMMA SumEmpty ==
    ASSUME NEW f
    PROVE  SumFunctionOnSet(f, {}) = 0
BY SumUnfolds, FS_EmptySet

\* Equal values have equal sums.
LEMMA SumCongruence ==
    ASSUME NEW S, IsFiniteSet(S), NEW e, NEW f, \A x \in S : e[x] = f[x]
    PROVE  SumFunctionOnSet(e, S) = SumFunctionOnSet(f, S)
<1> DEFINE g == CHOOSE g : Summing(g, e, S)
           h == CHOOSE h : Summing(h, f, S)
<1>1. Summing(g, e, S)
  <2>1. \E k : Summing(k, e, S)
    BY SumTableExists
  <2> QED
    BY <2>1, Zenon
<1>2. Summing(h, f, S)
  <2>1. \E k : Summing(k, f, S)
    BY SumTableExists
  <2> QED
    BY <2>1, Zenon
<1>3. SumFunctionOnSet(e, S) = g[S] /\ SumFunctionOnSet(f, S) = h[S]
  BY SumIsOfTable, Zenon
<1> HIDE DEF g, h
<1>4. \A s \in SUBSET S : g[s] = h[s]
  BY <1>1, <1>2, SumTablesAgree
<1> QED
  BY <1>3, <1>4

\* The sum of numbers is a number, and any element may be taken out first.
LEMMA SumSplits ==
    ASSUME NEW S, IsFiniteSet(S), NEW f, \A x \in S : f[x] \in Nat
    PROVE  /\ SumFunctionOnSet(f, S) \in Nat
           /\ \A x \in S : SumFunctionOnSet(f, S) = f[x] + SumFunctionOnSet(f, S \ {x})
<1> DEFINE Sum(T) == SumFunctionOnSet(f, T)
           Good(T) == Sum(T) \in Nat /\ \A x \in T : Sum(T) = f[x] + Sum(T \ {x})
           Bad == {n \in Nat : \E T \in SUBSET S : Cardinality(T) = n /\ ~Good(T)}
<1> HIDE DEF Sum
<1>1. \A T \in SUBSET S : IsFiniteSet(T) /\ Cardinality(T) \in Nat
  BY FS_Subset, FS_CardinalityType
<1>2. \A T \in SUBSET S : Sum(T) = IF T = {} THEN 0 ELSE f[Choice(T)] + Sum(T \ {Choice(T)})
  BY <1>1, SumUnfolds DEF Sum
<1>3. Bad = {}
  <2> SUFFICES ASSUME Bad # {} PROVE FALSE
    OBVIOUS
  <2>1. PICK n \in Bad : \A m \in Bad : n <= m
    BY LeastNumber
  <2>2. PICK T \in SUBSET S : Cardinality(T) = n /\ ~Good(T)
    BY <2>1
  <2>3. T # {}
    <3>1. Sum({}) = 0
      BY <1>2
    <3>2. Good({})
      BY <3>1
    <3> HIDE DEF Good
    <3> QED
      BY <2>2, <3>2
  <2> DEFINE y == Choice(T)
  <2>4. y \in T
    BY <2>3 DEF Choice
  <2>5. \A U \in SUBSET S : Cardinality(U) < n => Good(U)
    <3> HIDE DEF Good
    <3> SUFFICES ASSUME NEW U \in SUBSET S, Cardinality(U) < n, ~Good(U) PROVE FALSE
      OBVIOUS
    <3>1. Cardinality(U) \in Bad
      BY <1>1
    <3>2. n \in Nat
      BY <2>1
    <3> QED
      BY <1>1, <2>1, <3>1, <3>2
  <2>6. \A x \in T : T \ {x} \in SUBSET S /\ Cardinality(T \ {x}) < n
    <3> TAKE x \in T
    <3>1. Cardinality(T \ {x}) = n - 1 /\ n \in Nat
      BY <1>1, <2>2, FS_RemoveElement
    <3> QED
      BY <3>1
  <2>7. \A x \in T : Good(T \ {x})
    <3> HIDE DEF Good
    <3> QED
      BY <2>5, <2>6
  <2>8. Sum(T) = f[y] + Sum(T \ {y})
    BY <1>2, <2>3
  <2> HIDE DEF y
  <2>9. Sum(T) \in Nat
    BY <2>4, <2>7, <2>8
  <2>10. ASSUME NEW x \in T PROVE Sum(T) = f[x] + Sum(T \ {x})
    <3>1. CASE x = y
      BY <2>8, <3>1
    <3>2. CASE x # y
      <4>1. Sum(T \ {y}) = f[x] + Sum((T \ {y}) \ {x})
        BY <2>4, <2>7, <3>2
      <4>2. Sum(T \ {x}) = f[y] + Sum((T \ {x}) \ {y})
        BY <2>4, <2>7, <3>2
      <4>3. (T \ {y}) \ {x} = (T \ {x}) \ {y} /\ (T \ {x}) \ {y} \in SUBSET S
        OBVIOUS
      <4>4. Sum((T \ {x}) \ {y}) \in Nat
        <5>1. Cardinality((T \ {x}) \ {y}) < n
          <6>1. IsFiniteSet(T \ {x}) /\ Cardinality(T \ {x}) < n /\ Cardinality(T \ {x}) \in Nat
            BY <1>1, <2>6
          <6>2. Cardinality((T \ {x}) \ {y}) <= Cardinality(T \ {x})
                /\ Cardinality((T \ {x}) \ {y}) \in Nat
            BY <1>1, <4>3, <6>1, FS_Subset
          <6> QED
            BY <2>1, <6>1, <6>2
        <5> HIDE DEF Good
        <5>2. Good((T \ {x}) \ {y})
          BY <2>5, <4>3, <5>1
        <5> USE DEF Good
        <5> QED
          BY <5>2
      <4>5. f[x] \in Nat /\ f[y] \in Nat
        BY <2>4
      <4>6. Sum((T \ {y}) \ {x}) = Sum((T \ {x}) \ {y})
        BY <4>3
      <4> QED
        BY <2>8, <4>1, <4>2, <4>4, <4>5, <4>6
    <3> QED
      BY <3>1, <3>2
  <2> QED
    BY <2>2, <2>9, <2>10
<1>4. Good(S)
  <2> HIDE DEF Good
  <2> QED
    BY <1>1, <1>3
<1> QED
  BY <1>4 DEF Sum


\* The sum over a set is the sum over a part of it and over the rest.
LEMMA SumPartition ==
    ASSUME NEW S, IsFiniteSet(S), NEW f, \A x \in S : f[x] \in Nat, NEW T \in SUBSET S
    PROVE  SumFunctionOnSet(f, S) = SumFunctionOnSet(f, T) + SumFunctionOnSet(f, S \ T)
<1> DEFINE Sum(U) == SumFunctionOnSet(f, U)
           Splits(U, V) == Sum(U) = Sum(V) + Sum(U \ V)
           Bad == {n \in Nat : \E U \in SUBSET S : \E V \in SUBSET U :
                                    Cardinality(V) = n /\ ~Splits(U, V)}
<1> HIDE DEF Sum
<1>1. \A U \in SUBSET S : /\ IsFiniteSet(U) /\ Cardinality(U) \in Nat
                          /\ \A x \in U : f[x] \in Nat
  BY FS_Subset, FS_CardinalityType
<1>2. \A U \in SUBSET S : Sum(U) \in Nat /\ \A x \in U : Sum(U) = f[x] + Sum(U \ {x})
  BY <1>1, SumSplits DEF Sum
<1>3. Sum({}) = 0
  BY SumEmpty DEF Sum
<1>4. Bad = {}
  <2> SUFFICES ASSUME Bad # {} PROVE FALSE
    OBVIOUS
  <2>1. PICK n \in Bad : \A m \in Bad : n <= m
    BY LeastNumber
  <2>2. PICK U \in SUBSET S : \E V \in SUBSET U : Cardinality(V) = n /\ ~Splits(U, V)
    BY <2>1
  <2>3. PICK V \in SUBSET U : Cardinality(V) = n /\ ~Splits(U, V)
    BY <2>2
  <2>4. V # {}
    <3>1. U \ {} = U
      OBVIOUS
    <3>2. Splits(U, {})
      BY <1>2, <1>3, <3>1
    <3> HIDE DEF Splits
    <3> QED
      BY <2>3, <3>2
  <2>5. PICK x \in V : TRUE
    BY <2>4
  <2> DEFINE X == U \ {x}
             Y == V \ {x}
  <2>6. X \in SUBSET S /\ Y \in SUBSET X /\ V \in SUBSET S /\ X \ Y = U \ V
    BY <2>5
  <2>7. Cardinality(Y) = n - 1 /\ n \in Nat /\ Cardinality(Y) \in Nat
    <3>1. Cardinality(Y) = n - 1
      BY <1>1, <2>3, <2>5, <2>6, FS_RemoveElement
    <3>2. Y \in SUBSET S
      BY <2>6
    <3> HIDE DEF Y
    <3> QED
      BY <1>1, <2>1, <3>1, <3>2
  <2>8. Sum(U) = f[x] + Sum(X) /\ Sum(V) = f[x] + Sum(Y) /\ f[x] \in Nat
    BY <1>1, <1>2, <2>5, <2>6
  <2> HIDE DEF X, Y
  <2>9. Splits(X, Y)
    <3> HIDE DEF Splits
    <3> SUFFICES ASSUME ~Splits(X, Y) PROVE FALSE
      OBVIOUS
    <3>1. n - 1 \in Bad
      BY <2>6, <2>7
    <3> QED
      BY <2>1, <2>7, <3>1
  <2>10. Sum(X) = Sum(Y) + Sum(U \ V)
    BY <2>6, <2>9
  <2>11. Sum(X) \in Nat /\ Sum(Y) \in Nat /\ Sum(U \ V) \in Nat
    <3>1. Y \in SUBSET S /\ U \ V \in SUBSET S
      BY <2>6
    <3> QED
      BY <1>2, <2>6, <3>1
  <2> QED
    BY <2>3, <2>8, <2>10, <2>11
<1>5. Splits(S, T)
  <2> HIDE DEF Splits
  <2> QED
    BY <1>1, <1>4
<1> QED
  BY <1>5 DEF Sum

\* A sum of nothings is nothing.
LEMMA SumOfZeros ==
    ASSUME NEW S, IsFiniteSet(S), NEW f, \A x \in S : f[x] = 0
    PROVE  SumFunctionOnSet(f, S) = 0
<1> DEFINE Sum(U) == SumFunctionOnSet(f, U)
           Bad == {n \in Nat : \E U \in SUBSET S : Cardinality(U) = n /\ Sum(U) # 0}
<1> HIDE DEF Sum
<1>1. \A U \in SUBSET S : /\ IsFiniteSet(U) /\ Cardinality(U) \in Nat
                          /\ \A x \in U : f[x] \in Nat
  BY FS_Subset, FS_CardinalityType
<1>2. \A U \in SUBSET S : \A x \in U : Sum(U) = f[x] + Sum(U \ {x})
  BY <1>1, SumSplits DEF Sum
<1>3. Sum({}) = 0
  BY SumEmpty DEF Sum
<1>4. Bad = {}
  <2> SUFFICES ASSUME Bad # {} PROVE FALSE
    OBVIOUS
  <2>1. PICK n \in Bad : \A m \in Bad : n <= m
    BY LeastNumber
  <2>2. PICK U \in SUBSET S : Cardinality(U) = n /\ Sum(U) # 0
    BY <2>1
  <2>3. PICK x \in U : TRUE
    BY <1>3, <2>2
  <2>4. Sum(U \ {x}) # 0
    BY <1>2, <2>2, <2>3
  <2>5. Cardinality(U \ {x}) = n - 1 /\ n \in Nat /\ Cardinality(U \ {x}) \in Nat
    <3>1. Cardinality(U \ {x}) = n - 1
      BY <1>1, <2>2, <2>3, FS_RemoveElement
    <3> QED
      BY <1>1, <2>1, <3>1
  <2>6. n - 1 \in Bad
    BY <2>4, <2>5
  <2> QED
    BY <2>1, <2>5, <2>6
<1> QED
  BY <1>1, <1>4 DEF Sum

\* A part of a set of numbers sums to no more than the set.
LEMMA SumMonotone ==
    ASSUME NEW S, IsFiniteSet(S), NEW f, \A x \in S : f[x] \in Nat, NEW T \in SUBSET S
    PROVE  SumFunctionOnSet(f, T) <= SumFunctionOnSet(f, S)
<1>1. IsFiniteSet(T) /\ IsFiniteSet(S \ T)
  BY FS_Subset
<1>2. SumFunctionOnSet(f, T) \in Nat /\ SumFunctionOnSet(f, S \ T) \in Nat
  BY <1>1, SumSplits
<1> QED
  BY <1>2, SumPartition

\* The sum over one element is its value.
LEMMA SumOfOne ==
    ASSUME NEW c, NEW f, f[c] \in Nat
    PROVE  SumFunctionOnSet(f, {c}) = f[c]
<1>1. IsFiniteSet({c})
  BY FS_Singleton
<1>2. SumFunctionOnSet(f, {c}) = f[c] + SumFunctionOnSet(f, {c} \ {c})
  BY <1>1, SumSplits
<1>3. {c} \ {c} = {}
  OBVIOUS
<1>4. SumFunctionOnSet(f, {c} \ {c}) = 0
  BY <1>3, SumEmpty
<1> QED
  BY <1>2, <1>4


--------------------------------------------------------------------------------
(* Windows.                                                                *)

\* An instant is in the window that starts at or before it and has not ended.
LEMMA WindowIs ==
    ASSUME NEW s \in Nat \ {0}, NEW q \in Nat, NEW t \in Nat, q * s <= t, t < q * s + s
    PROVE  t \div s = q
<1> DEFINE d == t \div s
           m == t % s
<1>1. d \in Nat /\ m \in 0 .. (s - 1) /\ t = s * d + m
  OBVIOUS
<1> HIDE DEF d, m
<1>2. ASSUME d < q PROVE FALSE
  <2> DEFINE k == q - d - 1
  <2>1. k \in Nat /\ q = d + 1 + k
    BY <1>1, <1>2
  <2> HIDE DEF k
  <2>2. q * s = s * d + s + s * k /\ s * k \in Nat /\ s * d \in Nat
    BY <2>1, <1>1
  <2> QED
    BY <1>1, <2>2
<1>3. ASSUME q < d PROVE FALSE
  <2> DEFINE k == d - q - 1
  <2>1. k \in Nat /\ d = q + 1 + k
    BY <1>1, <1>3
  <2> HIDE DEF k
  <2>2. s * d = q * s + s + s * k /\ s * k \in Nat /\ q * s \in Nat
    BY <2>1, <1>1
  <2> QED
    BY <1>1, <2>2
<1>4. d = q
  BY <1>1, <1>2, <1>3
<1> QED
  BY <1>4 DEF d

\* A window starts at an instant that has passed, and has not ended (budget_store.go:284).
LEMMA StartMeans ==
    ASSUME NEW s \in Nat \ {0}, NEW t \in Nat
    PROVE  /\ Start(s, t) \in Nat /\ Start(s, t) <= t /\ t < Start(s, t) + s
           /\ t \div s \in Nat /\ Start(s, t) = (t \div s) * s
<1> DEFINE d == t \div s
           m == t % s
<1>1. d \in Nat /\ m \in 0 .. (s - 1) /\ t = s * d + m
  OBVIOUS
<1>2. Start(s, t) = d * s
  BY DEF Start
<1> HIDE DEF d, m
<1>3. d * s \in Nat /\ d * s = s * d
  BY <1>1
<1> QED
  BY <1>1, <1>2, <1>3 DEF d

LEMMA StartInTime ==
    ASSUME NEW s \in Nat \ {0}, NEW t \in Time
    PROVE  Start(s, t) \in Time
<1>1. t \in Nat /\ t <= MaxTime /\ MaxTime \in Nat
  BY BoundAssumption DEF Time
<1> QED
  BY <1>1, StartMeans DEF Time

\* A window starts in itself.
LEMMA StartOfStart ==
    ASSUME NEW s \in Nat \ {0}, NEW t \in Nat
    PROVE  Start(s, Start(s, t)) = Start(s, t)
<1> DEFINE q == t \div s
           u == q * s
<1>1. q \in Nat /\ Start(s, t) = u /\ u \in Nat
  BY StartMeans
<1> HIDE DEF q
<1>2. u \div s = q
  <2>1. q * s <= u /\ u < q * s + s
    BY <1>1
  <2> HIDE DEF u
  <2> QED
    BY <1>1, <2>1, WindowIs
<1> QED
  BY <1>1, <1>2 DEF Start

\* Later instants are in no earlier window.
LEMMA DivMonotone ==
    ASSUME NEW s \in Nat \ {0}, NEW t \in Nat, NEW u \in Nat, t <= u
    PROVE  /\ t \div s \in Nat /\ u \div s \in Nat
           /\ t \div s <= u \div s
<1> DEFINE a == t \div s
           b == u \div s
<1>1. /\ a \in Nat /\ a * s <= t /\ t < a * s + s /\ a * s \in Nat
      /\ b \in Nat /\ b * s <= u /\ u < b * s + s /\ b * s \in Nat
  BY StartMeans
<1> HIDE DEF a, b
<1>2. ASSUME b < a PROVE FALSE
  <2> DEFINE k == a - b - 1
  <2>1. k \in Nat /\ a = b + 1 + k
    BY <1>1, <1>2
  <2> HIDE DEF k
  <2>2. a * s = b * s + s + k * s /\ k * s \in Nat
    BY <1>1, <2>1
  <2> QED
    BY <1>1, <2>2
<1>3. a <= b
  BY <1>1, <1>2
<1> QED
  BY <1>1, <1>3 DEF a, b

\* A window of whole periods holds the periods of its instants.
LEMMA StartOfPeriod ==
    ASSUME NEW s \in Nat \ {0}, NEW t \in Nat, s % Period = 0
    PROVE  /\ (t \div Period) * Period \in Nat
           /\ Start(s, (t \div Period) * Period) = Start(s, t)
<1> DEFINE P == Period
           e == t \div P
           q == t \div s
           k == s \div P
           u == e * P
<1>1. P \in Nat \ {0}
  BY BoundAssumption
<1>2. /\ e \in Nat /\ Start(P, t) = u /\ u \in Nat /\ u <= t /\ t < u + P
      /\ q \in Nat /\ Start(s, t) = q * s /\ q * s \in Nat /\ q * s <= t /\ t < q * s + s
  BY <1>1, StartMeans
<1>3. k \in Nat /\ s = P * k + (s % P)
  BY <1>1
<1>4. k \in Nat /\ s = P * k
  BY <1>1, <1>3
<1> HIDE DEF P, e, q, k
<1>5. q * s <= u
  <2> DEFINE j == q * k
             i == j - e - 1
  <2>1. j \in Nat /\ q * s = P * j
    BY <1>1, <1>2, <1>4
  <2> HIDE DEF j
  <2>2. SUFFICES ASSUME e < j PROVE FALSE
    <3>1. CASE j <= e
      <4> DEFINE h == e - j
      <4>1. h \in Nat /\ e = j + h
        BY <1>2, <2>1, <3>1
      <4> HIDE DEF h
      <4>2. e * P = P * j + P * h /\ P * h \in Nat /\ P * j \in Nat
        BY <1>1, <2>1, <4>1
      <4> QED
        BY <1>2, <2>1, <4>2
    <3> QED
      BY <1>2, <2>1, <3>1
  <2>3. i \in Nat /\ j = e + 1 + i
    BY <1>2, <2>1, <2>2
  <2> HIDE DEF i
  <2>4. P * j = e * P + P + P * i /\ P * i \in Nat
    BY <1>1, <1>2, <2>3
  <2> QED
    BY <1>1, <1>2, <2>1, <2>4
<1>6. u < q * s + s
  BY <1>2
<1>7. u \div s = q
  <2> HIDE DEF u
  <2> QED
    BY <1>2, <1>5, <1>6, WindowIs
<1>8. Start(s, u) = q * s
  BY <1>7 DEF Start
<1> QED
  BY <1>2, <1>8 DEF e, P

--------------------------------------------------------------------------------
(* The state, and what each operation leaves of it.                        *)

Record      == [generation : Generations \cup {0}, reset : Resets, seconds : Nat,
                limit : Nat, consumed : Nat]
Reservation == [status : {"absent", "reserved", "dispatched"},
                generation : Generations \cup {0}, lineage : Lineages]
Past        == [admitted : BOOLEAN, sent : BOOLEAN, run : Runs \cup {NoRun}, at : Time]

Types == /\ records \in [Lineages -> Record]
         /\ IsFiniteSet(Recorded(records))
         /\ reservations \in [Calls -> Reservation]
         /\ now \in Time /\ policy \in Generations
         /\ history \in [Calls -> Past]

Inv == Types /\ ChargesBacked

\* The lineage of a contract for a run at an instant; budgetScope takes the present one.
At(k, r, t) == [run    |-> IF k.reset = "operator_run" THEN r ELSE NoRun,
                window |-> IF k.reset = "fixed_window" THEN Start(k.seconds, t) ELSE NoWindow]

LEMMA LineageIsNow ==
    ASSUME NEW k, NEW r
    PROVE  Lineage(k, r) = At(k, r, now)
BY DEF Lineage, At

\* Contracts have types, and windows a length.
LEMMA ContractMeans ==
    ASSUME NEW g \in Generations
    PROVE  /\ Contract[g].reset \in Resets /\ Contract[g].seconds \in Nat
           /\ Contract[g].limit \in Nat \ {0} /\ g \in Nat \ {0}
           /\ Contract[g].reset = "fixed_window" <=> Contract[g].seconds \in Nat \ {0}
<1>1. Contract[g] \in Contracts /\ (Contract[g].reset = "fixed_window" <=> Contract[g].seconds > 0)
  BY ContractAssumption
<1>2. g \in Nat \ {0}
  BY GenerationsAssumption
<1> QED
  BY <1>1, <1>2 DEF Contracts

\* Every contract names a lineage of the model (budgetScope).
LEMMA AtLineage ==
    ASSUME NEW g \in Generations, NEW r \in Runs, NEW t \in Time
    PROVE  At(Contract[g], r, t) \in Lineages
<1>1. CASE Contract[g].reset = "fixed_window"
  <2>1. Start(Contract[g].seconds, t) \in Time
    BY <1>1, ContractMeans, StartInTime
  <2> QED
    BY <1>1, <2>1 DEF At, Lineages
<1>2. CASE Contract[g].reset # "fixed_window"
  BY <1>2 DEF At, Lineages
<1> QED
  BY <1>1, <1>2

LEMMA NoRecordType == NoRecord \in Record
BY DEF NoRecord, Record, Resets

\* Pruning forgets a lineage or leaves it as it is, and it leaves what is charged and
\* what has not elapsed.
LEMMA PrunedType ==
    ASSUME Types
    PROVE  /\ Pruned(records) \in [Lineages -> Record]
           /\ \A l \in Lineages : Pruned(records)[l] \in {NoRecord, records[l]}
           /\ \A l \in Lineages : ~Elapsed(records, l) => Pruned(records)[l] = records[l]
           /\ \A c \in Active :
                 Pruned(records)[reservations[c].lineage] = records[reservations[c].lineage]
           /\ Recorded(Pruned(records)) \subseteq Recorded(records)
           /\ IsFiniteSet(Recorded(Pruned(records)))
<1>1. \A l \in Lineages : Pruned(records)[l] \in {NoRecord, records[l]}
  BY DEF Pruned
<1>2. Pruned(records) \in [Lineages -> Record]
  <2>1. \A l \in Lineages : records[l] \in Record
    BY DEF Types
  <2> QED
    BY <2>1, NoRecordType DEF Pruned
<1>3. \A l \in Lineages : ~Elapsed(records, l) => Pruned(records)[l] = records[l]
  BY DEF Pruned
<1>4. ASSUME NEW c \in Active
      PROVE  Pruned(records)[reservations[c].lineage] = records[reservations[c].lineage]
  <2>1. reservations[c].lineage \in Lineages
    BY DEF Types, Reservation, Active
  <2>2. c \in Charging(reservations[c].lineage)
    BY DEF Charging
  <2> QED
    BY <1>3, <2>1, <2>2 DEF Elapsed
<1>5. Recorded(Pruned(records)) \subseteq Recorded(records)
  BY <1>1 DEF Recorded, NoRecord
<1>6. IsFiniteSet(Recorded(Pruned(records)))
  BY <1>5, FS_Subset DEF Types
<1> QED
  BY <1>1, <1>2, <1>3, <1>4, <1>5, <1>6

\* What is carried forward is a number, and no less than what any lineage of another
\* reset has consumed.
LEMMA CarriedType ==
    ASSUME NEW R \in [Lineages -> Record], IsFiniteSet(Recorded(R)), NEW g \in Generations
    PROVE  /\ CarriedForward(R, g) \in Nat
           /\ (\A l \in Recorded(R) : ~SameReset(R[l], Contract[g])) =>
                 \A l \in Recorded(R) : R[l].consumed <= CarriedForward(R, g)
<1> DEFINE f == [l \in Lineages |-> R[l].consumed]
           S == {l \in Recorded(R) : ~SameReset(R[l], Contract[g])}
<1>1. IsFiniteSet(S) /\ S \subseteq Lineages
  BY FS_Subset DEF Recorded
<1>2. \A l \in Lineages : f[l] = R[l].consumed /\ f[l] \in Nat
  BY DEF Record
<1>3. \/ CarriedForward(R, g) = 0 /\ \E l \in Recorded(R) : SameReset(R[l], Contract[g])
      \/ CarriedForward(R, g) = SumFunctionOnSet(f, S)
  BY DEF CarriedForward
<1> HIDE DEF f
<1>4. /\ SumFunctionOnSet(f, S) \in Nat
      /\ \A l \in S : SumFunctionOnSet(f, S) = f[l] + SumFunctionOnSet(f, S \ {l})
  <2> HIDE DEF S
  <2> QED
    BY <1>1, <1>2, SumSplits
<1>5. \A l \in S : SumFunctionOnSet(f, S \ {l}) \in Nat
  <2> HIDE DEF S
  <2> TAKE l \in S
  <2>1. IsFiniteSet(S \ {l}) /\ \A m \in S \ {l} : f[m] \in Nat
    BY <1>1, <1>2, FS_Subset
  <2> QED
    BY <2>1, SumSplits
<1>6. ASSUME NEW l \in S PROVE R[l].consumed <= SumFunctionOnSet(f, S)
  <2> DEFINE x == SumFunctionOnSet(f, S)
             y == SumFunctionOnSet(f, S \ {l})
  <2>1. x = f[l] + y /\ x \in Nat /\ y \in Nat
    BY <1>4, <1>5
  <2>2. f[l] = R[l].consumed /\ f[l] \in Nat
    BY <1>2 DEF Recorded
  <2> HIDE DEF x, y, S
  <2>3. f[l] <= x
    BY <2>1, <2>2
  <2> QED
    BY <2>2, <2>3 DEF x
<1> QED
  BY <1>3, <1>4, <1>6

\* The lineage that is created or adopted takes the contract of the generation and keeps
\* what it consumed, or inherits; no other lineage changes.
LEMMA UpsertType ==
    ASSUME NEW R \in [Lineages -> Record], IsFiniteSet(Recorded(R)),
           NEW l \in Lineages, NEW g \in Generations
    PROVE  LET D == Upsert(R, l, g) IN
           /\ D \in [Lineages -> Record]
           /\ \A m \in Lineages \ {l} : D[m] = R[m]
           /\ D[l].generation = g /\ D[l].reset = Contract[g].reset
           /\ D[l].seconds = Contract[g].seconds /\ D[l].limit = Contract[g].limit
           /\ D[l].consumed = IF l \notin Recorded(R) THEN CarriedForward(R, g) ELSE R[l].consumed
           /\ Recorded(D) = Recorded(R) \cup {l}
           /\ IsFiniteSet(Recorded(D))
<1> DEFINE x == IF l \notin Recorded(R) THEN CarriedForward(R, g) ELSE R[l].consumed
           rec == [generation |-> g, reset |-> Contract[g].reset, seconds |-> Contract[g].seconds,
                   limit |-> Contract[g].limit, consumed |-> x]
           D == Upsert(R, l, g)
<1>1. D = [R EXCEPT ![l] = rec]
  BY DEF Upsert
<1>2. x \in Nat
  <2>1. R[l] \in Record
    OBVIOUS
  <2>2. R[l].consumed \in Nat
    BY <2>1 DEF Record
  <2> QED
    BY <2>2, CarriedType
<1> HIDE DEF x
<1>3. rec \in Record /\ rec.generation = g /\ rec.reset = Contract[g].reset
      /\ rec.seconds = Contract[g].seconds /\ rec.limit = Contract[g].limit /\ rec.consumed = x
  BY <1>2, ContractMeans DEF Record
<1>4. g # 0
  BY ContractMeans
<1> HIDE DEF rec, D
<1>5. D \in [Lineages -> Record] /\ D[l] = rec /\ \A m \in Lineages \ {l} : D[m] = R[m]
  BY <1>1, <1>3
<1>6. Recorded(D) = Recorded(R) \cup {l}
  BY <1>3, <1>4, <1>5 DEF Recorded
<1>7. IsFiniteSet(Recorded(D))
  BY <1>6, FS_AddElement
<1> QED
  BY <1>3, <1>5, <1>6, <1>7 DEF x, D

\* What calls cost sums to a number.
LEMMA CostSum ==
    ASSUME NEW S, S \subseteq Calls
    PROVE  /\ IsFiniteSet(S) /\ SumFunctionOnSet(Cost, S) \in Nat
           /\ \A c \in S : Cost[c] \in Nat \ {0}
           /\ \A c \in S : SumFunctionOnSet(Cost, S) = Cost[c] + SumFunctionOnSet(Cost, S \ {c})
           /\ \A T \in SUBSET S : SumFunctionOnSet(Cost, T) <= SumFunctionOnSet(Cost, S)
<1>1. IsFiniteSet(S)
  BY CallsAssumption, FS_Subset
<1>2. \A c \in S : Cost[c] \in Nat \ {0}
  BY CallsAssumption
<1> QED
  BY <1>1, <1>2, SumSplits, SumMonotone

LEMMA ReservedIsNumber ==
    ASSUME NEW l
    PROVE  Reserved(l) \in Nat
<1>1. {c \in Charging(l) : reservations[c].status = "reserved"} \subseteq Calls
  BY DEF Charging, Active
<1> QED
  BY <1>1, CostSum DEF Reserved

\* What Reserve does: the lineage of the policy for the run is declared in the pruned
\* records, and the call is admitted with what is left, or is not.
LEMMA ReserveMeans ==
    ASSUME Types, NEW c \in Calls, NEW r \in Runs, Reserve(c, r)
    PROVE  LET l == At(Contract[policy], r, now)
               P == Pruned(records)
           IN  /\ l \in Lineages
               /\ P \in [Lineages -> Record] /\ IsFiniteSet(Recorded(P))
               /\ records' = Upsert(P, l, policy)
               /\ records' \in [Lineages -> Record]
               /\ \A m \in Lineages \ {l} : records'[m] = P[m]
               /\ records'[l].generation = policy /\ records'[l].reset = Contract[policy].reset
               /\ records'[l].seconds = Contract[policy].seconds
               /\ records'[l].limit = Contract[policy].limit
               /\ records'[l].consumed = IF l \notin Recorded(P) THEN CarriedForward(P, policy)
                                         ELSE P[l].consumed
               /\ Recorded(records') = Recorded(P) \cup {l}
               /\ IsFiniteSet(Recorded(records'))
               /\ Upsertable(P, l, policy)
               /\ now' = now /\ policy' = policy /\ ~history[c].admitted
               /\ \/ reservations' = reservations /\ history' = history
                  \/ /\ records'[l].consumed + Reserved(l) + Cost[c] <= records'[l].limit
                     /\ reservations' = [reservations EXCEPT ![c] =
                            [status |-> "reserved", generation |-> policy, lineage |-> l]]
                     /\ history' = [history EXCEPT ![c] =
                            [admitted |-> TRUE, sent |-> FALSE, run |-> r, at |-> now]]
<1> DEFINE l == At(Contract[policy], r, now)
           P == Pruned(records)
           D == Upsert(P, l, policy)
           new == [status |-> "reserved", generation |-> policy, lineage |-> l]
           past == [admitted |-> TRUE, sent |-> FALSE, run |-> r, at |-> now]
<1>1. policy \in Generations /\ now \in Time
  BY DEF Types
<1>2. l \in Lineages
  BY <1>1, AtLineage
<1>3. P \in [Lineages -> Record] /\ IsFiniteSet(Recorded(P))
  BY PrunedType
<1>4. l = Lineage(Contract[policy], r)
  BY LineageIsNow
<1> HIDE DEF l, P
<1>5. /\ D \in [Lineages -> Record]
      /\ \A m \in Lineages \ {l} : D[m] = P[m]
      /\ D[l].generation = policy /\ D[l].reset = Contract[policy].reset
      /\ D[l].seconds = Contract[policy].seconds /\ D[l].limit = Contract[policy].limit
      /\ D[l].consumed = IF l \notin Recorded(P) THEN CarriedForward(P, policy) ELSE P[l].consumed
      /\ Recorded(D) = Recorded(P) \cup {l}
      /\ IsFiniteSet(Recorded(D))
  BY <1>1, <1>2, <1>3, UpsertType
<1> HIDE DEF D
<1>6. /\ ~history[c].admitted /\ Upsertable(P, l, policy) /\ records' = D
      /\ now' = now /\ policy' = policy
      /\ IF D[l].consumed + Reserved(l) + Cost[c] > D[l].limit
         THEN reservations' = reservations /\ history' = history
         ELSE reservations' = [reservations EXCEPT ![c] = new]
              /\ history' = [history EXCEPT ![c] = past]
  BY <1>4 DEF Reserve, l, P, D
<1> HIDE DEF new, past
<1>7. Reserved(l) \in Nat
  BY ReservedIsNumber
<1>8. D[l].consumed \in Nat /\ D[l].limit \in Nat /\ Cost[c] \in Nat
  <2>1. D[l] \in Record
    BY <1>2, <1>5
  <2> QED
    BY <2>1, CallsAssumption DEF Record
<1>9. D[l].consumed + Reserved(l) + Cost[c] > D[l].limit
      \/ D[l].consumed + Reserved(l) + Cost[c] <= D[l].limit
  BY <1>7, <1>8
<1> QED
  BY <1>2, <1>3, <1>5, <1>6, <1>9 DEF l, P, D, new, past

--------------------------------------------------------------------------------
(* A reservation never loses its record.                                   *)

LEMMA NoReservationType == NoReservation \in Reservation /\ NoReservation.status = "absent"
BY DEF NoReservation, Reservation, Lineages

LEMMA InitInv == Init => Inv
<1> SUFFICES ASSUME Init PROVE Inv
  OBVIOUS
<1>1. policy \in Generations
  BY GenerationsAssumption DEF Init, Min
<1>2. now \in Time
  BY BoundAssumption DEF Init, Time
<1>3. NoHistory \in Past
  BY BoundAssumption DEF NoHistory, Past, Time
<1>4. records \in [Lineages -> Record] /\ Recorded(records) = {}
  BY NoRecordType DEF Init, Recorded, NoRecord
<1>5. reservations \in [Calls -> Reservation] /\ Active = {} /\ history \in [Calls -> Past]
  BY <1>3, NoReservationType DEF Init, Active
<1> QED
  BY <1>1, <1>2, <1>4, <1>5, FS_EmptySet DEF Inv, Types, ChargesBacked

\* The reservation that is made charges the lineage that is declared, and every other one
\* keeps its record through pruning.
LEMMA ReserveInv ==
    ASSUME Inv, NEW c \in Calls, NEW r \in Runs, Reserve(c, r)
    PROVE  Inv'
<1> DEFINE l == At(Contract[policy], r, now)
           P == Pruned(records)
           new == [status |-> "reserved", generation |-> policy, lineage |-> l]
           past == [admitted |-> TRUE, sent |-> FALSE, run |-> r, at |-> now]
<1>1. Types /\ policy \in Generations /\ now \in Time
  BY DEF Inv, Types
<1>2. /\ l \in Lineages /\ records' \in [Lineages -> Record] /\ IsFiniteSet(Recorded(records'))
      /\ Recorded(records') = Recorded(P) \cup {l}
      /\ now' = now /\ policy' = policy
      /\ \/ reservations' = reservations /\ history' = history
         \/ /\ reservations' = [reservations EXCEPT ![c] = new]
            /\ history' = [history EXCEPT ![c] = past]
  BY <1>1, ReserveMeans
<1>3. \A d \in Active : P[reservations[d].lineage] = records[reservations[d].lineage]
  BY <1>1, PrunedType
<1> HIDE DEF P, l
<1>4. new \in Reservation /\ past \in Past /\ new.lineage = l
  BY <1>1, <1>2 DEF Reservation, Past
<1> HIDE DEF new, past
<1>5. reservations' \in [Calls -> Reservation] /\ history' \in [Calls -> Past]
  BY <1>1, <1>2, <1>4 DEF Types
<1>6. \A d \in Active : reservations[d].lineage \in Recorded(P)
  BY <1>3 DEF Inv, ChargesBacked, Recorded
<1>7. ASSUME NEW d \in Active' PROVE reservations'[d].lineage \in Recorded(records')
  <2>1. reservations'[d].lineage = l \/ (d \in Active /\ reservations'[d] = reservations[d])
    BY <1>1, <1>2, <1>4 DEF Active, Types
  <2> QED
    BY <1>2, <1>6, <2>1
<1> QED
  BY <1>1, <1>2, <1>5, <1>7 DEF Inv, Types, ChargesBacked

\* What MarkDispatched does: the record that the call charges grows by what it costs.
LEMMA DispatchMeans ==
    ASSUME Inv, NEW c \in Calls, MarkDispatched(c)
    PROVE  LET l == reservations[c].lineage IN
           /\ l \in Lineages /\ l \in Recorded(records) /\ c \in Active
           /\ records' \in [Lineages -> Record]
           /\ \A m \in Lineages : /\ records'[m].generation = records[m].generation
                                  /\ records'[m].reset = records[m].reset
                                  /\ records'[m].seconds = records[m].seconds
                                  /\ records'[m].limit = records[m].limit
                                  /\ records'[m].consumed = IF m = l THEN records[m].consumed + Cost[c]
                                                            ELSE records[m].consumed
           /\ Recorded(records') = Recorded(records)
           /\ reservations' \in [Calls -> Reservation]
           /\ \A d \in Calls : /\ reservations'[d].lineage = reservations[d].lineage
                               /\ reservations'[d].generation = reservations[d].generation
                               /\ reservations'[d].status = IF d = c THEN "dispatched"
                                                            ELSE reservations[d].status
           /\ Active' = Active
           /\ history' \in [Calls -> Past]
           /\ \A d \in Calls : /\ history'[d].admitted = history[d].admitted
                               /\ history'[d].run = history[d].run
                               /\ history'[d].at = history[d].at
                               /\ history'[d].sent <=> (d = c \/ history[d].sent)
           /\ now' = now /\ policy' = policy
<1> DEFINE l == reservations[c].lineage
           R == [records[l] EXCEPT !.consumed = @ + Cost[c]]
           V == [reservations[c] EXCEPT !.status = "dispatched"]
           H == [history[c] EXCEPT !.sent = TRUE]
<1>1. /\ records \in [Lineages -> Record] /\ reservations \in [Calls -> Reservation]
      /\ history \in [Calls -> Past]
  BY DEF Inv, Types
<1>2. reservations[c].status = "reserved" /\ c \in Active /\ now' = now /\ policy' = policy
  BY DEF MarkDispatched, Active
<1>3. l \in Lineages /\ l \in Recorded(records)
  BY <1>2 DEF Inv, ChargesBacked, Recorded
<1>4. records' = [records EXCEPT ![l] = R] /\ reservations' = [reservations EXCEPT ![c] = V]
      /\ history' = [history EXCEPT ![c] = H]
  BY DEF MarkDispatched
<1>5. /\ R \in Record
      /\ R.generation = records[l].generation /\ R.reset = records[l].reset
      /\ R.seconds = records[l].seconds /\ R.limit = records[l].limit
      /\ R.consumed = records[l].consumed + Cost[c]
  <2>1. records[l] \in Record /\ Cost[c] \in Nat
    BY <1>1, <1>3, CallsAssumption
  <2> HIDE DEF l
  <2> QED
    BY <2>1 DEF Record
<1>6. /\ V \in Reservation /\ V.lineage = reservations[c].lineage
      /\ V.generation = reservations[c].generation /\ V.status = "dispatched"
  <2>1. reservations[c] \in Reservation
    BY <1>1
  <2> QED
    BY <2>1 DEF Reservation
<1>7. /\ H \in Past /\ H.admitted = history[c].admitted /\ H.run = history[c].run
      /\ H.at = history[c].at /\ H.sent = TRUE
  <2>1. history[c] \in Past
    BY <1>1
  <2> QED
    BY <2>1 DEF Past
<1> HIDE DEF R, V, H, l
<1>8. /\ records' \in [Lineages -> Record]
      /\ \A m \in Lineages : records'[m] = IF m = l THEN R ELSE records[m]
  BY <1>1, <1>3, <1>4, <1>5
<1>9. /\ reservations' \in [Calls -> Reservation]
      /\ \A d \in Calls : reservations'[d] = IF d = c THEN V ELSE reservations[d]
  BY <1>1, <1>4, <1>6
<1>10. /\ history' \in [Calls -> Past]
       /\ \A d \in Calls : history'[d] = IF d = c THEN H ELSE history[d]
  BY <1>1, <1>4, <1>7
<1>11. Recorded(records') = Recorded(records)
  BY <1>5, <1>8 DEF Recorded
<1>12. Active' = Active
  BY <1>2, <1>6, <1>9 DEF Active
<1>13. \A m \in Lineages : /\ records'[m].generation = records[m].generation
                           /\ records'[m].reset = records[m].reset
                           /\ records'[m].seconds = records[m].seconds
                           /\ records'[m].limit = records[m].limit
                           /\ records'[m].consumed = IF m = l THEN records[m].consumed + Cost[c]
                                                     ELSE records[m].consumed
  BY <1>5, <1>8
<1>14. \A d \in Calls : /\ reservations'[d].lineage = reservations[d].lineage
                        /\ reservations'[d].generation = reservations[d].generation
                        /\ reservations'[d].status = IF d = c THEN "dispatched"
                                                     ELSE reservations[d].status
  BY <1>6, <1>9
<1>15. \A d \in Calls : /\ history'[d].admitted = history[d].admitted
                        /\ history'[d].run = history[d].run
                        /\ history'[d].at = history[d].at
                        /\ history'[d].sent <=> (d = c \/ history[d].sent)
  BY <1>7, <1>10
<1> QED
  BY <1>2, <1>3, <1>8, <1>9, <1>10, <1>11, <1>12, <1>13, <1>14, <1>15 DEF l

LEMMA DispatchInv ==
    ASSUME Inv, NEW c \in Calls, MarkDispatched(c)
    PROVE  Inv'
<1>1. /\ records' \in [Lineages -> Record] /\ Recorded(records') = Recorded(records)
      /\ reservations' \in [Calls -> Reservation] /\ history' \in [Calls -> Past]
      /\ Active' = Active /\ now' = now /\ policy' = policy
      /\ \A d \in Calls : reservations'[d].lineage = reservations[d].lineage
  BY DispatchMeans
<1>2. Types'
  BY <1>1 DEF Inv, Types
<1>3. ChargesBacked'
  BY <1>1 DEF Inv, ChargesBacked, Active
<1> QED
  BY <1>2, <1>3 DEF Inv

\* What Close does: the reservation is gone, and nothing else changes.
LEMMA CloseMeans ==
    ASSUME Inv, NEW c \in Calls, Close(c)
    PROVE  /\ reservations' \in [Calls -> Reservation]
           /\ Active' = Active \ {c} /\ c \in Active
           /\ \A d \in Active' : reservations'[d] = reservations[d]
           /\ records' = records /\ now' = now /\ policy' = policy /\ history' = history
<1>1. reservations' = [reservations EXCEPT ![c] = NoReservation]
      /\ records' = records /\ now' = now /\ policy' = policy /\ history' = history
      /\ c \in Active
  BY DEF Close
<1>2. reservations \in [Calls -> Reservation]
  BY DEF Inv, Types
<1>3. \A d \in Calls : reservations'[d] = IF d = c THEN NoReservation ELSE reservations[d]
  BY <1>1, <1>2
<1>4. reservations' \in [Calls -> Reservation]
  BY <1>1, <1>2, NoReservationType
<1> QED
  BY <1>1, <1>3, <1>4, NoReservationType DEF Active

LEMMA CloseInv ==
    ASSUME Inv, NEW c \in Calls, Close(c)
    PROVE  Inv'
<1>1. /\ reservations' \in [Calls -> Reservation]
      /\ Active' = Active \ {c} /\ c \in Active
      /\ \A d \in Active' : reservations'[d] = reservations[d]
      /\ records' = records /\ now' = now /\ policy' = policy /\ history' = history
  BY CloseMeans
<1> QED
  BY <1>1 DEF Inv, Types, ChargesBacked

LEMMA NextInv == Inv /\ [Next]_vars => Inv'
<1> SUFFICES ASSUME Inv, [Next]_vars PROVE Inv'
  OBVIOUS
<1>1. ASSUME NEW c \in Calls, NEW r \in Runs, Reserve(c, r) PROVE Inv'
  BY <1>1, ReserveInv
<1>2. ASSUME NEW c \in Calls, MarkDispatched(c) PROVE Inv'
  BY <1>2, DispatchInv
<1>3. ASSUME NEW c \in Calls, Close(c) PROVE Inv'
  BY <1>3, CloseInv
<1>4. CASE PolicyChange
  BY <1>4 DEF PolicyChange, Inv, Types, ChargesBacked, Active
<1>5. CASE Tick
  <2>1. now' \in Time
    BY <1>5, BoundAssumption DEF Tick, Time, Inv, Types
  <2> QED
    BY <1>5, <2>1 DEF Tick, Inv, Types, ChargesBacked, Active
<1>6. CASE UNCHANGED vars
  BY <1>6 DEF vars, Inv, Types, ChargesBacked, Active
<1> QED
  BY <1>1, <1>2, <1>3, <1>4, <1>5, <1>6 DEF Next

\* A live reservation is backed by the record it charges, for every number of
\* calls, runs, contracts and instants (budget_store.go:240, 467).
THEOREM ChargesAreBacked == Spec => []ChargesBacked
<1>1. Inv => ChargesBacked
  BY DEF Inv
<1> QED
  BY <1>1, InitInv, NextInv, PTL DEF Spec

--------------------------------------------------------------------------------
(* What was consumed is not forgotten.                                     *)

\* Of the elapsed windows of one length that nobody charges, the newest stays.
LEMMA NewestStays ==
    ASSUME Types, NEW l \in Recorded(records), Pruned(records)[l] # records[l]
    PROVE  /\ Elapsed(records, l)
           /\ \E m \in Recorded(Pruned(records)) :
                 /\ Elapsed(records, m) /\ records[m].seconds = records[l].seconds
                 /\ m.window > l.window
<1> DEFINE Newer == {m \in Lineages : /\ Elapsed(records, m)
                                      /\ records[m].seconds = records[l].seconds
                                      /\ m.window > l.window}
           Left == {n \in Nat : \E m \in Newer : n = MaxTime - m.window}
<1>1. l \in Lineages
  BY DEF Recorded
<1>2. Elapsed(records, l) /\ Newer # {}
  <2>1. Elapsed(records, l) /\ \E m \in Lineages : /\ Elapsed(records, m)
                                                   /\ records[m].seconds = records[l].seconds
                                                   /\ m.window > l.window
    BY <1>1 DEF Pruned
  <2> QED
    BY <2>1
<1>3. \A m \in Lineages : m.window \in Time \cup {NoWindow}
  BY DEF Lineages
<1>4. \A m \in Newer : m.window \in Nat /\ MaxTime - m.window \in Nat
  BY <1>1, <1>3, BoundAssumption DEF Time, NoWindow
<1>5. Left # {} /\ Left \in SUBSET Nat
  BY <1>2, <1>4
<1> HIDE DEF Left
<1>6. PICK n \in Left : \A k \in Left : n <= k
  BY <1>5, LeastNumber
<1> USE DEF Left
<1>7. PICK m \in Newer : n = MaxTime - m.window
  BY <1>6
<1>8. \A k \in Newer : ~(k.window > m.window)
  BY <1>4, <1>6, <1>7, BoundAssumption
<1> HIDE DEF Left
<1>9. Pruned(records)[m] = records[m]
  <2>1. ASSUME NEW k \in Lineages, Elapsed(records, k), records[k].seconds = records[m].seconds,
               k.window > m.window
        PROVE  FALSE
    <3>1. k.window > l.window
      BY <1>1, <1>3, <1>4, <1>7, <2>1, BoundAssumption DEF Time, NoWindow
    <3>2. k \in Newer
      BY <1>7, <2>1, <3>1
    <3> QED
      BY <1>8, <2>1, <3>2
  <2> QED
    BY <1>7, <2>1 DEF Pruned
<1>10. m \in Recorded(records)
  BY <1>7 DEF Elapsed, ElapsedCharged
<1>11. m \in Recorded(Pruned(records))
  BY <1>9, <1>10 DEF Recorded
<1> QED
  BY <1>2, <1>7, <1>11

\* upsertBudgetRecord, pruneExpiredFixedWindowRecords: whatever the contracts are, a
\* record goes only with its window, and only when a newer one of its length stays; else
\* what it has consumed never shrinks.
THEOREM ConsumedIsKept == Spec => ConsumptionKept
<1> DEFINE Keeps(l) ==
        \/ records'[l].generation # 0 /\ records'[l].consumed >= records[l].consumed
        \/ /\ Elapsed(records, l)
           /\ \E m \in Recorded(records') :
                 /\ Elapsed(records, m) /\ records[m].seconds = records[l].seconds
                 /\ m.window > l.window
<1>1. ASSUME Inv, [Next]_vars, NEW l \in Recorded(records)
      PROVE  Keeps(l)
  <2>1. /\ l \in Lineages /\ records[l].generation # 0 /\ records[l].consumed \in Nat
    BY <1>1 DEF Inv, Types, Recorded, Record
  <2>2. records' = records => Keeps(l)
    BY <2>1
  <2>3. ASSUME NEW c \in Calls, NEW r \in Runs, Reserve(c, r) PROVE Keeps(l)
    <3> DEFINE k == At(Contract[policy], r, now)
               P == Pruned(records)
    <3>1. /\ k \in Lineages /\ \A m \in Lineages \ {k} : records'[m] = P[m]
          /\ records'[k].generation = policy
          /\ k \in Recorded(P) => records'[k].consumed = P[k].consumed
          /\ Recorded(records') = Recorded(P) \cup {k}
      BY <1>1, <2>3, ReserveMeans DEF Inv
    <3>2. policy # 0
      BY <1>1, GenerationsAssumption DEF Inv, Types
    <3>3. CASE P[l] = records[l]
      <4>1. l \in Recorded(P)
        BY <2>1, <3>3 DEF Recorded
      <4> HIDE DEF k, P
      <4>2. records'[l].generation # 0 /\ records'[l].consumed = records[l].consumed
        BY <2>1, <3>1, <3>2, <3>3, <4>1
      <4> QED
        BY <2>1, <4>2
    <3>4. CASE P[l] # records[l]
      <4>1. /\ Elapsed(records, l)
            /\ \E m \in Recorded(P) :
                  /\ Elapsed(records, m) /\ records[m].seconds = records[l].seconds
                  /\ m.window > l.window
        BY <1>1, <3>4, NewestStays DEF Inv
      <4> HIDE DEF k, P
      <4> QED
        BY <3>1, <4>1
    <3> QED
      BY <3>3, <3>4
  <2>4. ASSUME NEW c \in Calls, MarkDispatched(c) PROVE Keeps(l)
    <3>1. /\ records'[l].generation = records[l].generation
          /\ records'[l].consumed = IF l = reservations[c].lineage THEN records[l].consumed + Cost[c]
                                    ELSE records[l].consumed
      BY <1>1, <2>1, <2>4, DispatchMeans
    <3>2. Cost[c] \in Nat
      BY CallsAssumption
    <3>3. records'[l].consumed >= records[l].consumed
      BY <2>1, <3>1, <3>2
    <3> QED
      BY <2>1, <3>1, <3>3
  <2> HIDE DEF Keeps
  <2>5. ASSUME NEW c \in Calls, Close(c) PROVE Keeps(l)
    BY <2>2, <2>5 DEF Close
  <2>6. CASE PolicyChange
    BY <2>2, <2>6 DEF PolicyChange
  <2>7. CASE Tick
    BY <2>2, <2>7 DEF Tick
  <2>8. CASE UNCHANGED vars
    BY <2>2, <2>8 DEF vars
  <2> QED
    BY <1>1, <2>3, <2>4, <2>5, <2>6, <2>7, <2>8 DEF Next
<1>2. Inv /\ [Next]_vars => [\A l \in Recorded(records) : Keeps(l)]_vars
  BY <1>1
<1> QED
  BY <1>2, InitInv, NextInv, PTL DEF Spec, ConsumptionKept

--------------------------------------------------------------------------------
(* What records and reservations owe to the contracts.                     *)

\* The records keep the contracts of their generations, in the shape of their resets.
Declares(l) ==
    LET g == records[l].generation IN
    /\ g \in Generations /\ g <= policy
    /\ records[l].reset = Contract[g].reset /\ records[l].seconds = Contract[g].seconds
    /\ records[l].limit = Contract[g].limit
    /\ records[l].reset = "fixed_window" <=> l.window # NoWindow
    /\ records[l].reset = "operator_run" <=> l.run # NoRun

\* A live reservation charges the lineage of its generation, its run and its admission.
Issued(c) ==
    LET l == reservations[c].lineage
        g == reservations[c].generation
    IN  /\ history[c].admitted /\ history[c].run \in Runs
        /\ g \in Generations /\ g <= records[l].generation
        /\ l = At(Contract[g], history[c].run, history[c].at)
        /\ history[c].sent <=> reservations[c].status = "dispatched"

\* The newest generation on record rules: every live reservation is of its reset.
Ruling(n)  == /\ n \in Recorded(records)
              /\ \A l \in Recorded(records) : records[l].generation <= records[n].generation
InForce(c) == \A n \in Lineages :
                  Ruling(n) => records[reservations[c].lineage].reset = records[n].reset

\* The account of a run and a period can still grow.
Open(r, p) == \/ p = now \div Period
              \/ \E c \in Active : /\ reservations[c].status = "reserved"
                                   /\ history[c].run = r /\ history[c].at \div Period = p

\* All of it is then in what one record has consumed, the one that the reset in force
\* charges for it.
Covered(r, p) ==
    Account(r, p) # {} =>
        \E n \in Lineages :
            /\ Ruling(n)
            /\ At(records[n], r, p * Period) \in Recorded(records)
            /\ SumFunctionOnSet(Cost, Account(r, p))
                  <= records[At(records[n], r, p * Period)].consumed

\* What a reservation holds under the contract of the record, the limit has room for.
Room(c) == \A l \in Lineages :
               /\ reservations[c].lineage = l /\ reservations[c].status = "reserved"
               /\ reservations[c].generation = records[l].generation
               => records[l].consumed + Reserved(l) <= records[l].limit

Dated == \A c \in Calls : history[c].at <= now /\ (history[c].sent => history[c].admitted)

\* Holds as long as no earlier generation governs again.
ContractInv == /\ Inv /\ Dated
               /\ \A l \in Recorded(records) : Declares(l)
               /\ \A c \in Active : Issued(c) /\ Room(c)

\* Holds beside it when the changes of the contract are Orderly.
FreshInv == /\ \A c \in Active : InForce(c)
            /\ \A r \in Runs, p \in Nat : Open(r, p) => Covered(r, p)
            /\ NoFreshBudget

\* Equal resets are equal contracts but for their limit.
LEMMA SameResets ==
    ASSUME Orderly, NEW g \in Generations, NEW h \in Generations,
           Contract[g].reset = Contract[h].reset
    PROVE  /\ Contract[g].seconds = Contract[h].seconds
           /\ \A r, t : At(Contract[g], r, t) = At(Contract[h], r, t)
<1>1. Contract[g].seconds = Contract[h].seconds
  <2>1. CASE Contract[g].reset = "fixed_window"
    BY <2>1 DEF Orderly
  <2>2. CASE Contract[g].reset # "fixed_window"
    BY <2>2, ContractMeans
  <2> QED
    BY <2>1, <2>2
<1> QED
  BY <1>1 DEF At

\* A generation between two of one reset has that reset.
LEMMA NoReturn ==
    ASSUME Orderly, NEW f \in Generations, NEW g \in Generations, NEW h \in Generations,
           f <= g, g <= h, Contract[f].reset = Contract[h].reset
    PROVE  Contract[g].reset = Contract[h].reset
<1>1. f \in Nat /\ g \in Nat /\ h \in Nat
  BY GenerationsAssumption
<1>2. f = g \/ g = h \/ (f < g /\ g < h)
  BY <1>1
<1> QED
  BY <1>2 DEF Orderly

\* The lineage of an instant is that of its period.
LEMMA AtPeriod ==
    ASSUME Orderly, NEW g \in Generations, NEW r, NEW t \in Nat
    PROVE  At(Contract[g], r, (t \div Period) * Period) = At(Contract[g], r, t)
<1>1. CASE Contract[g].reset = "fixed_window"
  <2>1. Contract[g].seconds \in Nat \ {0} /\ Contract[g].seconds % Period = 0
    BY <1>1, ContractMeans DEF Orderly
  <2> QED
    BY <2>1, StartOfPeriod DEF At
<1>2. CASE Contract[g].reset # "fixed_window"
  BY <1>2 DEF At
<1> QED
  BY <1>1, <1>2

\* The reset decides the shape of a lineage (budgetScope).
LEMMA AtShape ==
    ASSUME NEW g \in Generations, NEW r \in Runs, NEW t \in Time
    PROVE  /\ Contract[g].reset = "fixed_window" <=> At(Contract[g], r, t).window # NoWindow
           /\ Contract[g].reset = "operator_run" <=> At(Contract[g], r, t).run # NoRun
<1>1. r # NoRun
  BY CallsAssumption
<1>2. Contract[g].reset = "fixed_window" => Start(Contract[g].seconds, t) # NoWindow
  <2>1. ASSUME Contract[g].reset = "fixed_window" PROVE Start(Contract[g].seconds, t) \in Time
    BY <2>1, ContractMeans, StartInTime
  <2> QED
    BY <2>1, BoundAssumption DEF Time, NoWindow
<1> QED
  BY <1>1, <1>2 DEF At

\* A record of the shape of a contract has its reset.
LEMMA ResetOfShape ==
    ASSUME NEW g \in Generations, NEW r \in Runs, NEW t \in Time, NEW l \in Recorded(records),
           l = At(Contract[g], r, t), Types, Declares(l)
    PROVE  records[l].reset = Contract[g].reset
<1>1. /\ Contract[g].reset = "fixed_window" <=> l.window # NoWindow
      /\ Contract[g].reset = "operator_run" <=> l.run # NoRun
  BY AtShape
<1>2. /\ records[l].reset = "fixed_window" <=> l.window # NoWindow
      /\ records[l].reset = "operator_run" <=> l.run # NoRun
  BY DEF Declares
<1>3. records[l].reset \in Resets /\ Contract[g].reset \in Resets
  BY ContractMeans DEF Types, Record, Recorded
<1> QED
  BY <1>1, <1>2, <1>3 DEF Resets

\* Some generation rules as soon as there is a record.
LEMMA SomeRuling ==
    ASSUME ContractInv, Recorded(records) # {}
    PROVE  \E n \in Lineages : Ruling(n)
<1> DEFINE Gaps == {k \in Nat : \E l \in Recorded(records) : k = policy - records[l].generation}
<1>1. \A l \in Recorded(records) : l \in Lineages /\ records[l].generation \in Nat
                                   /\ records[l].generation <= policy /\ policy \in Nat
  BY GenerationsAssumption DEF ContractInv, Inv, Types, Declares, Recorded
<1>2. Gaps # {} /\ Gaps \in SUBSET Nat
  <2>1. PICK l \in Recorded(records) : TRUE
    OBVIOUS
  <2>2. policy - records[l].generation \in Gaps
    BY <1>1, <2>1
  <2>3. Gaps \in SUBSET Nat
    OBVIOUS
  <2> QED
    BY <2>2, <2>3
<1> HIDE DEF Gaps
<1>3. PICK k \in Gaps : \A j \in Gaps : k <= j
  BY <1>2, LeastNumber
<1> USE DEF Gaps
<1>4. PICK n \in Recorded(records) : k = policy - records[n].generation
  BY <1>3
<1>5. ASSUME NEW l \in Recorded(records) PROVE records[l].generation <= records[n].generation
  <2>1. policy - records[l].generation \in Gaps
    BY <1>1
  <2>2. k <= policy - records[l].generation
    BY <1>3, <2>1
  <2> HIDE DEF Gaps
  <2> QED
    BY <1>1, <1>4, <2>2
<1> QED
  BY <1>1, <1>4, <1>5 DEF Ruling

\* A live reservation charges the lineage that the reset in force names for its account.
LEMMA ChargesHome ==
    ASSUME ContractInv, FreshInv, Orderly, NEW c \in Active, NEW n \in Lineages, Ruling(n)
    PROVE  reservations[c].lineage = At(records[n], history[c].run, (history[c].at \div Period) * Period)
<1> DEFINE h == reservations[c].generation
           l == reservations[c].lineage
           g == records[n].generation
           r == history[c].run
           t == history[c].at
<1>1. /\ Types /\ h \in Generations /\ r \in Runs /\ t \in Time /\ t \in Nat
      /\ l = At(Contract[h], r, t) /\ l \in Recorded(records) /\ Declares(l)
      /\ records[l].reset = records[n].reset
  BY DEF ContractInv, FreshInv, Issued, InForce, Inv, Types, ChargesBacked, Active, Past, Time
<1>2. /\ g \in Generations /\ records[n].reset = Contract[g].reset
      /\ records[n].seconds = Contract[g].seconds
  BY DEF ContractInv, FreshInv, Declares, Ruling
<1> HIDE DEF h, l, g, r, t
<1>3. Contract[h].reset = Contract[g].reset
  BY <1>1, <1>2, ResetOfShape
<1>4. l = At(Contract[g], r, t)
  BY <1>1, <1>2, <1>3, SameResets
<1>5. At(Contract[g], r, t) = At(Contract[g], r, (t \div Period) * Period)
  BY <1>1, <1>2, AtPeriod
<1>6. At(Contract[g], r, (t \div Period) * Period) = At(records[n], r, (t \div Period) * Period)
  BY <1>2 DEF At
<1> QED
  BY <1>4, <1>5, <1>6 DEF l, r, t

\* The record that covers an open account is not pruned: its window is the present one,
\* or a reservation charges it.
LEMMA OpenStays ==
    ASSUME ContractInv, FreshInv, Orderly, NEW r \in Runs, NEW p \in Nat, Open(r, p), NEW n \in Lineages, Ruling(n),
           At(records[n], r, p * Period) \in Recorded(records)
    PROVE  LET m == At(records[n], r, p * Period) IN
           m \in Recorded(Pruned(records)) /\ Pruned(records)[m] = records[m]
<1> DEFINE m == At(records[n], r, p * Period)
           g == records[n].generation
<1>1. /\ m \in Lineages /\ Types /\ now \in Nat
      /\ g \in Generations /\ records[n].reset = Contract[g].reset
      /\ records[n].seconds = Contract[g].seconds
      /\ n \in Recorded(records)
  BY DEF ContractInv, FreshInv, Inv, Types, Declares, Recorded, Ruling, Time
<1>2. m = At(Contract[g], r, p * Period)
  BY <1>1 DEF At
<1>3. Pruned(records)[m] = records[m]
  <2>1. CASE p = now \div Period
    <3>1. m = At(Contract[g], r, now)
      BY <1>1, <1>2, <2>1, AtPeriod
    <3>2. ASSUME Elapsed(records, m) PROVE FALSE
      <4> DEFINE h == records[m].generation
                 s == Contract[g].seconds
      <4>1. records[m].reset = "fixed_window" /\ m.window # NoWindow
            /\ Start(records[m].seconds, now) > Start(records[m].seconds, m.window)
            /\ h \in Generations /\ Contract[h].reset = "fixed_window"
            /\ records[m].seconds = Contract[h].seconds
        BY <3>2 DEF Elapsed, ElapsedCharged, ContractInv, FreshInv, Declares
      <4>2. Contract[g].reset = "fixed_window" /\ m.window = Start(s, now)
        BY <3>1, <4>1 DEF At
      <4>3. records[m].seconds = s
        BY <1>1, <4>1, <4>2, SameResets
      <4>4. s \in Nat \ {0}
        BY <1>1, <4>2, ContractMeans
      <4> HIDE DEF m, g, s
      <4>5. Start(s, m.window) = Start(s, now) /\ Start(s, now) \in Nat
        BY <1>1, <4>2, <4>4, StartOfStart, StartMeans
      <4> QED
        BY <4>1, <4>3, <4>5
    <3> QED
      BY <1>1, <3>2, PrunedType
  <2>2. ASSUME NEW c \in Active, history[c].run = r, history[c].at \div Period = p
        PROVE  Pruned(records)[m] = records[m]
    <3>1. reservations[c].lineage = m
      BY <2>2, ChargesHome
    <3> QED
      BY <1>1, <3>1, PrunedType
  <2> QED
    BY <2>1, <2>2 DEF Open
<1>4. m \in Recorded(Pruned(records))
  BY <1>3 DEF Recorded
<1> QED
  BY <1>3, <1>4

\* What Reserve does to the calls: the one that is admitted is new, and every other
\* keeps its reservation and its past.
LEMMA AdmissionMeans ==
    ASSUME ContractInv, NEW c \in Calls, NEW r \in Runs, Reserve(c, r)
    PROVE  LET l == At(Contract[policy], r, now) IN
           /\ c \notin Active
           /\ \A d \in Active : /\ d \in Active' /\ d # c
                                /\ reservations'[d] = reservations[d] /\ history'[d] = history[d]
           /\ \/ Active' = Active /\ reservations' = reservations /\ history' = history
              \/ /\ Active' = Active \cup {c}
                 /\ reservations'[c].status = "reserved"
                 /\ reservations'[c].generation = policy /\ reservations'[c].lineage = l
                 /\ history'[c].admitted /\ ~history'[c].sent
                 /\ history'[c].run = r /\ history'[c].at = now
                 /\ records'[l].consumed + Reserved(l) + Cost[c] <= records'[l].limit
           /\ \A s, p : Account(s, p)' = Account(s, p)
           /\ \A d \in Calls : /\ history'[d].at = history[d].at \/ history'[d].at = now
                               /\ history'[d].sent = history[d].sent
                               /\ history[d].admitted => history'[d].admitted
<1> DEFINE l == At(Contract[policy], r, now)
           new == [status |-> "reserved", generation |-> policy, lineage |-> l]
           past == [admitted |-> TRUE, sent |-> FALSE, run |-> r, at |-> now]
<1>1. /\ Types /\ reservations \in [Calls -> Reservation] /\ history \in [Calls -> Past]
  BY DEF ContractInv, Inv, Types
<1>2. /\ ~history[c].admitted
      /\ \/ reservations' = reservations /\ history' = history
         \/ /\ records'[l].consumed + Reserved(l) + Cost[c] <= records'[l].limit
            /\ reservations' = [reservations EXCEPT ![c] = new]
            /\ history' = [history EXCEPT ![c] = past]
  BY <1>1, ReserveMeans
<1>3. c \notin Active /\ ~history[c].sent
  BY <1>2 DEF ContractInv, Issued, Dated
<1> HIDE DEF l
<1>4. new.status = "reserved" /\ new.generation = policy /\ new.lineage = l
      /\ past.admitted = TRUE /\ past.sent = FALSE /\ past.run = r /\ past.at = now
  OBVIOUS
<1> HIDE DEF new, past
<1>5. CASE reservations' = reservations /\ history' = history
  BY <1>3, <1>5 DEF Active, Account, l
<1>6. CASE /\ records'[l].consumed + Reserved(l) + Cost[c] <= records'[l].limit
           /\ reservations' = [reservations EXCEPT ![c] = new]
           /\ history' = [history EXCEPT ![c] = past]
  <2>1. /\ reservations'[c] = new /\ history'[c] = past
        /\ \A d \in Calls \ {c} : reservations'[d] = reservations[d] /\ history'[d] = history[d]
    BY <1>1, <1>6
  <2>2. Active' = Active \cup {c}
    BY <1>4, <2>1 DEF Active
  <2>3. \A d \in Active : d \in Active' /\ d # c /\ d \in Calls
    BY <1>3, <2>2 DEF Active
  <2>4. \A s, p : Account(s, p)' = Account(s, p)
    BY <1>3, <1>4, <2>1 DEF Account
  <2>5. history[c].sent = FALSE
    <3>1. history[c].sent \in BOOLEAN
      BY <1>1 DEF Past
    <3> QED
      BY <1>3, <3>1
  <2> QED
    BY <1>2, <1>3, <1>4, <1>6, <2>1, <2>2, <2>3, <2>4, <2>5 DEF l
<1> QED
  BY <1>2, <1>5, <1>6

\* The calls whose cost is still reserved on a lineage, before a step and after it.
Held(m) == {d \in Active : reservations[d].lineage = m /\ reservations[d].status = "reserved"}

LEMMA ReservedIs ==
    /\ \A m : Reserved(m) = SumFunctionOnSet(Cost, Held(m)) /\ Held(m) \subseteq Calls
    /\ \A m : Reserved(m)' = SumFunctionOnSet(Cost, Held(m)') /\ Held(m)' \subseteq Calls
<1>1. \A m : {c \in Charging(m) : reservations[c].status = "reserved"} = Held(m)
  BY DEF Charging, Held
<1>2. \A m : {c \in Charging(m)' : reservations'[c].status = "reserved"} = Held(m)'
  BY DEF Charging, Held
<1>3. \A m : Reserved(m)' = SumFunctionOnSet(Cost, {c \in Charging(m)' : reservations'[c].status = "reserved"})
  BY DEF Reserved
<1>4. \A m : Held(m) \subseteq Calls /\ Held(m)' \subseteq Calls
  BY DEF Held, Active
<1> QED
  BY <1>1, <1>2, <1>3, <1>4 DEF Reserved

\* What Reserve does to what is reserved: the call that is admitted adds what it costs.
LEMMA AdmissionReserves ==
    ASSUME ContractInv, NEW c \in Calls, NEW r \in Runs, Reserve(c, r)
    PROVE  \A m : Reserved(m)' = IF m = At(Contract[policy], r, now) /\ Active' # Active
                                 THEN Cost[c] + Reserved(m) ELSE Reserved(m)
<1>1. /\ c \notin Active
      /\ \A d \in Active : d # c /\ reservations'[d] = reservations[d]
      /\ \/ Active' = Active
         \/ /\ Active' = Active \cup {c}
            /\ reservations'[c].status = "reserved"
            /\ reservations'[c].lineage = At(Contract[policy], r, now)
  BY AdmissionMeans
<1>2. ASSUME NEW m, m # At(Contract[policy], r, now) \/ Active' = Active
      PROVE  Reserved(m)' = Reserved(m)
  <2>1. Held(m)' = Held(m)
    BY <1>1, <1>2 DEF Held
  <2> QED
    BY <2>1, ReservedIs
<1>3. ASSUME NEW m, m = At(Contract[policy], r, now), Active' # Active
      PROVE  Reserved(m)' = Cost[c] + Reserved(m)
  <2>1. Held(m)' \ {c} = Held(m) /\ c \in Held(m)'
    BY <1>1, <1>3 DEF Held
  <2>2. SumFunctionOnSet(Cost, Held(m)') = Cost[c] + SumFunctionOnSet(Cost, Held(m)' \ {c})
    BY <2>1, ReservedIs, CostSum
  <2> QED
    BY <2>1, <2>2, ReservedIs
<1> QED
  BY <1>2, <1>3

\* What FreshInv says of a record and of the generation that rules.
LEMMA RecordMeans ==
    ASSUME ContractInv, NEW l \in Recorded(records)
    PROVE  /\ l \in Lineages /\ records[l].generation \in Generations /\ Declares(l)
           /\ records[l].generation <= policy
           /\ records[l].reset = Contract[records[l].generation].reset
           /\ records[l].seconds = Contract[records[l].generation].seconds
           /\ records[l].limit = Contract[records[l].generation].limit
           /\ records[l].consumed \in Nat
           /\ \A n \in Lineages : Ruling(n) => records[l].generation <= records[n].generation
BY DEF ContractInv, Declares, Recorded, Ruling, Inv, Types, Record

\* A lineage that is adopted has the reset that rules: none came between.
LEMMA AdoptedRules ==
    ASSUME ContractInv, FreshInv, Orderly, NEW r \in Runs,
           At(Contract[policy], r, now) \in Recorded(records), NEW n \in Lineages, Ruling(n)
    PROVE  records[n].reset = Contract[policy].reset
<1> DEFINE l == At(Contract[policy], r, now)
           g == records[n].generation
           h == records[l].generation
<1>1. Types /\ policy \in Generations /\ now \in Time /\ n \in Recorded(records)
  BY DEF ContractInv, FreshInv, Inv, Types, Ruling
<1>2. /\ h \in Generations /\ h <= g /\ records[l].reset = Contract[h].reset /\ Declares(l)
  BY RecordMeans
<1>3. g \in Generations /\ g <= policy /\ records[n].reset = Contract[g].reset
  BY <1>1, RecordMeans
<1>4. records[l].reset = Contract[policy].reset
  <2> DEFINE k == l
  <2>1. k \in Recorded(records) /\ k = At(Contract[policy], r, now) /\ Declares(k)
    BY <1>2
  <2> HIDE DEF k
  <2>2. records[k].reset = Contract[policy].reset
    BY <1>1, <2>1, ResetOfShape
  <2> QED
    BY <2>2 DEF k
<1>5. policy \in Generations /\ Contract[h].reset = Contract[policy].reset
  BY <1>1, <1>2, <1>4
<1> HIDE DEF g, h, l
<1>6. Contract[g].reset = Contract[policy].reset
  BY <1>2, <1>3, <1>5, NoReturn
<1> QED
  BY <1>3, <1>6

\* Whatever Reserve declares, the live reservations are of its reset.
LEMMA ReservationsFollow ==
    ASSUME ContractInv, FreshInv, Orderly, NEW c \in Calls, NEW r \in Runs, Reserve(c, r), NEW d \in Active
    PROVE  /\ reservations[d].lineage \in Recorded(records)
           /\ Pruned(records)[reservations[d].lineage] = records[reservations[d].lineage]
           /\ records[reservations[d].lineage].reset = Contract[policy].reset
<1> DEFINE l == At(Contract[policy], r, now)
           P == Pruned(records)
           k == reservations[d].lineage
<1>1. Types /\ policy \in Generations /\ now \in Time
  BY DEF ContractInv, FreshInv, Inv, Types
<1>2. k \in Recorded(records) /\ P[k] = records[k] /\ k \in Recorded(P)
  <2>1. k \in Recorded(records)
    BY DEF ContractInv, FreshInv, Inv, ChargesBacked
  <2>2. P[k] = records[k]
    BY <1>1, PrunedType
  <2> QED
    BY <2>1, <2>2 DEF Recorded
<1>3. Upsertable(P, l, policy)
  BY <1>1, ReserveMeans
<1>4. CASE l \in Recorded(P)
  <2>1. l \in Recorded(records)
    BY <1>1, <1>4, PrunedType
  <2>2. PICK n \in Lineages : Ruling(n)
    BY <1>2, SomeRuling
  <2>3. records[k].reset = records[n].reset
    BY <2>2 DEF ContractInv, FreshInv, InForce
  <2> QED
    BY <1>2, <2>1, <2>2, <2>3, AdoptedRules
<1>5. CASE l \notin Recorded(P)
  <2>1. SameReset(P[k], Contract[policy])
    BY <1>2, <1>3, <1>5 DEF Upsertable, BlocksResetChange
  <2> QED
    BY <1>2, <2>1 DEF SameReset
<1> QED
  BY <1>2, <1>4, <1>5

\* When the reset changes, nobody charges a record, the lineage is new and inherits from
\* every record that was kept.
LEMMA ChangeInherits ==
    ASSUME ContractInv, FreshInv, Orderly, NEW c \in Calls, NEW r \in Runs, Reserve(c, r),
           NEW n \in Lineages, Ruling(n), records[n].reset # Contract[policy].reset
    PROVE  /\ Active = {}
           /\ \A m \in Recorded(Pruned(records)) :
                 Pruned(records)[m].consumed <= records'[At(Contract[policy], r, now)].consumed
<1> DEFINE l == At(Contract[policy], r, now)
           P == Pruned(records)
           g == records[n].generation
<1>1. Types /\ policy \in Generations
  BY DEF ContractInv, FreshInv, Inv, Types
<1>2. Active = {}
  <2> SUFFICES ASSUME NEW d \in Active PROVE FALSE
    OBVIOUS
  <2>1. records[reservations[d].lineage].reset = Contract[policy].reset
    BY ReservationsFollow
  <2>2. records[reservations[d].lineage].reset = records[n].reset
    BY DEF ContractInv, FreshInv, InForce
  <2> QED
    BY <2>1, <2>2
<1>3. /\ P \in [Lineages -> Record] /\ IsFiniteSet(Recorded(P))
      /\ Recorded(P) \subseteq Recorded(records)
      /\ \A m \in Recorded(P) : P[m] = records[m]
  <2>1. \A m \in Recorded(P) : P[m] # NoRecord /\ m \in Lineages
    BY DEF Recorded, NoRecord
  <2> QED
    BY <1>1, <2>1, PrunedType
<1>4. l \notin Recorded(P)
  BY <1>3, AdoptedRules
<1>5. records'[l].consumed = CarriedForward(P, policy)
  BY <1>1, <1>4, ReserveMeans
<1>6. ASSUME NEW m \in Recorded(P) PROVE ~SameReset(P[m], Contract[policy])
  <2> DEFINE h == records[m].generation
  <2>1. h \in Generations /\ h <= g /\ records[m].reset = Contract[h].reset /\ m \in Recorded(records)
    BY <1>3, RecordMeans
  <2>2. g \in Generations /\ g <= policy /\ records[n].reset = Contract[g].reset
    BY RecordMeans DEF Ruling
  <2>3. Contract[h].reset # Contract[policy].reset
    BY <1>1, <2>1, <2>2, NoReturn
  <2> QED
    BY <1>3, <2>1, <2>3 DEF SameReset
<1> HIDE DEF l, P
<1>7. \A m \in Recorded(P) : P[m].consumed <= CarriedForward(P, policy)
  BY <1>1, <1>3, <1>6, CarriedType
<1> QED
  BY <1>2, <1>5, <1>7 DEF l, P

\* Reserve leaves every account that can grow in one record.
LEMMA ReserveCovers ==
    ASSUME ContractInv, FreshInv, Orderly, NEW c \in Calls, NEW r \in Runs, Reserve(c, r),
           NEW s \in Runs, NEW p \in Nat, Open(s, p)', Account(s, p) # {}
    PROVE  LET m == At(Contract[policy], s, p * Period) IN
           /\ m \in Recorded(records')
           /\ SumFunctionOnSet(Cost, Account(s, p)) <= records'[m].consumed
<1> DEFINE l == At(Contract[policy], r, now)
           P == Pruned(records)
           m == At(Contract[policy], s, p * Period)
           sum == SumFunctionOnSet(Cost, Account(s, p))
<1>1. Types /\ policy \in Generations /\ now \in Nat
  BY DEF ContractInv, FreshInv, Inv, Types, Time
<1>2. /\ l \in Lineages /\ Recorded(records') = Recorded(P) \cup {l} /\ now' = now
      /\ \A k \in Lineages \ {l} : records'[k] = P[k]
      /\ records'[l].consumed = IF l \notin Recorded(P) THEN CarriedForward(P, policy) ELSE P[l].consumed
      /\ records' \in [Lineages -> Record] /\ P \in [Lineages -> Record]
  BY <1>1, ReserveMeans
<1>3. Open(s, p)
  <2>1. ASSUME p # now \div Period PROVE Open(s, p)
    <3>1. PICK d \in Active' : /\ reservations'[d].status = "reserved"
                               /\ history'[d].run = s /\ history'[d].at \div Period = p
      BY <1>2, <2>1 DEF Open
    <3>2. d \in Active
      BY <2>1, <3>1, AdmissionMeans
    <3> QED
      BY <3>1, <3>2, AdmissionMeans DEF Open
  <2> QED
    BY <2>1 DEF Open
<1>4. PICK n \in Lineages :
          /\ Ruling(n) /\ At(records[n], s, p * Period) \in Recorded(records)
          /\ sum <= records[At(records[n], s, p * Period)].consumed
  BY <1>3 DEF ContractInv, FreshInv, Covered
<1> DEFINE k == At(records[n], s, p * Period)
           g == records[n].generation
<1>5. /\ k \in Recorded(P) /\ P[k] = records[k] /\ k \in Lineages
  BY <1>3, <1>4, OpenStays DEF Recorded
<1>6. g \in Generations /\ g <= policy /\ records[n].reset = Contract[g].reset
      /\ records[n].seconds = Contract[g].seconds
  BY <1>4, RecordMeans DEF Ruling
<1>7. CASE records[n].reset = Contract[policy].reset
  <2>1. k = m
    <3>1. \A a, t : At(Contract[g], a, t) = At(Contract[policy], a, t)
      <4>1. Contract[g].reset = Contract[policy].reset
        BY <1>6, <1>7
      <4> HIDE DEF g
      <4> QED
        BY <1>1, <1>6, <4>1, SameResets
    <3> QED
      BY <1>6, <3>1 DEF At
  <2> HIDE DEF l, P, m, k, g, sum
  <2>2. records'[k].consumed = records[k].consumed
    BY <1>2, <1>5
  <2>3. sum <= records'[k].consumed
    BY <1>4, <2>2 DEF k
  <2> QED
    BY <1>2, <1>5, <2>1, <2>3 DEF m, sum
<1>8. CASE records[n].reset # Contract[policy].reset
  <2>1. /\ Active = {}
        /\ \A x \in Recorded(P) : P[x].consumed <= records'[l].consumed
    BY <1>4, <1>8, ChangeInherits
  <2>2. p = now \div Period
    BY <1>3, <2>1 DEF Open
  <2>3. m = At(Contract[policy], s, now)
    BY <1>1, <2>2, AtPeriod
  <2>4. Contract[policy].reset = "operator_run" => s = r
    <3>1. g < policy
      <4>1. g # policy
        BY <1>6, <1>8
      <4>2. g \in Nat /\ policy \in Nat
        BY <1>1, <1>6, GenerationsAssumption
      <4> HIDE DEF g
      <4> QED
        BY <1>6, <4>1, <4>2
    <3> QED
      BY <1>1, <1>6, <1>8, <3>1 DEF Orderly
  <2>5. m = l
    BY <2>3, <2>4 DEF At
  <2>6. sum <= records'[l].consumed
    <3>1. /\ sum <= records[k].consumed /\ records[k].consumed <= records'[l].consumed
      BY <1>4, <1>5, <2>1
    <3>2. records[k].consumed \in Nat /\ records'[l].consumed \in Nat
      BY <1>1, <1>2, <1>5 DEF Types, Record
    <3>3. sum \in Nat
      BY CostSum DEF Account
    <3> HIDE DEF sum, k, l
    <3> QED
      BY <3>1, <3>2, <3>3
  <2> QED
    BY <1>2, <2>5, <2>6
<1> QED
  BY <1>7, <1>8

LEMMA ReserveDeclares ==
    ASSUME ContractInv, NEW c \in Calls, NEW r \in Runs, Reserve(c, r),
           NEW m \in Recorded(records')
    PROVE  Declares(m)'
<1> DEFINE l == At(Contract[policy], r, now)
           P == Pruned(records)
<1>1. Types /\ policy \in Generations /\ now \in Time
  BY DEF ContractInv, Inv, Types
<1>2. /\ l \in Lineages /\ Recorded(records') = Recorded(P) \cup {l} /\ policy' = policy
      /\ \A k \in Lineages \ {l} : records'[k] = P[k]
      /\ records'[l].generation = policy /\ records'[l].reset = Contract[policy].reset
      /\ records'[l].seconds = Contract[policy].seconds
      /\ records'[l].limit = Contract[policy].limit
  BY <1>1, ReserveMeans
<1>3. CASE m = l
  <2>1. policy <= policy
    BY <1>1, GenerationsAssumption
  <2>2. /\ Contract[policy].reset = "fixed_window" <=> l.window # NoWindow
        /\ Contract[policy].reset = "operator_run" <=> l.run # NoRun
    BY <1>1, AtShape
  <2> HIDE DEF l, P
  <2> QED
    BY <1>1, <1>2, <1>3, <2>1, <2>2 DEF Declares
<1>4. CASE m # l
  <2>1. m \in Recorded(P) /\ records'[m] = P[m] /\ m \in Lineages
    BY <1>2, <1>4 DEF Recorded
  <2>2. P[m] = records[m]
    BY <1>1, <2>1, PrunedType DEF Recorded, NoRecord
  <2>3. m \in Recorded(records) /\ records'[m] = records[m]
    BY <2>1, <2>2 DEF Recorded
  <2> HIDE DEF l, P
  <2>4. Declares(m)
    BY <2>3 DEF ContractInv
  <2> QED
    BY <1>2, <2>3, <2>4 DEF Declares
<1> QED
  BY <1>3, <1>4

LEMMA ReserveIssues ==
    ASSUME ContractInv, NEW c \in Calls, NEW r \in Runs, Reserve(c, r), NEW d \in Active'
    PROVE  Issued(d)'
<1> DEFINE l == At(Contract[policy], r, now)
           P == Pruned(records)
           k == reservations[d].lineage
           j == reservations'[d].lineage
<1>1. Types /\ policy \in Generations /\ now \in Time
  BY DEF ContractInv, Inv, Types
<1>2. /\ l \in Lineages
      /\ \A m \in Lineages \ {l} : records'[m] = P[m]
      /\ records'[l].generation = policy
  BY <1>1, ReserveMeans
<1>3. CASE d \in Active
  <2>1. reservations'[d] = reservations[d] /\ history'[d] = history[d] /\ j = k
    BY <1>3, AdmissionMeans
  <2>2. /\ history[d].admitted /\ history[d].run \in Runs
        /\ reservations[d].generation \in Generations
        /\ reservations[d].generation <= records[k].generation
        /\ k = At(Contract[reservations[d].generation], history[d].run, history[d].at)
        /\ history[d].sent <=> reservations[d].status = "dispatched"
    BY <1>3 DEF ContractInv, Issued
  <2>3. k \in Recorded(records) /\ k \in Lineages
    BY <1>3 DEF ContractInv, Inv, ChargesBacked, Recorded
  <2>4. records[k].generation <= policy /\ records[k].generation \in Generations
    BY <2>3, RecordMeans
  <2>5. P[k] = records[k]
    BY <1>1, <1>3, PrunedType
  <2>6. reservations[d].generation <= records'[k].generation
    <3>1. reservations[d].generation \in Nat /\ records[k].generation \in Nat /\ policy \in Nat
      BY <1>1, <2>2, <2>4, GenerationsAssumption
    <3> HIDE DEF l, P, k
    <3> QED
      BY <1>2, <2>2, <2>3, <2>4, <2>5, <3>1
  <2> HIDE DEF k, l, P
  <2> QED
    BY <2>1, <2>2, <2>6 DEF Issued
<1>4. CASE d \notin Active
  <2>1. /\ reservations'[d].status = "reserved"
        /\ reservations'[d].generation = policy /\ j = l
        /\ history'[d].admitted /\ ~history'[d].sent
        /\ history'[d].run = r /\ history'[d].at = now
    BY <1>4, AdmissionMeans
  <2>2. policy <= policy
    BY <1>1, GenerationsAssumption
  <2>3. history'[d].sent <=> reservations'[d].status = "dispatched"
    BY <2>1
  <2>4. policy <= records'[j].generation
    BY <1>2, <2>1, <2>2
  <2>5. j = At(Contract[policy], r, now)
    BY <2>1
  <2> HIDE DEF l, P, j
  <2> QED
    BY <1>1, <2>1, <2>3, <2>4, <2>5 DEF Issued, j
<1> QED
  BY <1>3, <1>4

\* The lineage that Reserve declares rules, and every live reservation follows it.
LEMMA ReserveRules ==
    ASSUME ContractInv, FreshInv, Orderly, NEW c \in Calls, NEW r \in Runs, Reserve(c, r)
    PROVE  /\ Ruling(At(Contract[policy], r, now))'
           /\ \A n \in Lineages : Ruling(n)' => records'[n].reset = Contract[policy].reset
           /\ \A d \in Active' : records'[reservations'[d].lineage].reset = Contract[policy].reset
<1> DEFINE l == At(Contract[policy], r, now)
           P == Pruned(records)
<1>1. Types /\ policy \in Generations /\ now \in Time
  BY DEF ContractInv, FreshInv, Inv, Types
<1>2. /\ l \in Lineages /\ Recorded(records') = Recorded(P) \cup {l}
      /\ policy' = policy /\ now' = now
      /\ \A m \in Lineages \ {l} : records'[m] = P[m]
      /\ records'[l].generation = policy /\ records'[l].reset = Contract[policy].reset
  BY <1>1, ReserveMeans
<1>3. \A m \in Recorded(records') : /\ records'[m].generation <= policy
                                    /\ records'[m].generation \in Generations
                                    /\ records'[m].reset = Contract[records'[m].generation].reset
  BY <1>2, ReserveDeclares DEF Declares
<1>4. Ruling(l)'
  <2>1. l \in Recorded(records') /\ \A m \in Recorded(records') : records'[m].generation <= records'[l].generation
    BY <1>2, <1>3
  <2>2. \A n : Ruling(n)' <=> /\ n \in Recorded(records')
                              /\ \A m \in Recorded(records') : records'[m].generation <= records'[n].generation
    BY DEF Ruling
  <2>3. l' = l
    BY <1>2 DEF At
  <2> QED
    BY <2>1, <2>2, <2>3
<1>5. ASSUME NEW n \in Lineages, Ruling(n)' PROVE records'[n].reset = Contract[policy].reset
  <2> DEFINE g == records'[n].generation
  <2>1. n \in Recorded(records') /\ records'[l].generation <= g
    BY <1>2, <1>5 DEF Ruling
  <2>2. g <= policy /\ g \in Generations /\ records'[n].reset = Contract[g].reset /\ policy <= g
    BY <1>2, <1>3, <2>1
  <2>3. g \in Nat /\ policy \in Nat
    BY <1>1, <2>2, GenerationsAssumption
  <2> HIDE DEF g
  <2>4. g = policy
    BY <2>2, <2>3
  <2> QED
    BY <2>2, <2>4
<1>6. ASSUME NEW d \in Active'
      PROVE  records'[reservations'[d].lineage].reset = Contract[policy].reset
  <2> DEFINE k == reservations[d].lineage
  <2>1. CASE d \in Active
    <3>1. /\ reservations'[d] = reservations[d]
          /\ P[k] = records[k] /\ records[k].reset = Contract[policy].reset
          /\ k \in Lineages
      BY <2>1, AdmissionMeans, ReservationsFollow DEF Recorded
    <3> HIDE DEF l, P
    <3> QED
      BY <1>2, <3>1
  <2>2. CASE d \notin Active
    <3>1. reservations'[d].lineage = l
      BY <2>2, AdmissionMeans
    <3> QED
      BY <1>2, <3>1
  <2> QED
    BY <2>1, <2>2
<1> QED
  BY <1>4, <1>5, <1>6

LEMMA ReserveRoom ==
    ASSUME ContractInv, NEW c \in Calls, NEW r \in Runs, Reserve(c, r), NEW d \in Active'
    PROVE  Room(d)'
<1> DEFINE l == At(Contract[policy], r, now)
           P == Pruned(records)
<1>1. Types /\ policy \in Generations /\ now \in Time
  BY DEF ContractInv, Inv, Types
<1>2. /\ l \in Lineages /\ records' \in [Lineages -> Record]
      /\ \A m \in Lineages \ {l} : records'[m] = P[m]
      /\ records'[l].generation = policy /\ records'[l].limit = Contract[policy].limit
      /\ records'[l].consumed = IF l \notin Recorded(P) THEN CarriedForward(P, policy) ELSE P[l].consumed
  BY <1>1, ReserveMeans
<1>3. \A m : Reserved(m)' = IF m = l /\ Active' # Active
                            THEN Cost[c] + Reserved(m) ELSE Reserved(m)
  BY AdmissionReserves
<1>4. SUFFICES ASSUME NEW k \in Lineages,
                      reservations'[d].lineage = k, reservations'[d].status = "reserved",
                      reservations'[d].generation = records'[k].generation
               PROVE  records'[k].consumed + Reserved(k)' <= records'[k].limit
  BY DEF Room
<1>5. CASE k = l /\ Active' # Active
  <2>1. records'[l].consumed + Reserved(l) + Cost[c] <= records'[l].limit
    BY <1>5, AdmissionMeans
  <2>2. Reserved(k) \in Nat /\ Cost[c] \in Nat
    BY ReservedIsNumber, CallsAssumption
  <2>3. records'[k].consumed \in Nat
    BY <1>2 DEF Record
  <2>4. Reserved(k)' = Cost[c] + Reserved(k)
    BY <1>3, <1>5
  <2>5. records'[k].consumed + Reserved(k) + Cost[c] <= records'[k].limit
    BY <1>5, <2>1
  <2> HIDE DEF l, P
  <2> QED
    BY <2>2, <2>3, <2>4, <2>5
<1>6. CASE ~(k = l /\ Active' # Active)
  <2>1. d \in Active /\ reservations'[d] = reservations[d]
    <3>1. CASE Active' = Active
      BY <3>1, AdmissionMeans
    <3>2. CASE Active' # Active
      BY <1>4, <1>6, <3>2, AdmissionMeans
    <3> QED
      BY <3>1, <3>2
  <2>2. /\ reservations[d].lineage = k /\ reservations[d].status = "reserved"
        /\ reservations[d].generation = records'[k].generation
    BY <1>4, <2>1
  <2>3. P[k] = records[k] /\ k \in Recorded(records)
    BY <1>1, <2>1, <2>2, PrunedType DEF ContractInv, Inv, ChargesBacked
  <2>4. Reserved(k)' = Reserved(k)
    BY <1>3, <1>6
  <2>5. /\ records[k].generation = records'[k].generation
        /\ records'[k].consumed = records[k].consumed /\ records'[k].limit = records[k].limit
    <3>1. CASE k = l
      <4>1. reservations[d].generation <= records[k].generation
        BY <2>1, <2>2 DEF ContractInv, Issued
      <4>2. records[k].generation <= policy /\ records[k].generation \in Nat /\ policy \in Nat
            /\ records[k].limit = Contract[records[k].generation].limit
        BY <1>1, <2>3, RecordMeans, GenerationsAssumption
      <4>3. records[k].generation = policy
        <5>1. policy <= records[k].generation
          BY <1>2, <2>2, <3>1, <4>1
        <5> HIDE DEF l
        <5> QED
          BY <4>2, <5>1
      <4>4. l \in Recorded(P)
        BY <2>3, <3>1 DEF Recorded
      <4> HIDE DEF l, P
      <4> QED
        BY <1>2, <2>3, <3>1, <4>2, <4>3, <4>4
    <3>2. CASE k # l
      BY <1>2, <2>3, <3>2
    <3> QED
      BY <3>1, <3>2
  <2>6. records[k].consumed + Reserved(k) <= records[k].limit
    BY <2>1, <2>2, <2>5 DEF ContractInv, Room
  <2> QED
    BY <2>4, <2>5, <2>6
<1> QED
  BY <1>5, <1>6

LEMMA ReserveContract ==
    ASSUME ContractInv, NEW c \in Calls, NEW r \in Runs, Reserve(c, r)
    PROVE  ContractInv'
<1>1. Types /\ now \in Time
  BY DEF ContractInv, Inv, Types
<1>2. Inv'
  BY ReserveInv DEF ContractInv
<1>3. Dated'
  <2>1. now <= now /\ now' = now
    BY <1>1, ReserveMeans DEF Time
  <2>2. \A d \in Calls : history'[d].at <= now /\ (history'[d].sent => history'[d].admitted)
    BY <2>1, AdmissionMeans DEF ContractInv, Dated
  <2> QED
    BY <2>1, <2>2 DEF Dated
<1>4. \A m \in Recorded(records') : Declares(m)'
  BY ReserveDeclares
<1>5. \A d \in Active' : Issued(d)' /\ Room(d)'
  BY ReserveIssues, ReserveRoom
<1> QED
  BY <1>2, <1>3, <1>4, <1>5 DEF ContractInv

LEMMA ReserveFresh ==
    ASSUME ContractInv, FreshInv, Orderly, NEW c \in Calls, NEW r \in Runs, Reserve(c, r)
    PROVE  FreshInv'
<1> DEFINE l == At(Contract[policy], r, now)
<1>1. Types /\ policy \in Generations /\ now \in Time
  BY DEF ContractInv, FreshInv, Inv, Types
<1>2. /\ now' = now /\ policy' = policy /\ l \in Lineages
      /\ records'[l].reset = Contract[policy].reset /\ records'[l].seconds = Contract[policy].seconds
  BY <1>1, ReserveMeans
<1>3. \A d \in Active' : InForce(d)'
  BY ReserveRules DEF InForce
<1>4. ASSUME NEW s \in Runs, NEW p \in Nat, Open(s, p)' PROVE Covered(s, p)'
  <2>1. Account(s, p)' = Account(s, p)
    BY AdmissionMeans
  <2>2. SUFFICES ASSUME Account(s, p) # {}
                 PROVE  \E n \in Lineages :
                           /\ Ruling(n)'
                           /\ At(records'[n], s, p * Period) \in Recorded(records')
                           /\ SumFunctionOnSet(Cost, Account(s, p))
                                 <= records'[At(records'[n], s, p * Period)].consumed
    BY <2>1 DEF Covered
  <2> DEFINE m == At(Contract[policy], s, p * Period)
  <2>3. /\ m \in Recorded(records')
        /\ SumFunctionOnSet(Cost, Account(s, p)) <= records'[m].consumed
    BY <1>4, <2>2, ReserveCovers
  <2>4. PICK n \in Lineages : n = l
    BY <1>2
  <2>5. Ruling(n)'
    <3>1. l' = l
      BY <1>2 DEF At
    <3>2. Ruling(l)'
      BY ReserveRules
    <3> HIDE DEF l
    <3> QED
      BY <2>4, <3>1, <3>2 DEF Ruling
  <2>6. At(records'[n], s, p * Period) = m
    BY <1>2, <2>4 DEF At
  <2> QED
    BY <2>3, <2>5, <2>6
<1>5. NoFreshBudget'
  <2>1. \A s, p : Account(s, p)' = Account(s, p)
    BY AdmissionMeans
  <2> QED
    BY <2>1 DEF ContractInv, FreshInv, NoFreshBudget
<1> QED
  BY <1>3, <1>4, <1>5 DEF FreshInv

\* The largest limit is one: some generation declares it and none declares more.
LEMMA LargestIs ==
    /\ LargestLimit \in Nat
    /\ \A g \in Generations : Contract[g].limit <= LargestLimit
<1> DEFINE Limits == {Contract[g].limit : g \in Generations}
           limit == [g \in Generations |-> Contract[g].limit]
           all == SumFunctionOnSet(limit, Generations)
           Gaps == {k \in Nat : \E x \in Limits : x + k = all}
<1>1. \A g \in Generations : limit[g] = Contract[g].limit /\ limit[g] \in Nat
  BY ContractMeans
<1>2. IsFiniteSet(Generations)
  BY GenerationsAssumption
<1> HIDE DEF limit
<1>3. all \in Nat /\ \A g \in Generations : all = limit[g] + SumFunctionOnSet(limit, Generations \ {g})
  BY <1>1, <1>2, SumSplits
<1>4. ASSUME NEW g \in Generations PROVE SumFunctionOnSet(limit, Generations \ {g}) \in Nat
  <2>1. IsFiniteSet(Generations \ {g}) /\ \A h \in Generations \ {g} : limit[h] \in Nat
    BY <1>1, <1>2, FS_Subset
  <2> QED
    BY <2>1, SumSplits
<1> HIDE DEF all
<1>5. \A x \in Limits : x \in Nat /\ \E k \in Gaps : x + k = all
  BY <1>1, <1>3, <1>4
<1>6. Gaps # {} /\ Gaps \in SUBSET Nat
  <2>1. PICK g \in Generations : TRUE
    BY GenerationsAssumption
  <2> QED
    BY <1>5, <2>1
<1>7. PICK k \in Gaps : \A j \in Gaps : k <= j
  <2> HIDE DEF Gaps
  <2> QED
    BY <1>6, LeastNumber
<1>8. PICK x \in Limits : x + k = all
  BY <1>7
<1>9. \A y \in Limits : y <= x
  <2> TAKE y \in Limits
  <2>1. PICK j \in Gaps : y + j = all
    BY <1>5
  <2>2. k <= j /\ k \in Nat /\ j \in Nat /\ x \in Nat /\ y \in Nat
    BY <1>5, <1>7, <1>8, <2>1
  <2> HIDE DEF Limits, Gaps
  <2> QED
    BY <1>3, <1>8, <2>1, <2>2
<1>10. \A y \in Limits : x >= y
  <2>1. \A y \in Limits : y \in Nat /\ x \in Nat
    BY <1>5
  <2> HIDE DEF Limits
  <2> QED
    BY <1>9, <2>1
<1>11. LargestLimit \in Limits /\ \A y \in Limits : LargestLimit >= y
  <2>1. LargestLimit = CHOOSE z \in Limits : \A y \in Limits : z >= y
    BY DEF LargestLimit, Max
  <2> HIDE DEF Limits
  <2> QED
    BY <1>10, <2>1
<1>12. ASSUME NEW g \in Generations PROVE Contract[g].limit <= LargestLimit
  <2>1. Contract[g].limit \in Limits
    OBVIOUS
  <2>2. Contract[g].limit \in Nat /\ LargestLimit \in Nat /\ LargestLimit >= Contract[g].limit
    BY <1>5, <1>11, <2>1
  <2> QED
    BY <2>2
<1> QED
  BY <1>5, <1>11, <1>12

\* What a dispatch does to its account and to what is reserved.
LEMMA DispatchCharges ==
    ASSUME ContractInv, NEW c \in Calls, MarkDispatched(c)
    PROVE  LET r == history[c].run
               q == history[c].at \div Period
           IN  /\ \A s, p : ~(s = r /\ p = q) => Account(s, p)' = Account(s, p)
               /\ \A s, p : s = r /\ p = q => SumFunctionOnSet(Cost, Account(s, p)')
                                               = Cost[c] + SumFunctionOnSet(Cost, Account(s, p))
               /\ \A m : Reserved(m) = IF m = reservations[c].lineage THEN Cost[c] + Reserved(m)'
                                       ELSE Reserved(m)'
               /\ r \in Runs /\ q \in Nat /\ history[c].at <= now
<1> DEFINE r == history[c].run
           t == history[c].at
           l == reservations[c].lineage
<1>1. /\ Inv /\ history \in [Calls -> Past] /\ reservations[c].status = "reserved"
  BY DEF ContractInv, Inv, Types, MarkDispatched
<1>2. /\ c \in Active /\ Active' = Active
      /\ \A d \in Calls : /\ reservations'[d].lineage = reservations[d].lineage
                          /\ reservations'[d].status = IF d = c THEN "dispatched"
                                                       ELSE reservations[d].status
      /\ \A d \in Calls : /\ history'[d].run = history[d].run /\ history'[d].at = history[d].at
                          /\ history'[d].sent <=> (d = c \/ history[d].sent)
  BY <1>1, DispatchMeans
<1>3. ~history[c].sent /\ r \in Runs /\ t <= now
  BY <1>1, <1>2 DEF ContractInv, Issued, Dated
<1>4. t \in Nat /\ t \div Period \in Nat
  <2>1. t \in Nat
    BY <1>1 DEF Past, Time
  <2> HIDE DEF t
  <2> QED
    BY <2>1, BoundAssumption, StartMeans
<1>5. \A s, p : ~(s = r /\ p = t \div Period) => Account(s, p)' = Account(s, p)
  BY <1>2, <1>3 DEF Account
<1>6. ASSUME NEW s, NEW p, s = r, p = t \div Period
      PROVE  SumFunctionOnSet(Cost, Account(s, p)') = Cost[c] + SumFunctionOnSet(Cost, Account(s, p))
  <2>1. c \in Account(s, p)' /\ Account(s, p)' \ {c} = Account(s, p) /\ Account(s, p)' \subseteq Calls
    BY <1>2, <1>3, <1>6 DEF Account
  <2>2. SumFunctionOnSet(Cost, Account(s, p)') = Cost[c] + SumFunctionOnSet(Cost, Account(s, p)' \ {c})
    BY <2>1, CostSum
  <2> QED
    BY <2>1, <2>2
<1>7. ASSUME NEW m, m # l PROVE Reserved(m) = Reserved(m)'
  <2>1. Held(m)' = Held(m)
    BY <1>2, <1>7 DEF Held, Active
  <2> QED
    BY <2>1, ReservedIs
<1>8. ASSUME NEW m, m = l PROVE Reserved(m) = Cost[c] + Reserved(m)'
  <2>1. Held(m) \ {c} = Held(m)' /\ c \in Held(m)
    BY <1>1, <1>2, <1>8 DEF Held, Active
  <2>2. SumFunctionOnSet(Cost, Held(m)) = Cost[c] + SumFunctionOnSet(Cost, Held(m) \ {c})
    BY <2>1, ReservedIs, CostSum
  <2> QED
    BY <2>1, <2>2, ReservedIs
<1> QED
  BY <1>3, <1>4, <1>5, <1>6, <1>7, <1>8

\* MarkDispatched moves what it costs from the reserved to the consumed.
LEMMA DispatchContract ==
    ASSUME ContractInv, NEW c \in Calls, MarkDispatched(c)
    PROVE  ContractInv'
<1> DEFINE l == reservations[c].lineage
<1>1. Inv /\ Types /\ Inv'
  BY DispatchInv DEF ContractInv, Inv
<1>2. /\ l \in Lineages /\ l \in Recorded(records) /\ c \in Active
      /\ records' \in [Lineages -> Record]
      /\ \A m \in Lineages : /\ records'[m].generation = records[m].generation
                             /\ records'[m].reset = records[m].reset
                             /\ records'[m].seconds = records[m].seconds
                             /\ records'[m].limit = records[m].limit
                             /\ records'[m].consumed = IF m = l THEN records[m].consumed + Cost[c]
                                                       ELSE records[m].consumed
      /\ Recorded(records') = Recorded(records)
      /\ Active' = Active /\ now' = now /\ policy' = policy
  BY <1>1, DispatchMeans
<1>3. \A d \in Calls : /\ reservations'[d].lineage = reservations[d].lineage
                       /\ reservations'[d].generation = reservations[d].generation
                       /\ reservations'[d].status = IF d = c THEN "dispatched" ELSE reservations[d].status
                       /\ history'[d].admitted = history[d].admitted
                       /\ history'[d].run = history[d].run /\ history'[d].at = history[d].at
                       /\ history'[d].sent <=> (d = c \/ history[d].sent)
  BY <1>1, DispatchMeans
<1>4. /\ \A m : Reserved(m) = IF m = l THEN Cost[c] + Reserved(m)' ELSE Reserved(m)'
      /\ \A m : Reserved(m) \in Nat
      /\ \A m : Reserved(m)' \in Nat
  BY DispatchCharges, ReservedIsNumber, ReservedIs, CostSum
<1>5. \A m \in Lineages : records[m].consumed \in Nat /\ records[m].limit \in Nat
  BY <1>1 DEF Types, Record
<1>6. Cost[c] \in Nat
  BY CallsAssumption
<1>7. Dated'
  BY <1>2, <1>3 DEF ContractInv, Dated, Issued
<1>8. ASSUME NEW m \in Recorded(records') PROVE Declares(m)'
  <2>1. Declares(m) /\ m \in Lineages
    BY <1>2, <1>8 DEF ContractInv, Recorded
  <2> QED
    BY <1>2, <2>1 DEF Declares
<1>9. ASSUME NEW d \in Active' PROVE Issued(d)' /\ Room(d)'
  <2> DEFINE k == reservations[d].lineage
  <2>1. /\ d \in Active /\ d \in Calls /\ k \in Lineages /\ reservations[d].status # "absent"
        /\ Issued(d) /\ Room(d) /\ reservations'[d].lineage = k
    BY <1>1, <1>2, <1>3 DEF ContractInv, Active, Inv, Types, Reservation
  <2>2. Issued(d)'
    <3>1. /\ history[d].admitted /\ history[d].run \in Runs
          /\ reservations[d].generation \in Generations
          /\ reservations[d].generation <= records[k].generation
          /\ k = At(Contract[reservations[d].generation], history[d].run, history[d].at)
          /\ history[d].sent <=> reservations[d].status = "dispatched"
      BY <2>1 DEF Issued
    <3>2. records'[k].generation = records[k].generation
      BY <1>2, <2>1
    <3>3. history'[d].sent <=> reservations'[d].status = "dispatched"
      BY <1>3, <2>1, <3>1
    <3> HIDE DEF k
    <3> QED
      BY <1>3, <2>1, <3>1, <3>2, <3>3 DEF Issued
  <2>3. Room(d)'
    <3>1. SUFFICES ASSUME NEW m \in Lineages, reservations'[d].lineage = m,
                          reservations'[d].status = "reserved",
                          reservations'[d].generation = records'[m].generation
                   PROVE  records'[m].consumed + Reserved(m)' <= records'[m].limit
      BY DEF Room
    <3>2. records[m].consumed + Reserved(m) <= records[m].limit
      BY <1>2, <1>3, <2>1, <3>1 DEF Room
    <3>3. /\ records'[m].consumed = IF m = l THEN records[m].consumed + Cost[c] ELSE records[m].consumed
          /\ records'[m].limit = records[m].limit /\ records[m].consumed \in Nat
          /\ records[m].limit \in Nat
      BY <1>2, <1>5
    <3>4. /\ Reserved(m) = IF m = l THEN Cost[c] + Reserved(m)' ELSE Reserved(m)'
          /\ Reserved(m)' \in Nat /\ Reserved(m) \in Nat
      BY <1>4
    <3> HIDE DEF l
    <3> QED
      BY <1>6, <3>2, <3>3, <3>4
  <2> QED
    BY <2>2, <2>3
<1> QED
  BY <1>1, <1>7, <1>8, <1>9 DEF ContractInv

\* The record that MarkDispatched charges covers the account of the call, within the limit.
LEMMA DispatchFresh ==
    ASSUME ContractInv, FreshInv, Orderly, NEW c \in Calls, MarkDispatched(c)
    PROVE  FreshInv'
<1> DEFINE l == reservations[c].lineage
           r == history[c].run
           q == history[c].at \div Period
           Sum(s, p) == SumFunctionOnSet(Cost, Account(s, p))
<1>1. Inv /\ Types
  BY DEF ContractInv, Inv
<1>2. /\ l \in Lineages /\ l \in Recorded(records) /\ c \in Active
      /\ records' \in [Lineages -> Record]
      /\ \A m \in Lineages : /\ records'[m].generation = records[m].generation
                             /\ records'[m].reset = records[m].reset
                             /\ records'[m].seconds = records[m].seconds
                             /\ records'[m].limit = records[m].limit
                             /\ records'[m].consumed = IF m = l THEN records[m].consumed + Cost[c]
                                                       ELSE records[m].consumed
      /\ Recorded(records') = Recorded(records)
      /\ Active' = Active /\ now' = now /\ policy' = policy
  BY <1>1, DispatchMeans
<1>3. \A d \in Calls : /\ reservations'[d].lineage = reservations[d].lineage
                       /\ reservations'[d].generation = reservations[d].generation
                       /\ reservations'[d].status = IF d = c THEN "dispatched" ELSE reservations[d].status
                       /\ history'[d].admitted = history[d].admitted
                       /\ history'[d].run = history[d].run /\ history'[d].at = history[d].at
                       /\ history'[d].sent <=> (d = c \/ history[d].sent)
  BY <1>1, DispatchMeans
<1>4. /\ \A s, p : ~(s = r /\ p = q) => Account(s, p)' = Account(s, p)
      /\ \A s, p : s = r /\ p = q => SumFunctionOnSet(Cost, Account(s, p)') = Cost[c] + Sum(s, p)
      /\ \A m : Reserved(m) = IF m = l THEN Cost[c] + Reserved(m)' ELSE Reserved(m)'
      /\ r \in Runs /\ q \in Nat
  BY DispatchCharges
<1>5. /\ \A m : Reserved(m) \in Nat
      /\ \A m : Reserved(m)' \in Nat
  BY ReservedIsNumber, ReservedIs, CostSum
<1>6. Cost[c] \in Nat /\ \A s, p : Sum(s, p) \in Nat
  BY CallsAssumption, CostSum DEF Account
<1>7. \A m \in Lineages : records[m].consumed \in Nat /\ records'[m].consumed \in Nat
                          /\ records[m].limit \in Nat
  BY <1>1, <1>2 DEF Types, Record
<1>8. \A n \in Lineages : Ruling(n)' <=> Ruling(n)
  BY <1>2 DEF Ruling, Recorded
<1>9. \A n \in Lineages : \A s, t : At(records'[n], s, t) = At(records[n], s, t)
  BY <1>2 DEF At
<1>10. Open(r, q)
  BY <1>2 DEF Open, MarkDispatched
<1>11. Account(r, q) # {} => Sum(r, q) <= records[l].consumed
  <2>1. SUFFICES ASSUME Account(r, q) # {} PROVE Sum(r, q) <= records[l].consumed
    OBVIOUS
  <2>2. Covered(r, q)
    BY <1>4, <1>10 DEF ContractInv, FreshInv
  <2>3. PICK n \in Lineages : /\ Ruling(n)
                              /\ Sum(r, q) <= records[At(records[n], r, q * Period)].consumed
    BY <2>1, <2>2 DEF Covered
  <2>4. l = At(records[n], r, q * Period)
    BY <1>2, <2>3, ChargesHome
  <2> QED
    BY <2>3, <2>4
<1>12. Sum(r, q) <= records[l].consumed
  <2>1. Account(r, q) = {} => Sum(r, q) = 0
    BY SumEmpty
  <2>2. records[l].consumed \in Nat
    BY <1>2, <1>7
  <2> HIDE DEF Sum, l, q, r
  <2> QED
    BY <1>11, <2>1, <2>2
<1>13. ASSUME NEW d \in Active' PROVE InForce(d)'
  <2> DEFINE k == reservations[d].lineage
  <2>1. /\ d \in Active /\ d \in Calls /\ k \in Lineages
        /\ InForce(d) /\ reservations'[d].lineage = k
    BY <1>1, <1>2, <1>3 DEF FreshInv, Active, Inv, Types, Reservation
  <2>2. InForce(d)'
    <3>1. \A n \in Lineages : Ruling(n) => records[k].reset = records[n].reset
      BY <2>1 DEF InForce
    <3> HIDE DEF k
    <3>2. \A n \in Lineages : Ruling(n)' => records'[k].reset = records'[n].reset
      BY <1>2, <1>8, <2>1, <3>1
    <3> QED
      BY <2>1, <3>2 DEF InForce
  <2> QED
    BY <2>2
<1>14. ASSUME NEW s \in Runs, NEW p \in Nat, Open(s, p)' PROVE Covered(s, p)'
  <2>1. Open(s, p)
    BY <1>2, <1>3, <1>14 DEF Open, Active
  <2>2. CASE s = r /\ p = q
    <3>1. PICK n \in Lineages : Ruling(n)
      BY <1>2, SomeRuling
    <3>2. l = At(records[n], s, p * Period)
      BY <1>2, <2>2, <3>1, ChargesHome
    <3>3. SumFunctionOnSet(Cost, Account(s, p)') <= records'[l].consumed
      <4>1. SumFunctionOnSet(Cost, Account(s, p)') = Cost[c] + Sum(s, p) /\ Sum(s, p) \in Nat
            /\ Sum(s, p) <= records[l].consumed
        BY <1>4, <1>6, <1>12, <2>2
      <4>2. records'[l].consumed = records[l].consumed + Cost[c] /\ records[l].consumed \in Nat
        BY <1>2, <1>7
      <4> HIDE DEF l, Sum
      <4> QED
        BY <1>6, <4>1, <4>2
    <3>4. Ruling(n)' /\ At(records'[n], s, p * Period) = l /\ l \in Recorded(records')
      BY <1>2, <1>8, <1>9, <3>1, <3>2
    <3> HIDE DEF l
    <3> QED
      BY <3>3, <3>4 DEF Covered
  <2>3. CASE ~(s = r /\ p = q)
    <3>1. Account(s, p)' = Account(s, p)
      BY <1>4, <2>3
    <3>2. SUFFICES ASSUME Account(s, p) # {}
                   PROVE  \E n \in Lineages :
                             /\ Ruling(n)'
                             /\ At(records'[n], s, p * Period) \in Recorded(records')
                             /\ Sum(s, p) <= records'[At(records'[n], s, p * Period)].consumed
      BY <3>1 DEF Covered
    <3>3. PICK n \in Lineages : /\ Ruling(n)
                                /\ At(records[n], s, p * Period) \in Recorded(records)
                                /\ Sum(s, p) <= records[At(records[n], s, p * Period)].consumed
      BY <2>1, <3>2 DEF ContractInv, FreshInv, Covered
    <3> DEFINE m == At(records[n], s, p * Period)
    <3>4. /\ m \in Lineages /\ Ruling(n)' /\ At(records'[n], s, p * Period) = m
          /\ m \in Recorded(records') /\ Sum(s, p) <= records[m].consumed
      BY <1>2, <1>8, <1>9, <3>3 DEF Recorded
    <3> HIDE DEF m
    <3>5. Sum(s, p) <= records'[m].consumed
      <4>1. /\ records'[m].consumed = IF m = l THEN records[m].consumed + Cost[c]
                                      ELSE records[m].consumed
            /\ records[m].consumed \in Nat /\ Sum(s, p) \in Nat
        BY <1>2, <1>6, <1>7, <3>4
      <4> HIDE DEF l, Sum
      <4> QED
        BY <1>6, <3>4, <4>1
    <3> QED
      BY <3>4, <3>5
  <2> QED
    BY <2>2, <2>3
<1>15. NoFreshBudget'
  <2>1. SUFFICES ASSUME NEW s \in Runs, NEW p \in Time
                 PROVE  SumFunctionOnSet(Cost, Account(s, p)') <= LargestLimit
    BY DEF NoFreshBudget
  <2>2. CASE s = r /\ p = q
    <3>1. records[l].generation = reservations[c].generation /\ reservations[c].status = "reserved"
      BY DEF MarkDispatched, ContractCurrent
    <3>2. records[l].consumed + Reserved(l) <= records[l].limit
      BY <1>2, <3>1 DEF ContractInv, FreshInv, Room
    <3>3. records[l].limit <= LargestLimit /\ LargestLimit \in Nat
      BY <1>2, RecordMeans, LargestIs
    <3>4. PICK m : m = l
      OBVIOUS
    <3>5. Reserved(m) = Cost[c] + Reserved(m)' /\ Reserved(m)' \in Nat /\ Reserved(m) \in Nat
          /\ records[m].consumed + Reserved(m) <= records[m].limit
          /\ records[m].limit <= LargestLimit /\ records[m].consumed \in Nat /\ records[m].limit \in Nat
      BY <1>2, <1>4, <1>5, <1>7, <3>2, <3>3, <3>4
    <3>6. SumFunctionOnSet(Cost, Account(s, p)') = Cost[c] + Sum(s, p) /\ Sum(s, p) \in Nat
          /\ Sum(s, p) <= records[m].consumed
      BY <1>4, <1>6, <1>12, <2>2, <3>4
    <3> HIDE DEF Sum
    <3> QED
      BY <1>6, <3>3, <3>5, <3>6
  <2>3. CASE ~(s = r /\ p = q)
    BY <1>4, <2>3 DEF ContractInv, FreshInv, NoFreshBudget
  <2> QED
    BY <2>2, <2>3
<1> QED
  BY <1>13, <1>14, <1>15 DEF FreshInv

LEMMA CloseContract ==
    ASSUME ContractInv, NEW c \in Calls, Close(c)
    PROVE  ContractInv'
<1>1. /\ Inv /\ Inv'
      /\ Active' \subseteq Active /\ \A d \in Active' : reservations'[d] = reservations[d]
      /\ records' = records /\ now' = now /\ policy' = policy /\ history' = history
  BY CloseInv, CloseMeans DEF ContractInv
<1>2. \A m : Reserved(m)' <= Reserved(m) /\ Reserved(m)' \in Nat /\ Reserved(m) \in Nat
  <2>1. \A m : Held(m)' \subseteq Held(m)
    BY <1>1 DEF Held
  <2> QED
    BY <2>1, ReservedIs, CostSum
<1>3. Dated' /\ \A m \in Recorded(records') : Declares(m)'
  BY <1>1 DEF ContractInv, Dated, Declares
<1>4. \A d \in Active' : Issued(d)'
  BY <1>1 DEF ContractInv, Issued
<1>5. ASSUME NEW d \in Active' PROVE Room(d)'
  <2>1. SUFFICES ASSUME NEW m \in Lineages, reservations'[d].lineage = m,
                        reservations'[d].status = "reserved",
                        reservations'[d].generation = records[m].generation
                 PROVE  records[m].consumed + Reserved(m)' <= records[m].limit
    BY <1>1 DEF Room
  <2>2. records[m].consumed + Reserved(m) <= records[m].limit
    BY <1>1, <2>1 DEF ContractInv, Room
  <2>3. records[m].consumed \in Nat /\ records[m].limit \in Nat
    BY <1>1 DEF Inv, Types, Record
  <2> QED
    BY <1>2, <2>2, <2>3
<1> QED
  BY <1>1, <1>3, <1>4, <1>5 DEF ContractInv

\* A later generation governs: no record and no reservation changes.
LEMMA PolicyContract ==
    ASSUME ContractInv, ~Reverts, PolicyChange
    PROVE  ContractInv'
<1>1. /\ records' = records /\ now' = now /\ reservations' = reservations /\ history' = history
      /\ policy' \in Generations /\ policy' > policy /\ policy \in Generations
  BY DEF PolicyChange, ContractInv, Inv, Types
<1>2. Inv'
  BY NextInv DEF ContractInv, Next
<1>3. ASSUME NEW m \in Recorded(records') PROVE Declares(m)'
  <2>1. Declares(m) /\ records[m].generation <= policy /\ records[m].generation \in Generations
    BY <1>1, <1>3 DEF ContractInv, Declares
  <2>2. records[m].generation <= policy'
    BY <1>1, <2>1, GenerationsAssumption
  <2> QED
    BY <1>1, <2>1, <2>2 DEF Declares
<1>4. Dated' /\ \A d \in Active' : Issued(d)'
  BY <1>1 DEF ContractInv, Dated, Issued, Active
<1>5. \A d \in Active' : Room(d)'
  <2>1. \A m : Reserved(m)' = Reserved(m)
    BY <1>1 DEF Reserved, Charging, Active
  <2> QED
    BY <1>1, <2>1 DEF ContractInv, Room, Active
<1> QED
  BY <1>2, <1>3, <1>4, <1>5 DEF ContractInv

LEMMA TickContract ==
    ASSUME ContractInv, Tick
    PROVE  ContractInv'
<1>1. /\ records' = records /\ policy' = policy /\ reservations' = reservations /\ history' = history
      /\ now' = now + 1 /\ now \in Nat /\ history \in [Calls -> Past]
  BY DEF Tick, ContractInv, Inv, Types, Time
<1>2. Inv'
  BY NextInv DEF ContractInv, Next
<1>3. Dated'
  <2>1. \A c \in Calls : history[c].at \in Nat
    BY <1>1 DEF Past, Time
  <2> QED
    BY <1>1, <2>1 DEF ContractInv, Dated
<1>4. (\A m \in Recorded(records') : Declares(m)') /\ (\A d \in Active' : Issued(d)')
  BY <1>1 DEF ContractInv, Declares, Issued, Active
<1>5. \A d \in Active' : Room(d)'
  <2>1. \A m : Reserved(m)' = Reserved(m)
    BY <1>1 DEF Reserved, Charging, Active
  <2> QED
    BY <1>1, <2>1 DEF ContractInv, Room, Active
<1> QED
  BY <1>2, <1>3, <1>4, <1>5 DEF ContractInv

LEMMA StutterContract ==
    ASSUME ContractInv, UNCHANGED vars
    PROVE  ContractInv'
<1>1. /\ records' = records /\ policy' = policy /\ now' = now
      /\ reservations' = reservations /\ history' = history
  BY DEF vars
<1>2. Inv' /\ Dated' /\ \A m \in Recorded(records') : Declares(m)'
  BY <1>1, NextInv DEF ContractInv, Dated, Declares
<1>3. \A d \in Active' : Issued(d)'
  BY <1>1 DEF ContractInv, Issued, Active
<1>4. \A d \in Active' : Room(d)'
  <2>1. \A m : Reserved(m)' = Reserved(m)
    BY <1>1 DEF Reserved, Charging, Active
  <2> QED
    BY <1>1, <2>1 DEF ContractInv, Room, Active
<1> QED
  BY <1>2, <1>3, <1>4 DEF ContractInv

LEMMA InitContract ==
    ASSUME Init
    PROVE  ContractInv
<1>1. /\ Inv /\ now = 0 /\ Active = {} /\ Recorded(records) = {}
      /\ \A c \in Calls : history[c].at = 0 /\ history[c].sent = FALSE
  BY InitInv DEF Init, Active, Recorded, NoReservation, NoRecord, NoHistory
<1> QED
  BY <1>1 DEF ContractInv, Dated

LEMMA NextContract == ~Reverts => (ContractInv /\ [Next]_vars => ContractInv')
<1> SUFFICES ASSUME ~Reverts, ContractInv, [Next]_vars PROVE ContractInv'
  OBVIOUS
<1>1. ASSUME NEW c \in Calls, NEW r \in Runs, Reserve(c, r) PROVE ContractInv'
  BY <1>1, ReserveContract
<1>2. ASSUME NEW c \in Calls, MarkDispatched(c) PROVE ContractInv'
  BY <1>2, DispatchContract
<1>3. ASSUME NEW c \in Calls, Close(c) PROVE ContractInv'
  BY <1>3, CloseContract
<1>4. CASE PolicyChange
  BY <1>4, PolicyContract
<1>5. CASE Tick
  BY <1>5, TickContract
<1>6. CASE UNCHANGED vars
  BY <1>6, StutterContract
<1> QED
  BY <1>1, <1>2, <1>3, <1>4, <1>5, <1>6 DEF Next

--------------------------------------------------------------------------------
(* A dispatch fits the limit.                                              *)

\* What MarkDispatched charges, the limit of the record has room for.
DispatchWithinLimit ==
    [][\A c \in Calls : MarkDispatched(c) =>
          LET l == reservations[c].lineage IN records'[l].consumed <= records'[l].limit]_vars

\* As long as no earlier generation governs again, a dispatch never takes a record over its
\* limit: neither a limit that was lowered while calls were reserved nor a record that was
\* adopted, inherited or pruned in between lets it (budget_store.go:440 checks one
\* reservation at a time, budget_transition.go:402 the generation only).
THEOREM DispatchesFit ==
    ASSUME ~Reverts
    PROVE  Spec => DispatchWithinLimit
<1> DEFINE Fits(c) == LET l == reservations[c].lineage IN records'[l].consumed <= records'[l].limit
<1>1. ASSUME ContractInv, NEW c \in Calls, MarkDispatched(c) PROVE Fits(c)
  <2> DEFINE l == reservations[c].lineage
  <2>1. /\ Inv /\ l \in Lineages /\ c \in Active /\ reservations[c].status = "reserved"
        /\ records[l].generation = reservations[c].generation
        /\ records'[l].consumed = records[l].consumed + Cost[c] /\ records'[l].limit = records[l].limit
    <3>1. Inv /\ records[l].generation = reservations[c].generation /\ reservations[c].status = "reserved"
      BY <1>1 DEF ContractInv, MarkDispatched, ContractCurrent
    <3>2. /\ l \in Lineages /\ c \in Active
          /\ records'[l].consumed = records[l].consumed + Cost[c] /\ records'[l].limit = records[l].limit
      BY <1>1, <3>1, DispatchMeans
    <3> QED
      BY <3>1, <3>2
  <2>2. records[l].consumed + Reserved(l) <= records[l].limit
    BY <1>1, <2>1 DEF ContractInv, Room
  <2>3. PICK m \in Lineages : m = l
    BY <2>1
  <2>4. /\ Reserved(m) = Cost[c] + Reserved(m)' /\ Reserved(m)' \in Nat /\ Reserved(m) \in Nat
        /\ records[m].consumed \in Nat /\ records[m].limit \in Nat /\ Cost[c] \in Nat
    BY <1>1, <2>1, <2>3, DispatchCharges, ReservedIs, CostSum, CallsAssumption DEF Inv, Types, Record
  <2>5. records[m].consumed + Cost[c] <= records[m].limit
    <3>1. records[m].consumed + Reserved(m) <= records[m].limit
      BY <2>2, <2>3
    <3> QED
      BY <2>4, <3>1
  <2> QED
    BY <2>1, <2>3, <2>5
<1>2. ContractInv /\ [Next]_vars => [\A c \in Calls : MarkDispatched(c) => Fits(c)]_vars
  BY <1>1
<1> QED
  BY <1>2, InitContract, NextContract, PTL DEF Spec, DispatchWithinLimit

--------------------------------------------------------------------------------
(* No fresh budget.                                                        *)

LEMMA CloseFresh ==
    ASSUME ContractInv, FreshInv, NEW c \in Calls, Close(c)
    PROVE  FreshInv'
<1>1. /\ Active' \subseteq Active /\ \A d \in Active' : reservations'[d] = reservations[d]
      /\ records' = records /\ now' = now /\ history' = history
  BY CloseMeans DEF ContractInv
<1>2. \A n : Ruling(n)' <=> Ruling(n)
  BY <1>1 DEF Ruling
<1>3. \A d \in Active' : InForce(d)'
  BY <1>1, <1>2 DEF FreshInv, InForce
<1>4. ASSUME NEW s \in Runs, NEW p \in Nat, Open(s, p)' PROVE Covered(s, p)'
  <2>1. Open(s, p)
    BY <1>1, <1>4 DEF Open
  <2>2. Covered(s, p)
    BY <2>1 DEF FreshInv
  <2>3. Account(s, p)' = Account(s, p)
    BY <1>1 DEF Account
  <2> QED
    BY <1>1, <1>2, <2>2, <2>3 DEF Covered
<1>5. NoFreshBudget'
  BY <1>1 DEF FreshInv, NoFreshBudget, Account
<1> QED
  BY <1>3, <1>4, <1>5 DEF FreshInv

\* The governing generation is no part of FreshInv: a change of it moves nothing.
LEMMA UnmovedFresh ==
    ASSUME FreshInv,
           records' = records /\ now' = now /\ reservations' = reservations /\ history' = history
    PROVE  FreshInv'
<1>1. NoFreshBudget' /\ \A d \in Active' : InForce(d)'
  BY DEF FreshInv, NoFreshBudget, Account, InForce, Ruling, Active
<1>2. \A s \in Runs, p \in Nat : Open(s, p)' => Covered(s, p)'
  BY DEF FreshInv, Open, Covered, Account, Ruling, Active
<1> QED
  BY <1>1, <1>2 DEF FreshInv

\* The clock moves on: an account that opens with its period is empty.
LEMMA TickFresh ==
    ASSUME ContractInv, FreshInv, Tick
    PROVE  FreshInv'
<1>1. /\ records' = records /\ reservations' = reservations /\ history' = history
      /\ now' = now + 1 /\ now \in Nat /\ history \in [Calls -> Past]
  BY DEF Tick, ContractInv, Inv, Types, Time
<1>2. \A c \in Calls : history[c].at \in Nat /\ history[c].at <= now
  BY <1>1 DEF Past, Time, ContractInv, Dated
<1>3. NoFreshBudget' /\ \A d \in Active' : InForce(d)'
  BY <1>1 DEF FreshInv, NoFreshBudget, Account, InForce, Ruling, Active
<1>4. ASSUME NEW s \in Runs, NEW p \in Nat, Open(s, p)' PROVE Covered(s, p)'
  <2>1. Account(s, p)' = Account(s, p)
    BY <1>1 DEF Account
  <2>2. CASE Account(s, p) = {}
    BY <2>1, <2>2 DEF Covered
  <2>3. CASE Account(s, p) # {}
    <3>1. Open(s, p)
      <4>1. CASE p = now' \div Period
        <5>1. PICK c \in Calls : history[c].at \div Period = p
          BY <2>3 DEF Account
        <5>2. history[c].at <= now /\ history[c].at \in Nat /\ now <= now' /\ now' \in Nat
          BY <1>1, <1>2
        <5>3. /\ history[c].at \div Period <= now \div Period
              /\ now \div Period <= now' \div Period
              /\ now \div Period \in Nat
          BY <1>1, <5>2, BoundAssumption, DivMonotone
        <5>4. now \div Period = p
          BY <4>1, <5>1, <5>3
        <5> QED
          BY <5>4 DEF Open
      <4>2. CASE p # now' \div Period
        BY <1>1, <1>4, <4>2 DEF Open, Active
      <4> QED
        BY <4>1, <4>2
    <3>2. Covered(s, p)
      BY <3>1 DEF FreshInv
    <3> QED
      BY <1>1, <2>1, <3>2 DEF Covered, Ruling
  <2> QED
    BY <2>2, <2>3
<1> QED
  BY <1>3, <1>4 DEF FreshInv

LEMMA InitFresh ==
    ASSUME Init
    PROVE  FreshInv
<1>1. Active = {} /\ \A c \in Calls : history[c].sent = FALSE
  BY DEF Init, Active, NoReservation, NoHistory
<1>2. \A s, p : Account(s, p) = {}
  BY <1>1 DEF Account
<1>3. NoFreshBudget
  BY <1>2, SumEmpty, LargestIs DEF NoFreshBudget
<1> QED
  BY <1>1, <1>2, <1>3 DEF FreshInv, Covered

\* What a run dispatches in a period stays within the largest limit that was declared,
\* for every orderly sequence of contracts, whatever is reserved, pruned, adopted or
\* carried forward on the way (RECONC-0008:742 and 754).
THEOREM OrderlyChangesAddNothing ==
    ASSUME Orderly
    PROVE  Spec => []NoFreshBudget
<1>1. ContractInv /\ FreshInv /\ [Next]_vars => FreshInv'
  <2> SUFFICES ASSUME ContractInv, FreshInv, [Next]_vars PROVE FreshInv'
    OBVIOUS
  <2>1. ASSUME NEW c \in Calls, NEW r \in Runs, Reserve(c, r) PROVE FreshInv'
    BY <2>1, ReserveFresh
  <2>2. ASSUME NEW c \in Calls, MarkDispatched(c) PROVE FreshInv'
    BY <2>2, DispatchFresh
  <2>3. ASSUME NEW c \in Calls, Close(c) PROVE FreshInv'
    BY <2>3, CloseFresh
  <2>4. CASE PolicyChange
    BY <2>4, UnmovedFresh DEF PolicyChange
  <2>5. CASE Tick
    BY <2>5, TickFresh
  <2>6. CASE UNCHANGED vars
    BY <2>6, UnmovedFresh DEF vars
  <2> QED
    BY <2>1, <2>2, <2>3, <2>4, <2>5, <2>6 DEF Next
<1>2. ContractInv /\ [Next]_vars => ContractInv'
  BY NextContract DEF Orderly
<1>3. Init => ContractInv /\ FreshInv
  BY InitContract, InitFresh
<1>4. FreshInv => NoFreshBudget
  BY DEF FreshInv
<1> QED
  BY <1>1, <1>2, <1>3, <1>4, PTL DEF Spec
================================================================================
