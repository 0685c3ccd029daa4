---------------------------- MODULE IntegerSets -----------------------------
(***************************************************************************)
(* Least and greatest elements of sets of integers, for the proofs about   *)
(* definitions that CHOOSE one, the size of sets counted by classes, and   *)
(* functions defined by recursion.                                         *)
(***************************************************************************)
EXTENDS Integers, FiniteSets, FiniteSetTheorems, FunctionTheorems, TLAPS

\* A nonempty set of naturals has a least element: strict inclusion between
\* the initial segments 0 .. n is well founded.
LEMMA NatMin ==
    ASSUME NEW S \in SUBSET Nat, S # {}
    PROVE  \E x \in S : \A y \in S : x <= y
<1> DEFINE T == {0 .. n : n \in S}
<1> DEFINE R == StrictSubsetOrdering(Nat)
<1>1. IsWellFoundedOn(R, FiniteSubsetsOf(Nat))
    BY FS_StrictSubsetOrderingWellFounded
<1>2. T \subseteq FiniteSubsetsOf(Nat) /\ T # {}
    <2>1. ASSUME NEW n \in S PROVE 0 .. n \in FiniteSubsetsOf(Nat)
        <3>1. IsFiniteSet(0 .. n)
            BY FS_Interval
        <3> QED BY <3>1 DEF FiniteSubsetsOf
    <2> QED BY <2>1
<1>3. PICK X \in T : \A Y \in T : <<Y, X>> \notin R
    <2> HIDE DEF T, R
    <2> QED BY <1>1, <1>2, WFMin
<1>4. PICK x \in S : X = 0 .. x
    BY <1>3
<1>5. ASSUME NEW y \in S, y < x PROVE FALSE
    <2>1. 0 .. y \in T
        OBVIOUS
    <2>2. 0 .. y \subseteq 0 .. x
        BY <1>5
    <2>3. x \in 0 .. x /\ x \notin 0 .. y
        BY <1>5
    <2>4. <<0 .. y, 0 .. x>> \in R
        <3>1. 0 .. y \in SUBSET Nat /\ 0 .. x \in SUBSET Nat
            OBVIOUS
        <3> QED BY <2>2, <2>3, <3>1 DEF StrictSubsetOrdering
    <2> QED BY <1>3, <1>4, <2>1, <2>4
<1>6. \A y \in S : x <= y
    BY <1>5
<1> QED BY <1>6

\* A nonempty set of integers with a lower bound has a least element.
LEMMA IntMin ==
    ASSUME NEW S \in SUBSET Int, S # {}, NEW low \in Int, \A x \in S : low <= x
    PROVE  \E x \in S : \A y \in S : x <= y
<1> DEFINE T == {x - low : x \in S}
<1>1. T \in SUBSET Nat
    <2>1. ASSUME NEW x \in S PROVE x - low \in Nat
        <3>1. x \in Int /\ low <= x
            OBVIOUS
        <3> QED BY <3>1
    <2> QED BY <2>1
<1>2. T # {}
    OBVIOUS
<1>3. PICK n \in T : \A k \in T : n <= k
    <2> HIDE DEF T
    <2> QED BY <1>1, <1>2, NatMin
<1>4. PICK x \in S : n = x - low
    BY <1>3
<1>5. ASSUME NEW y \in S PROVE x <= y
    <2>1. y - low \in T
        OBVIOUS
    <2>2. x - low <= y - low
        BY <1>3, <1>4, <2>1
    <2>3. x \in Int /\ y \in Int
        OBVIOUS
    <2> QED BY <2>2, <2>3
<1> QED BY <1>5

\* A nonempty set of integers with an upper bound has a greatest element.
LEMMA IntMax ==
    ASSUME NEW S \in SUBSET Int, S # {}, NEW high \in Int, \A x \in S : x <= high
    PROVE  \E x \in S : \A y \in S : y <= x
<1> DEFINE T == {0 - x : x \in S}
<1>1. T \in SUBSET Int /\ T # {}
    <2>1. ASSUME NEW x \in S PROVE 0 - x \in Int
        <3>1. x \in Int
            OBVIOUS
        <3> QED BY <3>1
    <2> QED BY <2>1
<1>2. \A k \in T : 0 - high <= k
    <2>1. ASSUME NEW x \in S PROVE 0 - high <= 0 - x
        <3>1. x \in Int /\ x <= high
            OBVIOUS
        <3> QED BY <3>1
    <2> QED BY <2>1
<1>3. PICK k \in T : \A j \in T : k <= j
    <2> DEFINE low == 0 - high
    <2>1. low \in Int
        OBVIOUS
    <2>2. \A k \in T : low <= k
        BY <1>2
    <2> HIDE DEF T, low
    <2> QED BY <1>1, <2>1, <2>2, IntMin
<1>4. PICK x \in S : k = 0 - x
    BY <1>3
<1>5. ASSUME NEW y \in S PROVE y <= x
    <2>1. 0 - y \in T
        OBVIOUS
    <2>2. 0 - x <= 0 - y
        BY <1>3, <1>4, <2>1
    <2>3. x \in Int /\ y \in Int
        OBVIOUS
    <2> QED BY <2>2, <2>3
<1> QED BY <1>5

\* A finite set of integers has a greatest element: of the sets of those above a
\* member, the least is empty.
LEMMA FiniteMax ==
    ASSUME NEW S \in SUBSET Int, S # {}, IsFiniteSet(S)
    PROVE  \E x \in S : \A y \in S : y <= x
<1> DEFINE Above(x) == {y \in S : y > x}
           T == {Above(x) : x \in S}
           R == StrictSubsetOrdering(S)
<1>1. IsWellFoundedOn(R, FiniteSubsetsOf(S))
    BY FS_StrictSubsetOrderingWellFounded
<1>2. T \subseteq FiniteSubsetsOf(S) /\ T # {}
    <2>1. ASSUME NEW x \in S PROVE Above(x) \in FiniteSubsetsOf(S)
        <3>1. Above(x) \subseteq S
            OBVIOUS
        <3>2. IsFiniteSet(Above(x))
            BY <3>1, FS_Subset
        <3> QED BY <3>1, <3>2 DEF FiniteSubsetsOf
    <2> QED BY <2>1
<1>3. PICK X \in T : \A Y \in T : <<Y, X>> \notin R
    <2> HIDE DEF T, R
    <2> QED BY <1>1, <1>2, WFMin
<1>4. PICK x \in S : X = Above(x)
    BY <1>3
<1>5. ASSUME NEW y \in S, ~(y <= x) PROVE FALSE
    <2>0. x \in Int /\ y \in Int
        OBVIOUS
    <2>1. Above(y) \in T
        OBVIOUS
    <2>2. y \in Above(x) /\ y \notin Above(y)
        BY <1>5, <2>0
    <2>3. Above(y) \subseteq Above(x)
        <3>1. ASSUME NEW z \in Above(y) PROVE z \in Above(x)
            <4>1. z \in Int /\ z > y
                OBVIOUS
            <4> QED BY <1>5, <2>0, <4>1
        <3> QED BY <3>1
    <2>4. <<Above(y), Above(x)>> \in R
        <3>1. Above(y) \in SUBSET S /\ Above(x) \in SUBSET S
            OBVIOUS
        <3> QED BY <2>2, <2>3, <3>1 DEF StrictSubsetOrdering
    <2> QED BY <1>3, <1>4, <2>1, <2>4
<1> QED BY <1>5

-----------------------------------------------------------------------------
(* Counting. *)

\* A product with a quotient is at most what was divided.
LEMMA QuotientProduct ==
    ASSUME NEW n \in Nat, NEW c \in Nat \ {0}
    PROVE  n \div c \in Nat /\ c * (n \div c) <= n
OBVIOUS

\* A set whose members fall in a finite number of classes of at most c members
\* each has at most c times as many members as there are classes.
LEMMA CountByClass ==
    ASSUME NEW S, NEW K, IsFiniteSet(K), NEW g \in [S -> K], NEW c \in Nat,
           \A k \in K : /\ IsFiniteSet({s \in S : g[s] = k})
                        /\ Cardinality({s \in S : g[s] = k}) <= c
    PROVE  IsFiniteSet(S) /\ Cardinality(S) <= Cardinality(K) * c
<1> DEFINE Class(k) == {s \in S : g[s] = k}
           Counts(b, k) == b \in Bijection(1 .. Cardinality(Class(k)), Class(k))
           number == [k \in K |-> CHOOSE b : Counts(b, k)]
           Is(i, s) == i \in 1 .. c /\ number[g[s]][i] = s
           f == [s \in S |-> <<g[s], CHOOSE i \in 1 .. c : Is(i, s)>>]
<1>1. ASSUME NEW k \in K PROVE Counts(number[k], k)
    <2>1. ExistsBijection(1 .. Cardinality(Class(k)), Class(k))
        BY FS_CardinalityType
    <2>2. \E b : Counts(b, k)
        BY <2>1, Fun_ExistsBij
    <2> HIDE DEF Counts
    <2> QED BY <2>2
<1>2. ASSUME NEW s \in S PROVE \E i \in 1 .. c : Is(i, s)
    <2> DEFINE n == Cardinality(Class(g[s]))
    <2>1. g[s] \in K /\ s \in Class(g[s])
        OBVIOUS
    <2>2. number[g[s]] \in Bijection(1 .. n, Class(g[s]))
        BY <1>1, <2>1
    <2>3. PICK i \in 1 .. n : number[g[s]][i] = s
        <3> DEFINE h == number[g[s]]
                   C == Class(g[s])
        <3>1. h \in Bijection(1 .. n, C) /\ s \in C
            BY <2>1, <2>2
        <3> HIDE DEF h, C, n
        <3>2. \E i \in 1 .. n : h[i] = s
            BY <3>1 DEF Bijection, Surjection
        <3> QED BY <3>2 DEF h
    <2>4. n \in Nat /\ n <= c
        BY <2>1, FS_CardinalityType
    <2> HIDE DEF n, number
    <2> QED BY <2>3, <2>4
<1>3. ASSUME NEW s \in S PROVE f[s] \in K \X (1 .. c) /\ f[s][1] = g[s] /\ Is(f[s][2], s)
    <2> HIDE DEF Is
    <2> QED BY <1>2
<1>4. f \in [S -> K \X (1 .. c)]
    <2> HIDE DEF Is
    <2> QED BY <1>3
<1>5. ASSUME NEW s \in S, NEW u \in S, f[s] = f[u] PROVE s = u
    <2>1. number[g[s]][f[s][2]] = s /\ number[g[u]][f[u][2]] = u /\ g[s] = g[u]
        <3> HIDE DEF f, number
        <3> QED BY <1>3, <1>5
    <2> HIDE DEF f, number
    <2> QED BY <1>5, <2>1
<1>6. f \in Injection(S, K \X (1 .. c))
    <2> HIDE DEF f
    <2> QED BY <1>4, <1>5, Fun_IsInj
<1>7. IsFiniteSet(1 .. c) /\ Cardinality(1 .. c) = c
    BY FS_Interval
<1>8. IsFiniteSet(K \X (1 .. c)) /\ Cardinality(K \X (1 .. c)) = Cardinality(K) * c
    BY <1>7, FS_Product
<1> HIDE DEF f
<1> QED BY <1>6, <1>8, FS_Injection

\* E gives the value at i of a function on S from its values at lower ranks.
IsRecursion(S, V, E, rank, n) ==
    /\ V # {} /\ n \in Nat /\ rank \in [S -> 0..n]
    /\ E \in [[S -> V] \X S -> V]
    /\ \A f, g \in [S -> V], i \in S :
          (\A j \in S : rank[j] < rank[i] => f[j] = g[j]) => E[<<f, i>>] = E[<<g, i>>]

\* A function may be defined by recursion along a rank.  Of the ranks that no function
\* satisfies the definition up to, there is no least.
LEMMA RecursionAlongRanks ==
    ASSUME NEW S, NEW V, NEW E, NEW rank, NEW n, IsRecursion(S, V, E, rank, n)
    PROVE  \E f \in [S -> V] : \A i \in S : f[i] = E[<<f, i>>]
<1> USE DEF IsRecursion
<1> PICK v \in V : TRUE
    OBVIOUS
<1> DEFINE Holds(f, k) == \A i \in S : rank[i] < k => f[i] = E[<<f, i>>]
           Never == {k \in Nat : \A f \in [S -> V] : ~Holds(f, k)}
<1>1. Never = {}
    <2> SUFFICES ASSUME Never # {} PROVE FALSE
        OBVIOUS
    <2>1. PICK k \in Never : \A l \in Never : k <= l
        <3>1. Never \in SUBSET Nat
            OBVIOUS
        <3> HIDE DEF Never
        <3> QED BY <3>1, NatMin
    <2>2. k # 0
        <3>1. [i \in S |-> v] \in [S -> V]
            OBVIOUS
        <3>2. Holds([i \in S |-> v], 0)
            OBVIOUS
        <3> QED BY <2>1, <3>1, <3>2
    <2>3. PICK f \in [S -> V] : Holds(f, k - 1)
        <3>1. k \in Nat /\ k - 1 \in Nat /\ ~(k <= k - 1)
            BY <2>1, <2>2
        <3>2. k - 1 \notin Never
            <4> HIDE DEF Never
            <4> QED BY <2>1, <3>1
        <3> HIDE DEF Holds
        <3> QED BY <3>1, <3>2
    <2> DEFINE g == [i \in S |-> E[<<f, i>>]]
    <2>4. g \in [S -> V]
        OBVIOUS
    <2>5. ASSUME NEW i \in S, rank[i] < k PROVE g[i] = E[<<g, i>>]
        <3>1. ASSUME NEW j \in S, rank[j] < rank[i] PROVE f[j] = g[j]
            <4>1. rank[j] < k - 1
                BY <2>1, <2>5, <3>1
            <4> QED BY <2>3, <4>1
        <3>2. E[<<f, i>>] = E[<<g, i>>]
            <4> HIDE DEF g
            <4> QED BY <2>4, <3>1
        <3> QED BY <3>2
    <2> QED BY <2>1, <2>4, <2>5
<1>2. PICK f \in [S -> V] : Holds(f, n + 1)
    <2>1. n + 1 \in Nat /\ n + 1 \notin Never
        <3> HIDE DEF Never
        <3> QED BY <1>1
    <2> HIDE DEF Holds
    <2> QED BY <2>1
<1>3. \A i \in S : rank[i] < n + 1
    OBVIOUS
<1> QED BY <1>2, <1>3

\* A sequence of values, each from the one before it.
CanIterate(V, n, start, next) == n \in Nat /\ start \in V /\ next \in [V \X (1..n) -> V]
Iterates(f, V, n, start, next) ==
    /\ f \in [0..n -> V]
    /\ \A k \in 0..n : f[k] = IF k = 0 THEN start ELSE next[<<f[k - 1], k>>]

\* There is such a sequence, by its first value.
LEMMA Iteration ==
    ASSUME NEW V, NEW n, NEW start, NEW next, CanIterate(V, n, start, next)
    PROVE  \E f : Iterates(f, V, n, start, next)
<1> USE DEF CanIterate
<1> DEFINE D == 0..n
           Value(f, k) == IF k = 0 THEN start ELSE next[<<f[k - 1], k>>]
           E == [x \in [D -> V] \X D |-> Value(x[1], x[2])]
           rank == [k \in D |-> k]
<1>1. rank \in [D -> 0..n] /\ V # {}
    OBVIOUS
<1>2. ASSUME NEW f \in [D -> V], NEW k \in D PROVE Value(f, k) \in V
    <2>1. CASE k = 0
        BY <2>1
    <2>2. CASE k # 0
        <3>1. k - 1 \in D /\ k \in 1..n
            BY <2>2
        <3> QED BY <2>2, <3>1
    <2> QED BY <2>1, <2>2
<1>3. E \in [[D -> V] \X D -> V]
    <2> HIDE DEF Value
    <2> QED BY <1>2
<1>4. ASSUME NEW f \in [D -> V], NEW g \in [D -> V], NEW k \in D,
             \A j \in D : rank[j] < rank[k] => f[j] = g[j]
      PROVE  E[<<f, k>>] = E[<<g, k>>]
    <2>1. CASE k = 0
        BY <2>1
    <2>2. CASE k # 0
        <3>1. k - 1 \in D /\ rank[k - 1] < rank[k]
            BY <2>2
        <3>2. f[k - 1] = g[k - 1]
            BY <1>4, <3>1
        <3>3. Value(f, k) = Value(g, k)
            BY <3>2
        <3> HIDE DEF Value
        <3> QED BY <3>3
    <2> QED BY <2>1, <2>2
<1>5. PICK f \in [D -> V] : \A k \in D : f[k] = E[<<f, k>>]
    <2> HIDE DEF E, D, rank
    <2>1. IsRecursion(D, V, E, rank, n)
        BY <1>1, <1>3, <1>4 DEF IsRecursion
    <2> QED BY <2>1, RecursionAlongRanks
<1>6. \A k \in D : f[k] = Value(f, k)
    <2> HIDE DEF D, Value
    <2> QED BY <1>5
<1> QED BY <1>6 DEF Iterates

\* What holds at first and is kept by each step holds up to the end.
LEMMA StepByStep ==
    ASSUME NEW n \in Nat, NEW S, 0 \in S, \A k \in 1..n : k - 1 \in S => k \in S
    PROVE  0..n \subseteq S
<1> DEFINE Missing == {k \in 0..n : k \notin S}
<1> SUFFICES ASSUME Missing # {} PROVE FALSE
    OBVIOUS
<1>1. PICK k \in Missing : \A j \in Missing : k <= j
    <2>1. Missing \in SUBSET Nat
        OBVIOUS
    <2> HIDE DEF Missing
    <2> QED BY <2>1, NatMin
<1>2. k \in 1..n /\ k - 1 \in 0..n /\ ~(k <= k - 1)
    BY <1>1
<1> QED BY <1>1, <1>2
=============================================================================
