--------------------------- MODULE OrderTheorems ---------------------------
(* The smallest number of a set, as socket(2) needs it to find the lowest free  *)
(* descriptor, and the elements of a sequence that std::remove_if leaves.  The  *)
(* order of the numbers is well-founded because inclusion of the sets 0 .. n    *)
(* is.                                                                          *)
EXTENDS Subsequences, FiniteSetsExt, FiniteSetTheorems, WellFoundedInduction, TLAPS

\* Of two numbers the smaller has the smaller initial segment.
LEMMA SegmentsAreOrdered ==
    ASSUME NEW n \in Nat, NEW m \in Nat, n < m
    PROVE  <<0 .. n, 0 .. m>> \in StrictSubsetOrdering(Nat)
<1>1. 0 .. n \in SUBSET Nat /\ 0 .. m \in SUBSET Nat
    OBVIOUS
<1>2. 0 .. n \subseteq 0 .. m
    OBVIOUS
<1>3. m \in 0 .. m /\ m \notin 0 .. n
    OBVIOUS
<1>4. 0 .. n # 0 .. m
    BY <1>3
<1> HIDE <1>3
<1> DEFINE N == 0 .. n  M == 0 .. m
<1>5. N \in SUBSET Nat /\ M \in SUBSET Nat /\ N \subseteq M /\ N # M
    BY <1>1, <1>2, <1>4
<1> HIDE DEF N, M
<1>6. <<N, M>> \in StrictSubsetOrdering(Nat)
    BY <1>5 DEF StrictSubsetOrdering
<1> QED
    BY <1>6 DEF N, M

\* A set of numbers has a smallest one if it has any, and Min gives it.
LEMMA MinIsMember ==
    ASSUME NEW S \in SUBSET Nat, S # {}
    PROVE  Min(S) \in S /\ \A n \in S : Min(S) <= n
<1> DEFINE Below == {0 .. n : n \in S}
<1>1. Below \subseteq FiniteSubsetsOf(Nat)
    <2>1. ASSUME NEW n \in S PROVE 0 .. n \in FiniteSubsetsOf(Nat)
        <3>1. IsFiniteSet(0 .. n)
            BY FS_Interval
        <3>2. 0 .. n \in SUBSET Nat
            OBVIOUS
        <3> DEFINE N == 0 .. n
        <3> HIDE DEF N
        <3>3. N \in FiniteSubsetsOf(Nat)
            BY <3>1, <3>2 DEF FiniteSubsetsOf, N
        <3> QED
            BY <3>3 DEF N
    <2> QED
        BY <2>1
<1>2. Below # {}
    OBVIOUS
<1>3. \E B \in Below : \A C \in Below : ~(<<C, B>> \in StrictSubsetOrdering(Nat))
    <2> HIDE DEF Below
    <2> QED
        BY <1>1, <1>2, FS_StrictSubsetOrderingWellFounded, WFMin
<1>4. PICK m \in S : \A n \in S : ~(<<0 .. n, 0 .. m>> \in StrictSubsetOrdering(Nat))
    BY <1>3
<1>5. \A n \in S : m <= n
    <2> SUFFICES ASSUME NEW n \in S, n < m PROVE FALSE
        OBVIOUS
    <2> QED
        BY <1>4, SegmentsAreOrdered
<1> QED
    BY <1>5 DEF Min

\* Ranks are numbers.
LEMMA RankIsNat ==
    ASSUME NEW K \in SUBSET Nat, IsFiniteSet(K), NEW i \in Nat
    PROVE  /\ IsFiniteSet({j \in K : j <= i})
           /\ Rank(K, i) \in Nat /\ Rank(K, i) <= Cardinality(K)
<1>1. {j \in K : j <= i} \subseteq K
    OBVIOUS
<1>2. IsFiniteSet({j \in K : j <= i}) /\ Rank(K, i) <= Cardinality(K)
    BY <1>1, FS_Subset DEF Rank
<1> QED
    BY <1>2, FS_CardinalityType DEF Rank

\* What the next number does to the rank.
LEMMA RankStep ==
    ASSUME NEW K \in SUBSET Nat, IsFiniteSet(K), NEW m \in Nat, m # 0
    PROVE  Rank(K, m) = IF m \in K THEN Rank(K, m - 1) + 1 ELSE Rank(K, m - 1)
<1> DEFINE I == {j \in K : j <= m - 1}  J == {j \in K : j <= m}
<1>0. m - 1 \in Nat /\ ~(m <= m - 1)
    OBVIOUS
<1>1. IsFiniteSet(I)
    BY <1>0, RankIsNat
<1>2. \A j \in K : j <= m <=> j <= m - 1 \/ j = m
    OBVIOUS
<1>3. CASE m \in K
    <2>1. J = I \union {m} /\ m \notin I
        <3> HIDE <1>1
        <3>1. m \notin I
            BY <1>0
        <3>2. m <= m
            OBVIOUS
        <3>3. J = I \union {m}
            BY <1>2, <1>3, <3>2, Zenon
        <3> QED
            BY <3>1, <3>3
    <2>2. Cardinality(J) = Cardinality(I) + 1
        <3> HIDE DEF I, J
        <3> QED
            BY <1>1, <2>1, FS_AddElement
    <2> QED
        BY <1>3, <2>2 DEF Rank
<1>4. CASE m \notin K
    <2>1. J = I
        BY <1>2, <1>4
    <2> QED
        BY <1>4, <2>1 DEF Rank
<1> QED
    BY <1>3, <1>4

\* The ranks of the positions are 1, 2, ... up to their number.
LEMMA RankReached ==
    ASSUME NEW n \in Nat, NEW K \in SUBSET Nat, IsFiniteSet(K),
           \A k \in K : 1 <= k /\ k <= n, NEW r \in 1 .. Cardinality(K)
    PROVE  \E i \in K : Rank(K, i) = r
<1> DEFINE I == {i \in Nat : Rank(K, i) >= r}
<1>0. Cardinality(K) \in Nat
    BY FS_CardinalityType
<1>1. n \in I
    <2>1. {j \in K : j <= n} = K
        OBVIOUS
    <2>2. Rank(K, n) = Cardinality(K)
        BY <2>1 DEF Rank
    <2> QED
        BY <1>0, <2>2
<1>2. PICK m \in I : \A i \in I : m <= i
    <2>1. I \in SUBSET Nat /\ I # {}
        BY <1>1
    <2> HIDE DEF I
    <2> QED
        BY <2>1, MinIsMember
<1>3. m # 0
    <2>1. \A j \in K : ~(j <= 0)
        OBVIOUS
    <2>2. {j \in K : j <= 0} = {}
        BY <2>1
    <2>3. Rank(K, 0) = 0
        BY <2>2, FS_EmptySet DEF Rank
    <2> QED
        BY <2>3
<1>4. m - 1 \in Nat /\ m - 1 \notin I
    BY <1>2, <1>3
<1>5. Rank(K, m - 1) \in Nat /\ m \in Nat /\ Rank(K, m) >= r
    BY <1>2, <1>4, RankIsNat
<1>6. Rank(K, m - 1) < r
    BY <1>0, <1>4, <1>5
<1> QED
    BY <1>2, <1>3, <1>5, <1>6, RankStep

\* A later position has a greater rank.
LEMMA RankGrows ==
    ASSUME NEW K \in SUBSET Nat, IsFiniteSet(K), NEW i \in K, NEW j \in K, i < j
    PROVE  Rank(K, i) < Rank(K, j)
<1> DEFINE I == {k \in K : k <= i}  J == {k \in K : k <= j}
<1>1. \A k \in K : k <= i => k <= j
    OBVIOUS
<1>2. I \subseteq J
    BY <1>1
<1>3. j \in J /\ j \notin I
    OBVIOUS
<1>4. IsFiniteSet(J)
    BY RankIsNat
<1>5. Cardinality(I) < Cardinality(J)
    <2> HIDE DEF I, J
    <2>1. IsFiniteSet(I) /\ Cardinality(I) <= Cardinality(J)
        BY <1>2, <1>4, FS_Subset
    <2>2. Cardinality(I) # Cardinality(J)
        BY <1>2, <1>3, <1>4, FS_Subset
    <2> QED
        BY <1>4, <2>1, <2>2, FS_CardinalityType
<1> QED
    BY <1>5 DEF Rank

\* What is picked comes from the picked positions, all of them, in their order.
LEMMA PickedElements ==
    ASSUME NEW T, NEW s \in Seq(T), NEW K \in SUBSET DOMAIN s
    PROVE  /\ Picked(s, K) \in Seq(T)
           /\ \A n \in DOMAIN Picked(s, K) : \E i \in K :
                 Rank(K, i) = n /\ Picked(s, K)[n] = s[i]
           /\ \A i \in K : /\ Rank(K, i) \in DOMAIN Picked(s, K)
                           /\ Picked(s, K)[Rank(K, i)] = s[i]
           /\ \A i, j \in K : i < j => Rank(K, i) < Rank(K, j)
<1> DEFINE N == Len(s)
<1>1. DOMAIN s = 1 .. N /\ N \in Nat
    OBVIOUS
<1>2. K \in SUBSET Nat /\ \A k \in K : 1 <= k /\ k <= N
    BY <1>1
<1>3. IsFiniteSet(K) /\ Cardinality(K) \in Nat
    <2>1. IsFiniteSet(1 .. N)
        BY <1>1, FS_Interval
    <2> QED
        BY <1>1, <2>1, FS_Subset, FS_CardinalityType
<1> DEFINE Nth(n) == CHOOSE i \in K : Rank(K, i) = n
<1>4. \A n \in 1 .. Cardinality(K) : Nth(n) \in K /\ Rank(K, Nth(n)) = n
    <2> HIDE DEF N
    <2> QED
        BY <1>1, <1>2, <1>3, RankReached
<1>5. ASSUME NEW i \in K
      PROVE  Rank(K, i) \in 1 .. Cardinality(K) /\ Nth(Rank(K, i)) = i
    <2>0. i \in Nat /\ i # 0 /\ i - 1 \in Nat
        BY <1>2
    <2>1. Rank(K, i) \in Nat /\ Rank(K, i) <= Cardinality(K)
        BY <1>2, <1>3, <2>0, RankIsNat
    <2>2. Rank(K, i) # 0
        <3>1. Rank(K, i - 1) \in Nat
            BY <1>2, <1>3, <2>0, RankIsNat
        <3> QED
            BY <1>2, <1>3, <2>0, <3>1, RankStep
    <2>3. Nth(Rank(K, i)) \in K /\ Rank(K, Nth(Rank(K, i))) = Rank(K, i)
        BY <1>3, <1>4, <2>1, <2>2
    <2>4. \A j \in K : Rank(K, j) = Rank(K, i) => j = i
        <3>1. \A j \in K : j \in Nat /\ (j < i \/ i < j \/ i = j)
            BY <1>2
        <3>2. \A j \in K : Rank(K, j) \in Nat
            BY <1>2, <1>3, RankIsNat
        <3> QED
            BY <1>2, <1>3, <2>1, <3>1, <3>2, RankGrows
    <2> HIDE DEF Nth
    <2> QED
        BY <1>3, <2>1, <2>2, <2>3, <2>4
<1> HIDE DEF Nth, N
<1>6. Picked(s, K) = [n \in 1 .. Cardinality(K) |-> s[Nth(n)]]
    BY DEF Picked, Nth
<1>7. Picked(s, K) \in Seq(T)
    <2>1. \A n \in 1 .. Cardinality(K) : s[Nth(n)] \in T
        BY <1>4
    <2> QED
        BY <1>3, <1>6, <2>1
<1>8. \A i, j \in K : i < j => Rank(K, i) < Rank(K, j)
    BY <1>2, <1>3, RankGrows
<1> QED
    BY <1>4, <1>5, <1>6, <1>7, <1>8
=============================================================================
