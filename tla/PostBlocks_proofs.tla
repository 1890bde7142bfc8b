--------------------------- MODULE PostBlocks_proofs ---------------------------
(***************************************************************************)
(* What the reducers of the blocks do to the posts they show, for blocks   *)
(* of any length.                                                          *)
(***************************************************************************)
EXTENDS PostBlocks, FiniteSetTheorems, SequenceTheorems, WellFoundedInduction,
        NaturalsInduction, TLAPS

-----------------------------------------------------------------------------
\* Numbers

LEMMA MinOf ==
    ASSUME NEW S \in SUBSET Nat, S # {}
    PROVE  Min(S) \in S /\ \A j \in S : Min(S) <= j
<1> DEFINE R == OpToRel(<, Nat)
<1>1. IsWellFoundedOn(R, Nat)
  BY NatLessThanWellFounded
<1>2. PICK m \in S : TRUE
  OBVIOUS
<1>3. PICK k \in S : \A y \in Nat : << y, k >> \in R => ~(y \in S)
  BY <1>1, <1>2, WFMin
<1>4. \A j \in S : k <= j
  <2> TAKE j \in S
  <2>1. ~(<< j, k >> \in R)
    BY <1>3
  <2>2. ~(j < k)
    BY <2>1 DEF OpToRel
  <2> QED
    BY <2>2
<1> QED
  BY <1>4 DEF Min

\* Induction up to n, for the numbers that are in K
LEMMA UpTo ==
    ASSUME NEW n \in Nat, NEW K, 0 \in K, \A k \in 0 .. n : k \in K /\ k < n => k + 1 \in K
    PROVE  \A k \in 0 .. n : k \in K
<1> DEFINE S == {k \in 0 .. n : k \notin K}
<1>1. SUFFICES ASSUME S # {} PROVE FALSE
  OBVIOUS
<1>2. S \in SUBSET Nat
  OBVIOUS
<1> DEFINE m == Min(S)
<1>3. m \in S /\ \A j \in S : m <= j
  BY <1>1, <1>2, MinOf
<1>4. m # 0 /\ m - 1 \in 0 .. n /\ m - 1 < n /\ ~(m <= m - 1)
  BY <1>3
<1>5. m - 1 \in K
  BY <1>3, <1>4
<1>6. (m - 1) + 1 \in K
  BY <1>4, <1>5
<1> QED
  BY <1>3, <1>6

-----------------------------------------------------------------------------
\* Arranged items: each comes once, after those that are before it.

StrictOrder(I, R) ==
    /\ \A i \in I : <<i, i>> \notin R
    /\ \A i, j, k \in I : <<i, j>> \in R /\ <<j, k>> \in R => <<i, k>> \in R
    /\ \A i, j \in I : i = j \/ <<i, j>> \in R \/ <<j, i>> \in R

Arranged(A, I, R) ==
    /\ Cardinality(I) \in Nat /\ A \in [1 .. Cardinality(I) -> I]
    /\ \A i \in I : \E k \in 1 .. Cardinality(I) : A[k] = i
    /\ \A k, l \in 1 .. Cardinality(I) : k < l => <<A[k], A[l]>> \in R
    /\ \A k, l \in 1 .. Cardinality(I) : A[k] = A[l] => k = l

LEMMA ArrangeArranges ==
    ASSUME NEW I, IsFiniteSet(I), NEW R, StrictOrder(I, R)
    PROVE  Arranged(Arrange(I, R), I, R)
<1> DEFINE n == Cardinality(I)
           Under(i) == {j \in I : <<j, i>> \in R}
           rank == [i \in I |-> Cardinality(Under(i))]
           A == Arrange(I, R)
<1>1. n \in Nat /\ IsFiniteSet(0 .. n - 1) /\ Cardinality(0 .. n - 1) = n
  <2>1. n \in Nat
    BY FS_CardinalityType
  <2>2. 0 \in Int /\ n - 1 \in Int /\ (IF 0 > n - 1 THEN 0 ELSE n - 1 - 0 + 1) = n
    BY <2>1
  <2> HIDE DEF n
  <2> QED
    BY <2>1, <2>2, FS_Interval
<1>2. ASSUME NEW i \in I
      PROVE  IsFiniteSet(Under(i)) /\ rank[i] \in 0 .. n - 1
  <2>1. Under(i) \in SUBSET I /\ i \notin Under(i)
    BY DEF StrictOrder
  <2>2. /\ IsFiniteSet(Under(i)) /\ Cardinality(Under(i)) <= n
        /\ Cardinality(Under(i)) # n /\ Cardinality(Under(i)) \in Nat
    BY <1>1, <2>1, FS_Subset, FS_CardinalityType
  <2> QED
    BY <1>1, <2>2
<1>3. ASSUME NEW i \in I, NEW j \in I, <<i, j>> \in R
      PROVE  rank[i] < rank[j]
  <2>1. Under(i) \in SUBSET Under(j) /\ i \in Under(j) /\ i \notin Under(i)
    BY <1>3 DEF StrictOrder
  <2>2. /\ Cardinality(Under(i)) <= Cardinality(Under(j))
        /\ Cardinality(Under(i)) # Cardinality(Under(j))
    BY <1>2, <2>1, FS_Subset
  <2>3. rank[i] \in Nat /\ rank[j] \in Nat
    BY <1>2
  <2> QED
    BY <2>2, <2>3
<1> HIDE DEF Under
<1>4. rank \in Injection(I, 0 .. n - 1)
  <2>1. rank \in [I -> 0 .. n - 1]
    BY <1>2
  <2>2. ASSUME NEW i \in I, NEW j \in I, rank[i] = rank[j] PROVE i = j
    <3>1. rank[i] \in Nat /\ rank[j] \in Nat
      BY <1>2
    <3>2. <<i, j>> \notin R /\ <<j, i>> \notin R
      BY <1>3, <2>2, <3>1
    <3> QED
      BY <3>2 DEF StrictOrder
  <2> QED
    BY <2>1, <2>2 DEF Injection, IsInjective
<1>5. \A m \in 0 .. n - 1 : \E i \in I : rank[i] = m
  <2>1. rank \in Surjection(I, 0 .. n - 1)
    BY <1>1, <1>4, FS_Injection
  <2> QED
    BY <2>1 DEF Surjection
<1>6. \A k \in 1 .. n : A[k] \in I /\ rank[A[k]] = k - 1
  <2> TAKE k \in 1 .. n
  <2>1. A[k] = CHOOSE i \in I : Cardinality(Under(i)) = k - 1
    BY DEF Arrange, Under
  <2>2. \E i \in I : Cardinality(Under(i)) = k - 1
    <3>1. k - 1 \in 0 .. n - 1
      BY <1>1
    <3> QED
      BY <1>5, <3>1
  <2>3. A[k] \in I /\ Cardinality(Under(A[k])) = k - 1
    BY <2>1, <2>2
  <2> QED
    BY <2>3
<1>7. A \in [1 .. n -> I]
  <2> DEFINE pick(k) == CHOOSE i \in I : Cardinality({j \in I : <<j, i>> \in R}) = k - 1
  <2>1. A = [k \in 1 .. n |-> pick(k)]
    BY DEF Arrange
  <2> HIDE DEF A, pick, rank
  <2> QED
    BY <1>6, <2>1
<1> HIDE DEF A
<1>8. ASSUME NEW i \in I PROVE \E k \in 1 .. n : A[k] = i
  <2>1. rank[i] + 1 \in 1 .. n /\ rank[i] \in Nat
    BY <1>1, <1>2
  <2>2. rank[A[rank[i] + 1]] = rank[i] /\ A[rank[i] + 1] \in I
    BY <1>6, <2>1
  <2>3. A[rank[i] + 1] = i
    BY <1>4, <2>2 DEF Injection, IsInjective
  <2> QED
    BY <2>1, <2>3
<1>9. ASSUME NEW k \in 1 .. n, NEW l \in 1 .. n, k < l PROVE <<A[k], A[l]>> \in R
  <2>1. A[k] \in I /\ A[l] \in I /\ rank[A[k]] = k - 1 /\ rank[A[l]] = l - 1
    BY <1>6
  <2>2. A[k] # A[l]
    BY <1>1, <1>9, <2>1
  <2>3. <<A[l], A[k]>> \notin R
    <3>1. ~(rank[A[l]] < rank[A[k]])
      BY <1>1, <1>9, <2>1
    <3> QED
      BY <1>3, <2>1, <3>1
  <2> QED
    BY <2>1, <2>2, <2>3 DEF StrictOrder
<1>10. \A k, l \in 1 .. n : A[k] = A[l] => k = l
  <2> TAKE k, l \in 1 .. n
  <2>1. A[k] = A[l] => k - 1 = l - 1
    BY <1>6
  <2> QED
    BY <1>1, <2>1
<1> QED
  BY <1>1, <1>7, <1>8, <1>9, <1>10 DEF Arranged, A

-----------------------------------------------------------------------------
\* Filtered and sorted sequences

\* Only the ids of own come more than once.
Once(order, own) ==
    \A j, k \in DOMAIN order : order[j] = order[k] /\ j # k => order[j] \in own

\* The items of t are items of s, each at a place of its own.
Places(f, t, s) ==
    /\ f \in [DOMAIN t -> DOMAIN s]
    /\ \A k \in DOMAIN t : t[k] = s[f[k]]
    /\ \A k, l \in DOMAIN t : f[k] = f[l] => k = l

LEMMA OnceKept ==
    ASSUME NEW s, NEW t, NEW f, Places(f, t, s), NEW own, Once(s, own)
    PROVE  Once(t, own)
<1> SUFFICES ASSUME NEW j \in DOMAIN t, NEW k \in DOMAIN t, t[j] = t[k], j # k
             PROVE  t[j] \in own
  BY DEF Once
<1>1. f[j] \in DOMAIN s /\ f[k] \in DOMAIN s /\ f[j] # f[k] /\ s[f[j]] = s[f[k]] /\ t[j] = s[f[j]]
  BY DEF Places
<1> QED
  BY <1>1 DEF Once

LEMMA SeqFacts ==
    ASSUME NEW S, NEW s \in Seq(S)
    PROVE  /\ DOMAIN s = 1 .. Len(s) /\ Len(s) \in Nat /\ ToSet(s) \subseteq S
           /\ IsFiniteSet(DOMAIN s) /\ Cardinality(DOMAIN s) = Len(s)
           /\ \A x : x \in ToSet(s) <=> \E i \in DOMAIN s : s[i] = x
           /\ s \in Seq(ToSet(s)) /\ (s = << >> <=> ToSet(s) = {}) /\ (s = << >> <=> Len(s) = 0)
           /\ s # << >> => /\ Head(s) = s[1] /\ Last(s) = s[Len(s)]
                           /\ Head(s) \in ToSet(s) /\ Last(s) \in ToSet(s)
<1>1. DOMAIN s = 1 .. Len(s) /\ Len(s) \in Nat /\ \A i \in DOMAIN s : s[i] \in S
  OBVIOUS
<1>2. IsFiniteSet(DOMAIN s) /\ Cardinality(DOMAIN s) = Len(s)
  <2>1. 1 \in Int /\ Len(s) \in Int /\ (IF 1 > Len(s) THEN 0 ELSE Len(s) - 1 + 1) = Len(s)
    BY <1>1
  <2> QED
    BY <1>1, <2>1, FS_Interval
<1>3. \A x : x \in ToSet(s) <=> \E i \in DOMAIN s : s[i] = x
  BY DEF ToSet
<1>4. s \in Seq(ToSet(s))
  BY <1>1, <1>3
<1>5. (s = << >> <=> Len(s) = 0) /\ (Len(s) = 0 <=> ToSet(s) = {})
  <2>1. s = << >> <=> Len(s) = 0
    OBVIOUS
  <2>2. Len(s) # 0 => 1 \in DOMAIN s
    BY <1>1
  <2>3. Len(s) = 0 => DOMAIN s = {}
    BY <1>1
  <2> QED
    BY <1>3, <2>1, <2>2, <2>3
<1>6. s # << >> => /\ Head(s) = s[1] /\ Last(s) = s[Len(s)] /\ 1 \in DOMAIN s /\ Len(s) \in DOMAIN s
  BY <1>1, <1>5 DEF Last
<1> QED
  BY <1>1, <1>2, <1>3, <1>4, <1>5, <1>6

LEMMA OnlyIs ==
    ASSUME NEW S, NEW s \in Seq(S), NEW A
    PROVE  LET t == Only(s, A)
           IN /\ t \in Seq(S) /\ ToSet(t) = ToSet(s) \cap A
              /\ Len(t) <= Len(s) /\ (Len(t) = Len(s) => ToSet(s) \subseteq A)
              /\ \A own : Once(s, own) => Once(t, own)
<1> DEFINE I == {i \in DOMAIN s : s[i] \in A}
           R == {ij \in I \X I : ij[1] < ij[2]}
           f == Arrange(I, R)
           n == Cardinality(I)
           t == Only(s, A)
<1>1. /\ DOMAIN s = 1 .. Len(s) /\ Len(s) \in Nat /\ ToSet(s) \subseteq S
      /\ \A x : x \in ToSet(s) <=> \E i \in DOMAIN s : s[i] = x
      /\ IsFiniteSet(DOMAIN s) /\ Cardinality(DOMAIN s) = Len(s)
  BY SeqFacts
<1>2. I \in SUBSET DOMAIN s
  OBVIOUS
<1>3. IsFiniteSet(I) /\ n <= Len(s) /\ (Len(s) = n => I = DOMAIN s)
  <2> HIDE DEF I
  <2>1. IsFiniteSet(I) /\ n <= Cardinality(DOMAIN s) /\ (Cardinality(DOMAIN s) = n => I = DOMAIN s)
    BY <1>1, <1>2, FS_Subset
  <2> QED
    BY <1>1, <2>1
<1>4. StrictOrder(I, R)
  <2>1. I \subseteq Nat
    BY <1>1
  <2>2. \A i, j \in I : <<i, j>> \in R <=> i < j
    OBVIOUS
  <2> HIDE DEF I, R
  <2> QED
    BY <2>1, <2>2 DEF StrictOrder
<1>5. Arranged(f, I, R)
  BY <1>3, <1>4, ArrangeArranges
<1>s. t = SubSeq([k \in 1 .. n |-> s[f[k]]], 1, n)
  BY DEF Only
<1> HIDE DEF t, f, n, R
<1>7. n \in Nat /\ \A k \in 1 .. n : f[k] \in I
  BY <1>5 DEF Arranged, n
<1>6. t = [k \in 1 .. n |-> s[f[k]]]
  BY <1>s, <1>7
<1>8. t \in Seq(S) /\ Len(t) = n /\ DOMAIN t = 1 .. n
  BY <1>1, <1>6, <1>7
<1>9. ToSet(t) = ToSet(s) \cap A
  <2>1. ASSUME NEW x \in ToSet(t) PROVE x \in ToSet(s) \cap A
    <3>1. PICK k \in 1 .. n : x = s[f[k]]
      BY <1>6, <1>8 DEF ToSet
    <3> QED
      BY <1>1, <1>7, <3>1
  <2>2. ASSUME NEW x \in ToSet(s) \cap A PROVE x \in ToSet(t)
    <3>1. PICK i \in I : s[i] = x
      BY <1>1
    <3>2. PICK k \in 1 .. n : f[k] = i
      BY <1>5 DEF Arranged, n
    <3> QED
      BY <1>6, <1>8, <3>1, <3>2 DEF ToSet
  <2> QED
    BY <2>1, <2>2
<1>10. Places(f, t, s)
  BY <1>5, <1>6, <1>8 DEF Arranged, Places, n
<1>11. Len(t) = Len(s) => ToSet(s) \subseteq A
  BY <1>1, <1>3, <1>8
<1> QED
  BY <1>3, <1>8, <1>9, <1>10, <1>11, OnceKept DEF t

\* A sorted sequence has the same items, in the order of R on their places.
Sorted(s, R) == SubSeq([k \in 1 .. Len(s) |-> s[Arrange(DOMAIN s, R)[k]]], 1, Len(s))

\* The items of t come in the order R has on the places they had in s.
Follows(t, s, R) ==
    \A k, l \in DOMAIN t : k < l => \E i, j \in DOMAIN s :
        <<i, j>> \in R /\ t[k] = s[i] /\ t[l] = s[j]

LEMMA SortIs ==
    ASSUME NEW S, NEW s \in Seq(S), NEW R, StrictOrder(DOMAIN s, R),
           NEW t, t = Sorted(s, R)
    PROVE  /\ t \in Seq(S) /\ Len(t) = Len(s) /\ ToSet(t) = ToSet(s)
           /\ \A own : Once(s, own) => Once(t, own)
           /\ Follows(t, s, R)
<1> DEFINE f == Arrange(DOMAIN s, R)
<1>1. /\ DOMAIN s = 1 .. Len(s) /\ Len(s) \in Nat /\ ToSet(s) \subseteq S
      /\ \A x : x \in ToSet(s) <=> \E i \in DOMAIN s : s[i] = x
      /\ IsFiniteSet(DOMAIN s) /\ Cardinality(DOMAIN s) = Len(s)
  BY SeqFacts
<1>2. Arranged(f, DOMAIN s, R)
  BY <1>1, ArrangeArranges
<1> HIDE DEF f
<1>3. t = [k \in 1 .. Len(s) |-> s[f[k]]]
  <2>1. t = SubSeq([k \in 1 .. Len(s) |-> s[f[k]]], 1, Len(s))
    BY DEF f, Sorted
  <2> QED
    BY <1>1, <2>1
<1>4. f \in [1 .. Len(s) -> 1 .. Len(s)]
  BY <1>1, <1>2 DEF Arranged
<1>5. t \in Seq(S) /\ Len(t) = Len(s) /\ DOMAIN t = DOMAIN s
  BY <1>1, <1>3, <1>4
<1>6. Places(f, t, s)
  BY <1>1, <1>2, <1>3, <1>5 DEF Arranged, Places
<1>7. ToSet(t) = ToSet(s)
  <2>1. \A k \in DOMAIN t : f[k] \in DOMAIN s /\ t[k] = s[f[k]]
    BY <1>6 DEF Places
  <2>2. \A i \in DOMAIN s : \E k \in DOMAIN t : f[k] = i
    BY <1>1, <1>2, <1>5 DEF Arranged
  <2>3. \A i \in DOMAIN s : \E k \in DOMAIN t : t[k] = s[i]
    BY <2>1, <2>2
  <2>4. \A x : x \in ToSet(t) <=> x \in ToSet(s)
    BY <2>1, <2>3 DEF ToSet
  <2> QED
    BY <2>4
<1>8. ASSUME NEW k \in DOMAIN t, NEW l \in DOMAIN t, k < l
      PROVE  \E i, j \in DOMAIN s : <<i, j>> \in R /\ t[k] = s[i] /\ t[l] = s[j]
  <2>1. <<f[k], f[l]>> \in R
    BY <1>1, <1>2, <1>5, <1>8 DEF Arranged
  <2>2. f[k] \in DOMAIN s /\ f[l] \in DOMAIN s /\ t[k] = s[f[k]] /\ t[l] = s[f[l]]
    BY <1>6 DEF Places
  <2> QED
    BY <2>1, <2>2
<1>9. \A own : Once(s, own) => Once(t, own)
  BY <1>6, OnceKept
<1>10. Follows(t, s, R)
  BY <1>8 DEF Follows
<1> QED
  BY <1>5, <1>7, <1>9, <1>10

LEMMA ConcatIs ==
    ASSUME NEW S, NEW s \in Seq(S), NEW t \in Seq(S)
    PROVE  /\ s \o t \in Seq(S) /\ ToSet(s \o t) = ToSet(s) \cup ToSet(t)
           /\ \A own : Once(s, own) /\ Once(t, own) /\ ToSet(s) \cap ToSet(t) \subseteq own
                  => Once(s \o t, own)
<1> DEFINE u == s \o t
<1>1. /\ u \in Seq(S) /\ Len(u) = Len(s) + Len(t) /\ DOMAIN u = 1 .. Len(u)
      /\ \A i \in DOMAIN s : i \in DOMAIN u /\ u[i] = s[i]
      /\ \A i \in DOMAIN t : i + Len(s) \in DOMAIN u /\ u[i + Len(s)] = t[i]
      /\ DOMAIN s = 1 .. Len(s) /\ DOMAIN t = 1 .. Len(t) /\ Len(s) \in Nat /\ Len(t) \in Nat
  OBVIOUS
<1> HIDE DEF u
<1>2. \A i \in DOMAIN u : \/ i \in DOMAIN s /\ u[i] = s[i]
                          \/ i - Len(s) \in DOMAIN t /\ u[i] = t[i - Len(s)]
  <2> TAKE i \in DOMAIN u
  <2>1. CASE i <= Len(s)
    BY <1>1, <2>1
  <2>2. CASE ~(i <= Len(s))
    <3>1. i - Len(s) \in DOMAIN t /\ (i - Len(s)) + Len(s) = i
      BY <1>1, <2>2
    <3> QED
      BY <1>1, <3>1
  <2> QED
    BY <2>1, <2>2
<1>3. ToSet(u) = ToSet(s) \cup ToSet(t)
  <2>1. \A x : (\E i \in DOMAIN u : u[i] = x) <=>
                   (\E i \in DOMAIN s : s[i] = x) \/ (\E i \in DOMAIN t : t[i] = x)
    BY <1>1, <1>2
  <2> QED
    BY <2>1 DEF ToSet
<1>4. ASSUME NEW own, Once(s, own), Once(t, own), ToSet(s) \cap ToSet(t) \subseteq own,
             NEW i \in DOMAIN u, NEW j \in DOMAIN u, u[i] = u[j], i # j
      PROVE  u[i] \in own
  <2>1. CASE i \in DOMAIN s /\ u[i] = s[i] /\ j \in DOMAIN s /\ u[j] = s[j]
    BY <1>4, <2>1 DEF Once
  <2>2. CASE /\ i - Len(s) \in DOMAIN t /\ u[i] = t[i - Len(s)]
             /\ j - Len(s) \in DOMAIN t /\ u[j] = t[j - Len(s)]
    <3>1. i - Len(s) # j - Len(s)
      BY <1>1, <1>4
    <3> QED
      BY <1>4, <2>2, <3>1 DEF Once
  <2>3. ASSUME NEW x, x \in ToSet(s), x \in ToSet(t) PROVE x \in own
    BY <1>4, <2>3
  <2> QED
    BY <1>2, <1>4, <2>1, <2>2, <2>3 DEF ToSet
<1> QED
  BY <1>1, <1>3, <1>4 DEF Once, u

-----------------------------------------------------------------------------
\* Merged orders

LEMMA KeyOrder ==
    ASSUME NEW D \in SUBSET Nat, NEW key \in [D -> Nat], NEW R \in SUBSET (D \X D),
           \A i, j \in D : <<i, j>> \in R <=> \/ key[i] > key[j]
                                              \/ ~(key[j] > key[i]) /\ i < j
    PROVE  StrictOrder(D, R)
<1>1. \A i \in D : <<i, i>> \notin R
  OBVIOUS
<1>2. \A i, j \in D : i = j \/ <<i, j>> \in R \/ <<j, i>> \in R
  <2> TAKE i, j \in D
  <2>1. key[i] \in Nat /\ key[j] \in Nat /\ i \in Nat /\ j \in Nat
    OBVIOUS
  <2>2. \/ key[i] > key[j] \/ (~(key[j] > key[i]) /\ i < j)
        \/ key[j] > key[i] \/ (~(key[i] > key[j]) /\ j < i) \/ i = j
    BY <2>1
  <2> QED
    BY <2>2
<1>3. \A i, j, k \in D : <<i, j>> \in R /\ <<j, k>> \in R => <<i, k>> \in R
  <2> TAKE i, j, k \in D
  <2>1. key[i] \in Nat /\ key[j] \in Nat /\ key[k] \in Nat /\ i \in Nat /\ j \in Nat /\ k \in Nat
    OBVIOUS
  <2>2. /\ <<i, j>> \in R => key[i] >= key[j] /\ (key[i] > key[j] \/ i < j)
        /\ <<j, k>> \in R => key[j] >= key[k] /\ (key[j] > key[k] \/ j < k)
    BY <2>1
  <2>3. key[i] >= key[k] /\ (key[i] > key[k] \/ i < k) => <<i, k>> \in R
    BY <2>1
  <2> QED
    BY <2>1, <2>2, <2>3
<1> QED
  BY <1>1, <1>2, <1>3 DEF StrictOrder

LEMMA MergeOrderIs ==
    ASSUME NEW ids, NEW left \in Seq(ids), NEW right \in Seq(ids),
           NEW posts, \A id \in ids : posts[id].at \in Nat
    PROVE  LET m == MergeOrder(left, right, posts)
           IN /\ m \in Seq(ids) /\ ToSet(m) = ToSet(left) \cup ToSet(right)
              /\ \A own : Once(left, own) /\ Once(right, own) => Once(m, own)
<1> DEFINE more == Only(right, ToSet(right) \ ToSet(left))
           s == left \o more
           D == DOMAIN s
           R == {ij \in D \X D : \/ posts[s[ij[1]]].at > posts[s[ij[2]]].at
                                 \/ ~(posts[s[ij[2]]].at > posts[s[ij[1]]].at) /\ ij[1] < ij[2]}
           m == MergeOrder(left, right, posts)
<1>1. m = IF more = << >> THEN left ELSE Sorted(s, R)
  BY DEF MergeOrder, StableSort, Sorted
<1>2. /\ more \in Seq(ids) /\ ToSet(more) = ToSet(right) \ ToSet(left)
      /\ \A own : Once(right, own) => Once(more, own)
  BY OnlyIs
<1> HIDE DEF more
<1>3. /\ s \in Seq(ids) /\ ToSet(s) = ToSet(left) \cup ToSet(right)
      /\ \A own : Once(left, own) /\ Once(right, own) => Once(s, own)
  BY <1>2, ConcatIs
<1> HIDE DEF s
<1>4. D \in SUBSET Nat /\ \A i \in D : s[i] \in ids
  BY <1>3
<1>5. StrictOrder(D, R)
  <2> DEFINE key == [i \in D |-> posts[s[i]].at]
  <2>1. key \in [D -> Nat]
    BY <1>4
  <2>2. R \in SUBSET (D \X D)
    OBVIOUS
  <2>3. \A i, j \in D : <<i, j>> \in R <=> \/ key[i] > key[j]
                                           \/ ~(key[j] > key[i]) /\ i < j
    OBVIOUS
  <2> HIDE DEF D, R, key
  <2> QED
    BY <1>4, <2>1, <2>2, <2>3, KeyOrder
<1> HIDE DEF R
<1>6. CASE more = << >>
  <2>1. ToSet(more) = {}
    BY <1>6 DEF ToSet
  <2>2. ToSet(right) \subseteq ToSet(left)
    BY <1>2, <2>1
  <2> QED
    BY <1>1, <1>6, <2>2
<1>7. CASE more # << >>
  <2>1. m = Sorted(s, R)
    BY <1>1, <1>7
  <2> HIDE DEF m
  <2>2. m \in Seq(ids) /\ ToSet(m) = ToSet(s) /\ \A own : Once(s, own) => Once(m, own)
    BY <1>3, <1>5, <2>1, SortIs
  <2> QED
    BY <1>3, <2>2 DEF m
<1> QED
  BY <1>6, <1>7

-----------------------------------------------------------------------------
\* Sound blocks.  A view says when each id was created, which posts are live, which of
\* these are accounted for, which ids may come twice, and which a block may have.

IsView(v) == v.at \in [v.ids -> Nat] /\ v.has \subseteq v.ids /\ v.live \subseteq v.ids

Agrees(posts, v) ==
    \A id \in v.has : posts[id].at \in Nat /\ (Stored(posts, id) => posts[id].at = v.at[id])

BlockType(ids) == [order : Seq(ids), recent : BOOLEAN, oldest : BOOLEAN]

\* The post is in the stretch of the channel the block stands for.
Spans(block, v, p) ==
    /\ block.oldest \/ \E id \in ToSet(block.order) : v.at[id] <= v.at[p]
    /\ block.recent \/ \E id \in ToSet(block.order) : v.at[p] <= v.at[id]

Sound(block, v) ==
    /\ block \in BlockType(v.has) /\ Once(block.order, v.own)
    /\ \A p \in v.live : Spans(block, v, p) => p \in v.sure

AllSound(blocks, v) == blocks \in Seq(BlockType(v.has)) /\ \A b \in ToSet(blocks) : Sound(b, v)
EmptyIsRecent(blocks) == \A b \in ToSet(blocks) : b.order = << >> => b.recent
Shows(blocks) == UNION {ToSet(b.order) : b \in ToSet(blocks)}

\* A list of blocks shows what another one does, and some ids more.
ShowsMore(t, s, ids) == Shows(t) = Shows(s) \cup ids
Unites(c, a, b) == ToSet(c.order) = ToSet(a.order) \cup ToSet(b.order)

LEMMA BlockIs ==
    ASSUME NEW ids, NEW order \in Seq(ids), NEW recent \in BOOLEAN, NEW oldest \in BOOLEAN
    PROVE  LET b == Block(order, recent, oldest)
           IN b \in BlockType(ids) /\ b.order = order /\ b.recent = recent /\ b.oldest = oldest
BY DEF Block, BlockType

\* Two blocks that overlap make one.
LEMMA TwoAreSound ==
    ASSUME NEW v, IsView(v), NEW a, Sound(a, v), NEW b, Sound(b, v),
           NEW x \in ToSet(a.order), NEW y \in ToSet(b.order), v.at[x] <= v.at[y],
           NEW z \in ToSet(a.order), v.at[y] <= v.at[z],
           NEW c \in BlockType(v.has), ToSet(c.order) = ToSet(a.order) \cup ToSet(b.order),
           Once(c.order, v.own),
           c.recent = (a.recent \/ b.recent), c.oldest = (a.oldest \/ b.oldest)
    PROVE  Sound(c, v)
<1>1. /\ a.recent \in BOOLEAN /\ a.oldest \in BOOLEAN /\ b.recent \in BOOLEAN /\ b.oldest \in BOOLEAN
      /\ a.order \in Seq(v.has) /\ b.order \in Seq(v.has)
  BY DEF Sound, BlockType
<1>2. ToSet(a.order) \subseteq v.ids /\ ToSet(b.order) \subseteq v.ids
  BY <1>1, SeqFacts DEF IsView
<1>3. \A id \in v.ids : v.at[id] \in Nat
  BY DEF IsView
<1>4. ASSUME NEW p \in v.live, Spans(c, v, p) PROVE Spans(a, v, p) \/ Spans(b, v, p)
  <2>1. p \in v.ids
    BY DEF IsView
  <2>2. CASE v.at[p] <= v.at[y]
    <3>1. a.recent \/ \E id \in ToSet(a.order) : v.at[p] <= v.at[id]
      BY <1>2, <1>3, <2>1, <2>2
    <3>2. b.recent \/ \E id \in ToSet(b.order) : v.at[p] <= v.at[id]
      BY <2>2
    <3> QED
      BY <1>1, <1>4, <3>1, <3>2 DEF Spans
  <2>3. CASE v.at[y] <= v.at[p]
    <3>1. a.oldest \/ \E id \in ToSet(a.order) : v.at[id] <= v.at[p]
      BY <1>2, <1>3, <2>1, <2>3
    <3>2. b.oldest \/ \E id \in ToSet(b.order) : v.at[id] <= v.at[p]
      BY <2>3
    <3> QED
      BY <1>1, <1>4, <3>1, <3>2 DEF Spans
  <2> QED
    BY <1>2, <1>3, <2>1, <2>2, <2>3
<1> QED
  BY <1>4 DEF Sound

LEMMA JoinIsSound ==
    ASSUME NEW v, IsView(v), NEW posts, Agrees(posts, v), NEW a, Sound(a, v), NEW b, Sound(b, v),
           a.order # << >>, b.order # << >>,
           Stored(posts, Last(a.order)), Stored(posts, Head(b.order)),
           NEW z \in ToSet(a.order), v.at[Head(b.order)] <= v.at[z],
           ~(Oldest(posts, a) > Newest(posts, b))
    PROVE  LET c == Block(MergeOrder(a.order, b.order, posts),
                          a.recent \/ b.recent, a.oldest \/ b.oldest)
           IN Sound(c, v) /\ Unites(c, a, b)
<1> DEFINE m == MergeOrder(a.order, b.order, posts)
           c == Block(m, a.recent \/ b.recent, a.oldest \/ b.oldest)
<1>1. /\ a.recent \in BOOLEAN /\ a.oldest \in BOOLEAN /\ b.recent \in BOOLEAN /\ b.oldest \in BOOLEAN
      /\ a.order \in Seq(v.has) /\ b.order \in Seq(v.has)
      /\ Once(a.order, v.own) /\ Once(b.order, v.own)
  BY DEF Sound, BlockType
<1>2. \A id \in v.has : posts[id].at \in Nat
  BY DEF Agrees
<1>3. m \in Seq(v.has) /\ ToSet(m) = ToSet(a.order) \cup ToSet(b.order) /\ Once(m, v.own)
  BY <1>1, <1>2, MergeOrderIs
<1> HIDE DEF m
<1>4. /\ c \in BlockType(v.has) /\ c.order = m
      /\ c.recent = (a.recent \/ b.recent) /\ c.oldest = (a.oldest \/ b.oldest)
  BY <1>1, <1>3 DEF Block, BlockType
<1> HIDE DEF c
<1>5. /\ Last(a.order) \in ToSet(a.order) /\ Head(b.order) \in ToSet(b.order)
      /\ ToSet(a.order) \subseteq v.has /\ ToSet(b.order) \subseteq v.has
  BY <1>1, SeqFacts
<1>6. v.at[Last(a.order)] <= v.at[Head(b.order)]
  <2>1. Oldest(posts, a) = v.at[Last(a.order)] /\ Newest(posts, b) = v.at[Head(b.order)]
    BY <1>5 DEF Agrees, Oldest, Newest
  <2>2. Oldest(posts, a) \in Nat /\ Newest(posts, b) \in Nat
    BY <1>2, <1>5 DEF Oldest, Newest
  <2> QED
    BY <2>1, <2>2
<1>7. Sound(c, v)
  BY <1>3, <1>4, <1>5, <1>6, TwoAreSound
<1> QED
  BY <1>3, <1>4, <1>7 DEF c, m, Unites

-----------------------------------------------------------------------------
\* mergePostBlocks

LEMMA JoinedIs ==
    ASSUME NEW sorted, NEW posts, Len(sorted) \in Nat
    PROVE  Joined(sorted, posts) = [k \in 0 .. Len(sorted) |->
               IF k = 0 THEN Ok(<< >>) ELSE Join(Joined(sorted, posts)[k - 1], sorted[k], posts)]
<1> DEFINE n == Len(sorted)
           Step(g, k) == IF k = 0 THEN Ok(<< >>) ELSE Join(g[k - 1], sorted[k], posts)
           K == {k \in 0 .. n : \E g : g = [j \in 0 .. k |-> Step(g, j)]}
<1>1. 0 \in K
  <2> DEFINE g == [j \in 0 .. 0 |-> Ok(<< >>)]
  <2>1. g = [j \in 0 .. 0 |-> Step(g, j)]
    OBVIOUS
  <2>2. \E e : e = [j \in 0 .. 0 |-> Step(e, j)]
    BY <2>1
  <2>3. 0 \in 0 .. n
    OBVIOUS
  <2> HIDE DEF Step
  <2> QED
    BY <2>2, <2>3
<1>2. ASSUME NEW k \in 0 .. n, k \in K, k < n PROVE k + 1 \in K
  <2>1. PICK g : g = [j \in 0 .. k |-> Step(g, j)]
    BY <1>2
  <2> DEFINE next == Join(g[k], sorted[k + 1], posts)
             h == [j \in 0 .. k + 1 |-> IF j = k + 1 THEN next ELSE g[j]]
  <2>2. ASSUME NEW j \in 0 .. k + 1 PROVE h[j] = Step(h, j)
    <3>1. CASE j = k + 1
      <4>1. h[j] = next /\ h[j - 1] = g[k] /\ j # 0
        BY <3>1
      <4> QED
        BY <3>1, <4>1
    <3>2. CASE j # k + 1
      <4>1. j \in 0 .. k /\ h[j] = g[j]
        BY <3>2
      <4>2. j # 0 => h[j - 1] = g[j - 1]
        BY <4>1
      <4>3. g[j] = Step(g, j)
        BY <2>1, <4>1
      <4> HIDE DEF h
      <4> QED
        BY <4>1, <4>2, <4>3
    <3> QED
      BY <3>1, <3>2
  <2> DEFINE f == [j \in 0 .. k + 1 |-> Step(h, j)]
  <2>3. h = f
    <3>1. DOMAIN h = 0 .. k + 1 /\ DOMAIN f = 0 .. k + 1
      OBVIOUS
    <3>2. \A j \in 0 .. k + 1 : h[j] = f[j]
      BY <2>2
    <3>3. h = [j \in 0 .. k + 1 |-> h[j]] /\ f = [j \in 0 .. k + 1 |-> f[j]]
      OBVIOUS
    <3> HIDE DEF h, f
    <3> QED
      BY <3>1, <3>2, <3>3
  <2>4. k + 1 \in 0 .. n
    BY <1>2
  <2>5. \E e : e = [j \in 0 .. k + 1 |-> Step(e, j)]
    BY <2>3
  <2> HIDE DEF Step
  <2> QED
    BY <2>4, <2>5
<1>3. n \in K
  <2>1. n \in Nat /\ n \in 0 .. n
    OBVIOUS
  <2> HIDE DEF K, n
  <2>2. \A k \in 0 .. n : k \in K
    BY <1>1, <1>2, <2>1, UpTo
  <2> QED
    BY <2>1, <2>2
<1>4. PICK g : g = [j \in 0 .. n |-> Step(g, j)]
  BY <1>3
<1> QED
  BY <1>4, Zenon DEF Joined

LEMMA AppendIs ==
    ASSUME NEW S, NEW s \in Seq(S), NEW e \in S
    PROVE  /\ Append(s, e) \in Seq(S) /\ Len(Append(s, e)) = Len(s) + 1
           /\ ToSet(Append(s, e)) = ToSet(s) \cup {e}
           /\ Append(s, e) # << >> /\ Last(Append(s, e)) = e
           /\ \A i \in DOMAIN s : Append(s, e)[i] = s[i]
<1> DEFINE t == Append(s, e)
<1>1. /\ t \in Seq(S) /\ Len(t) = Len(s) + 1 /\ DOMAIN t = DOMAIN s \cup {Len(s) + 1}
      /\ t[Len(s) + 1] = e /\ \A i \in DOMAIN s : t[i] = s[i]
  OBVIOUS
<1> HIDE DEF t
<1>2. \A x : x \in ToSet(t) <=> (x = e \/ x \in ToSet(s))
  BY <1>1 DEF ToSet
<1>3. t # << >> /\ Last(t) = e
  BY <1>1 DEF Last
<1> QED
  BY <1>1, <1>2, <1>3 DEF t

LEMMA FrontIs ==
    ASSUME NEW S, NEW s \in Seq(S), s # << >>
    PROVE  /\ Front(s) \in Seq(S) /\ Len(Front(s)) = Len(s) - 1 /\ Last(s) \in S
           /\ ToSet(s) = ToSet(Front(s)) \cup {Last(s)}
<1> DEFINE t == SubSeq(s, 1, Len(s) - 1)
<1>1. Len(s) \in Nat \ {0} /\ DOMAIN s = 1 .. Len(s) /\ \A i \in DOMAIN s : s[i] \in S
  OBVIOUS
<1>2. t \in Seq(S) /\ Len(t) = Len(s) - 1 /\ \A i \in 1 .. Len(s) - 1 : t[i] = s[i]
  BY <1>1
<1>3. DOMAIN t = 1 .. Len(s) - 1
  BY <1>2
<1> HIDE DEF t
<1>4. Last(s) = s[Len(s)] /\ Len(s) \in DOMAIN s /\ \A i \in DOMAIN s : i = Len(s) \/ i \in DOMAIN t
  BY <1>1, <1>3 DEF Last
<1>5. \A x : x \in ToSet(s) <=> (x = Last(s) \/ x \in ToSet(t))
  BY <1>1, <1>2, <1>3, <1>4 DEF ToSet
<1>6. Front(s) = t
  BY DEF Front, t
<1> QED
  BY <1>1, <1>2, <1>4, <1>5, <1>6

LEMMA ShowsOneMore ==
    ASSUME NEW s, NEW t, NEW b, ToSet(t) = ToSet(s) \cup {b}
    PROVE  ShowsMore(t, s, ToSet(b.order))
<1>1. \A x : x \in Shows(t) <=> \E c \in ToSet(s) \cup {b} : x \in ToSet(c.order)
  BY DEF Shows
<1>2. \A x : x \in Shows(s) <=> \E c \in ToSet(s) : x \in ToSet(c.order)
  BY DEF Shows
<1> QED
  BY <1>1, <1>2 DEF ShowsMore

LEMMA AppendSound ==
    ASSUME NEW v, NEW s, AllSound(s, v), EmptyIsRecent(s), NEW b, Sound(b, v),
           b.order = << >> => b.recent, NEW t, t = Append(s, b)
    PROVE  /\ AllSound(t, v) /\ EmptyIsRecent(t) /\ t # << >> /\ Last(t) = b
           /\ ShowsMore(t, s, ToSet(b.order)) /\ Len(t) = Len(s) + 1
<1>1. b \in BlockType(v.has)
  BY DEF Sound
<1>2. s \in Seq(BlockType(v.has)) /\ \A x \in ToSet(s) : Sound(x, v)
  BY DEF AllSound
<1>3. /\ t \in Seq(BlockType(v.has)) /\ t # << >> /\ Last(t) = b /\ Len(t) = Len(s) + 1
      /\ ToSet(t) = ToSet(s) \cup {b}
  BY <1>1, <1>2, AppendIs
<1>4. \A x \in ToSet(t) : Sound(x, v)
  BY <1>2, <1>3
<1>5. \A x \in ToSet(t) : x.order = << >> => x.recent
  BY <1>3 DEF EmptyIsRecent
<1>6. ShowsMore(t, s, ToSet(b.order))
  BY <1>3, ShowsOneMore
<1> QED
  BY <1>3, <1>4, <1>5, <1>6 DEF AllSound, EmptyIsRecent

LEMMA FrontSound ==
    ASSUME NEW v, NEW s, AllSound(s, v), EmptyIsRecent(s), s # << >>
    PROVE  /\ AllSound(Front(s), v) /\ EmptyIsRecent(Front(s)) /\ Sound(Last(s), v)
           /\ (Last(s).order = << >> => Last(s).recent)
           /\ ShowsMore(s, Front(s), ToSet(Last(s).order)) /\ Len(Front(s)) + 1 = Len(s)
<1>0. PICK a, f : a = Last(s) /\ f = Front(s)
  OBVIOUS
<1>1. s \in Seq(BlockType(v.has)) /\ \A x \in ToSet(s) : Sound(x, v)
  BY DEF AllSound
<1>2. f \in Seq(BlockType(v.has)) /\ Len(f) = Len(s) - 1 /\ ToSet(s) = ToSet(f) \cup {a}
  BY <1>0, <1>1, FrontIs
<1>3. Sound(a, v) /\ \A x \in ToSet(f) : Sound(x, v)
  BY <1>1, <1>2
<1>4. \A x \in ToSet(f) \cup {a} : x.order = << >> => x.recent
  BY <1>2 DEF EmptyIsRecent
<1>5. ShowsMore(s, f, ToSet(a.order))
  BY <1>2, ShowsOneMore
<1>6. Len(f) + 1 = Len(s)
  BY <1>1, <1>2
<1>7. AllSound(f, v) /\ EmptyIsRecent(f)
  BY <1>2, <1>3, <1>4 DEF AllSound, EmptyIsRecent
<1> QED
  BY <1>0, <1>2, <1>3, <1>4, <1>5, <1>6, <1>7

\* One more block is joined.  The block before it has a post as new as the newest of
\* the block.
Reaches(v, posts, a, b) ==
    a.order # << >> /\ b.order # << >> /\ Stored(posts, Head(a.order)) /\ Stored(posts, Head(b.order))
        => \E z \in ToSet(a.order) : v.at[Head(b.order)] <= v.at[z]

LEMMA JoinStep ==
    ASSUME NEW v, IsView(v), NEW posts, Agrees(posts, v),
           NEW done, done.ok => AllSound(done.blocks, v) /\ EmptyIsRecent(done.blocks),
           ~done.ok => done.blocks # << >>,
           NEW b, Sound(b, v), b.order = << >> => b.recent,
           done.ok /\ done.blocks # << >> => Reaches(v, posts, Last(done.blocks), b),
           NEW r, r = Join(done, b, posts)
    PROVE  /\ r.ok \in BOOLEAN /\ r.blocks # << >>
           /\ r.ok => /\ done.ok
                      /\ AllSound(r.blocks, v) /\ EmptyIsRecent(r.blocks)
                      /\ ShowsMore(r.blocks, done.blocks, ToSet(b.order))
                      /\ Len(r.blocks) <= Len(done.blocks) + 1
                      /\ \/ Last(r.blocks) = b
                         \/ /\ b.order # << >> /\ Stored(posts, Head(b.order))
                            /\ \E z \in ToSet(Last(r.blocks).order) : v.at[Head(b.order)] <= v.at[z]
<1>0. \A x : Ok(x).ok = TRUE /\ Ok(x).blocks = x /\ Throws(x).ok = FALSE /\ Throws(x).blocks = x
  BY DEF Ok, Throws
<1>00. <<b>> # << >>
  OBVIOUS
<1>1. CASE done.blocks = << >>
  <2>1. r = Ok(<<b>>) /\ done.ok
    BY <1>1 DEF Join
  <2>2. <<b>> = Append(done.blocks, b)
    BY <1>1
  <2> DEFINE t == <<b>>
  <2>3. /\ AllSound(t, v) /\ EmptyIsRecent(t) /\ t # << >> /\ Last(t) = b
        /\ ShowsMore(t, done.blocks, ToSet(b.order)) /\ Len(t) = Len(done.blocks) + 1
    BY <2>1, <2>2, AppendSound
  <2>4. r.ok = TRUE /\ r.blocks = t
    BY <1>0, <2>1
  <2>5. Len(t) <= Len(done.blocks) + 1
    BY <1>1, <2>3
  <2> HIDE DEF t
  <2> QED
    BY <2>1, <2>3, <2>4, <2>5
<1>2. CASE done.blocks # << >> /\ r = Throws(<<b>>)
  BY <1>0, <1>00, <1>2
<1>3. CASE done.blocks # << >> /\ done.ok /\ r = Ok(Append(done.blocks, b))
  <2>1. PICK t : t = Append(done.blocks, b)
    OBVIOUS
  <2>2. /\ AllSound(t, v) /\ EmptyIsRecent(t) /\ t # << >> /\ Last(t) = b
        /\ ShowsMore(t, done.blocks, ToSet(b.order)) /\ Len(t) = Len(done.blocks) + 1
    <3>1. PICK s : s = done.blocks
      OBVIOUS
    <3>2. AllSound(s, v) /\ EmptyIsRecent(s) /\ t = Append(s, b)
      BY <1>3, <2>1, <3>1
    <3>3. /\ AllSound(t, v) /\ EmptyIsRecent(t) /\ t # << >> /\ Last(t) = b
          /\ ShowsMore(t, s, ToSet(b.order)) /\ Len(t) = Len(s) + 1
      BY <3>2, AppendSound
    <3> QED
      BY <3>1, <3>3
  <2>3. r.ok = TRUE /\ r.blocks = t
    BY <1>0, <1>3, <2>1
  <2>4. Len(t) <= Len(done.blocks) + 1
    <3>1. Len(done.blocks) \in Nat
      BY <1>3 DEF AllSound
    <3> QED
      BY <2>2, <3>1
  <2> QED
    BY <1>3, <2>2, <2>3, <2>4
<1>4. ASSUME NEW a, a = Last(done.blocks), done.blocks # << >>, done.ok,
             a.order # << >>, b.order # << >>,
             Stored(posts, Last(a.order)), Stored(posts, Head(a.order)), Stored(posts, Head(b.order)),
             ~(Oldest(posts, a) > Newest(posts, b)),
             NEW c, c = Block(MergeOrder(a.order, b.order, posts),
                              a.recent \/ b.recent, a.oldest \/ b.oldest),
             r = Ok(Append(Front(done.blocks), c))
      PROVE  /\ r.ok = TRUE /\ r.blocks # << >>
             /\ AllSound(r.blocks, v) /\ EmptyIsRecent(r.blocks)
             /\ ShowsMore(r.blocks, done.blocks, ToSet(b.order))
             /\ Len(r.blocks) <= Len(done.blocks) + 1
             /\ \E z \in ToSet(Last(r.blocks).order) : v.at[Head(b.order)] <= v.at[z]
  <2>1. PICK f : f = Front(done.blocks)
    OBVIOUS
  <2>2. /\ AllSound(f, v) /\ EmptyIsRecent(f) /\ Sound(a, v) /\ Len(f) + 1 = Len(done.blocks)
        /\ Len(done.blocks) \in Nat /\ ShowsMore(done.blocks, f, ToSet(a.order))
    <3>1. PICK s : s = done.blocks
      OBVIOUS
    <3>2. AllSound(s, v) /\ EmptyIsRecent(s) /\ s # << >> /\ a = Last(s) /\ f = Front(s)
      BY <1>4, <2>1, <3>1
    <3>3. /\ AllSound(f, v) /\ EmptyIsRecent(f) /\ Sound(a, v) /\ Len(f) + 1 = Len(s)
          /\ ShowsMore(s, f, ToSet(a.order))
      BY <3>2, FrontSound, Zenon
    <3>4. Len(s) \in Nat
      BY <3>2 DEF AllSound
    <3> QED
      BY <3>1, <3>3, <3>4
  <2>3. PICK z \in ToSet(a.order) : v.at[Head(b.order)] <= v.at[z]
    BY <1>4 DEF Reaches
  <2>4. Sound(c, v) /\ Unites(c, a, b)
    BY <1>4, <2>2, <2>3, JoinIsSound
  <2>5. c.order # << >>
    <3>1. c.order \in Seq(v.has)
      BY <2>4 DEF Sound, BlockType
    <3>2. z \in ToSet(c.order)
      BY <2>4 DEF Unites
    <3> QED
      BY <3>1, <3>2 DEF ToSet
  <2>6. PICK t : t = Append(f, c)
    OBVIOUS
  <2>7. /\ AllSound(t, v) /\ EmptyIsRecent(t) /\ t # << >> /\ Last(t) = c
        /\ ShowsMore(t, f, ToSet(c.order)) /\ Len(t) = Len(f) + 1
    BY <2>2, <2>4, <2>5, <2>6, AppendSound
  <2>8. r.ok = TRUE /\ r.blocks = t
    BY <1>0, <1>4, <2>1, <2>6
  <2>9. Len(t) <= Len(done.blocks) + 1
    BY <2>2, <2>7
  <2>10. ShowsMore(t, done.blocks, ToSet(b.order))
    BY <2>2, <2>4, <2>7 DEF ShowsMore, Unites
  <2>11. \E y \in ToSet(Last(t).order) : v.at[Head(b.order)] <= v.at[y]
    BY <2>3, <2>4, <2>7 DEF Unites
  <2> QED
    BY <2>7, <2>8, <2>9, <2>10, <2>11
<1> DEFINE a == Last(done.blocks)
           c == Block(MergeOrder(a.order, b.order, posts), a.recent \/ b.recent, a.oldest \/ b.oldest)
<1>5. \/ done.blocks = << >>
      \/ done.blocks # << >> /\ r = Throws(<<b>>)
      \/ done.blocks # << >> /\ done.ok /\ r = Ok(Append(done.blocks, b))
      \/ /\ done.blocks # << >> /\ done.ok /\ a.order # << >> /\ b.order # << >>
         /\ Stored(posts, Last(a.order)) /\ Stored(posts, Head(a.order)) /\ Stored(posts, Head(b.order))
         /\ ~(Oldest(posts, a) > Newest(posts, b))
         /\ r = Ok(Append(Front(done.blocks), c))
  BY DEF Join
<1>6. CASE /\ done.blocks # << >> /\ done.ok /\ a.order # << >> /\ b.order # << >>
           /\ Stored(posts, Last(a.order)) /\ Stored(posts, Head(a.order)) /\ Stored(posts, Head(b.order))
           /\ ~(Oldest(posts, a) > Newest(posts, b))
           /\ r = Ok(Append(Front(done.blocks), c))
  <2>1. /\ r.ok = TRUE /\ r.blocks # << >>
        /\ AllSound(r.blocks, v) /\ EmptyIsRecent(r.blocks)
        /\ ShowsMore(r.blocks, done.blocks, ToSet(b.order))
        /\ Len(r.blocks) <= Len(done.blocks) + 1
        /\ \E z \in ToSet(Last(r.blocks).order) : v.at[Head(b.order)] <= v.at[z]
    BY <1>4, <1>6
  <2> QED
    BY <1>6, <2>1
<1> QED
  BY <1>1, <1>2, <1>3, <1>5, <1>6


FirstAt(posts, b) == IF b.order = << >> THEN 0 ELSE Newest(posts, b)

\* A descending list of blocks, joined one after the other
LEMMA JoinedSound ==
    ASSUME NEW v, IsView(v), NEW posts, Agrees(posts, v),
           NEW sorted, AllSound(sorted, v), EmptyIsRecent(sorted),
           \A i, j \in DOMAIN sorted : i < j => FirstAt(posts, sorted[i]) >= FirstAt(posts, sorted[j]),
           NEW r, r = Joined(sorted, posts)[Len(sorted)]
    PROVE  /\ r.ok \in BOOLEAN
           /\ r.ok => /\ AllSound(r.blocks, v) /\ EmptyIsRecent(r.blocks)
                      /\ ShowsMore(r.blocks, sorted, {}) /\ Len(r.blocks) <= Len(sorted)
<1> DEFINE n == Len(sorted)
           joined == Joined(sorted, posts)
           B(k) == sorted[k]
           Reached(d, k) ==
               \/ Last(d.blocks) = B(k)
               \/ /\ B(k).order # << >> /\ Stored(posts, Head(B(k).order))
                  /\ \E z \in ToSet(Last(d.blocks).order) : v.at[Head(B(k).order)] <= v.at[z]
           FirstK(k) == UNION {ToSet(B(i).order) : i \in 1 .. k}
           P(d, k) ==
               /\ d.ok \in BOOLEAN
               /\ ~d.ok => d.blocks # << >>
               /\ d.ok => /\ AllSound(d.blocks, v) /\ EmptyIsRecent(d.blocks)
                          /\ Shows(d.blocks) = FirstK(k) /\ Len(d.blocks) <= k
               /\ d.ok /\ k # 0 => Reached(d, k)
               /\ k = 0 => d.blocks = << >>
           K == {k \in 0 .. n : P(joined[k], k)}
<1>1. /\ n \in Nat /\ DOMAIN sorted = 1 .. n /\ sorted \in Seq(BlockType(v.has))
      /\ \A k \in 1 .. n : Sound(B(k), v) /\ (B(k).order = << >> => B(k).recent)
  <2>1. sorted \in Seq(BlockType(v.has)) /\ \A b \in ToSet(sorted) : Sound(b, v)
    BY DEF AllSound
  <2>2. /\ n \in Nat /\ DOMAIN sorted = 1 .. n
        /\ \A x : x \in ToSet(sorted) <=> \E i \in DOMAIN sorted : sorted[i] = x
    BY <2>1, SeqFacts
  <2>3. \A k \in 1 .. n : B(k) \in ToSet(sorted)
    BY <2>2
  <2> QED
    BY <2>1, <2>2, <2>3 DEF EmptyIsRecent
<1>2. joined = [k \in 0 .. n |-> IF k = 0 THEN Ok(<< >>) ELSE Join(joined[k - 1], sorted[k], posts)]
  BY <1>1, JoinedIs
<1>3. \A id \in v.has : posts[id].at \in Nat /\ id \in v.ids
  BY DEF Agrees, IsView
<1>4. 0 \in K
  <2>1. joined[0] = Ok(<< >>)
    BY <1>1, <1>2
  <2> HIDE DEF joined
  <2>2. joined[0].ok = TRUE /\ joined[0].blocks = << >>
    BY <2>1 DEF Ok
  <2>3. AllSound(<< >>, v) /\ EmptyIsRecent(<< >>) /\ Shows(<< >>) = {}
    BY DEF AllSound, EmptyIsRecent, Shows, ToSet
  <2>4. FirstK(0) = {} /\ Len(<< >>) = 0
    OBVIOUS
  <2> HIDE DEF FirstK, Reached, B
  <2>5. PICK d : d = joined[0]
    OBVIOUS
  <2>6. d.ok = TRUE /\ d.blocks = << >>
    BY <2>2, <2>5
  <2>7. /\ AllSound(d.blocks, v) /\ EmptyIsRecent(d.blocks)
        /\ Shows(d.blocks) = FirstK(0) /\ Len(d.blocks) <= 0
    BY <2>3, <2>4, <2>6
  <2>8. P(d, 0)
    BY <2>6, <2>7
  <2> HIDE DEF P
  <2> QED
    BY <1>1, <2>5, <2>8
<1>5. ASSUME NEW k \in 0 .. n, k \in K, k < n PROVE k + 1 \in K
  <2>1. PICK d : d = joined[k]
    OBVIOUS
  <2>2. PICK b : b = B(k + 1)
    OBVIOUS
  <2>3. PICK e : e = joined[k + 1]
    OBVIOUS
  <2>4. k \in Nat /\ k + 1 \in 1 .. n /\ k + 1 # 0 /\ (k + 1) - 1 = k
    BY <1>1, <1>5
  <2>5. e = Join(d, b, posts)
    BY <1>2, <2>1, <2>2, <2>3, <2>4
  <2>6. P(d, k)
    BY <1>5, <2>1
  <2> HIDE DEF joined, K
  <2>7. Sound(b, v) /\ (b.order = << >> => b.recent)
    BY <1>1, <2>2, <2>4
  <2>8. d.ok /\ d.blocks # << >> => Reaches(v, posts, Last(d.blocks), b)
    <3> SUFFICES ASSUME d.ok, d.blocks # << >>, NEW a, a = Last(d.blocks),
                        a.order # << >>, b.order # << >>, Stored(posts, Head(a.order)),
                        Stored(posts, Head(b.order))
                 PROVE  \E z \in ToSet(a.order) : v.at[Head(b.order)] <= v.at[z]
      BY DEF Reaches
    <3>1. k # 0 /\ k \in 1 .. n
      BY <1>1, <2>4, <2>6
    <3>2. PICK c : c = B(k)
      OBVIOUS
    <3>3. Reached(d, k)
      BY <2>6, <3>1
    <3>4. FirstAt(posts, c) >= FirstAt(posts, b)
      <4>1. k < k + 1
        BY <2>4
      <4> QED
        BY <1>1, <2>2, <2>4, <3>1, <3>2, <4>1
    <3>5. PICK z \in ToSet(a.order) :
              c.order # << >> /\ Stored(posts, Head(c.order)) /\ v.at[Head(c.order)] <= v.at[z]
      <4>1. CASE a = c
        <5>1. a.order \in Seq(v.has)
          BY <1>1, <3>1, <3>2, <4>1 DEF Sound, BlockType
        <5>2. Head(a.order) \in ToSet(a.order) /\ Head(a.order) \in v.has
          BY <5>1, SeqFacts
        <5>3. v.at[Head(a.order)] \in Nat
          BY <1>3, <5>2 DEF IsView
        <5>4. v.at[Head(a.order)] <= v.at[Head(a.order)]
          BY <5>3
        <5> QED
          BY <4>1, <5>2, <5>4
      <4>2. CASE a # c
        BY <3>2, <3>3, <4>2
      <4> QED
        BY <4>1, <4>2
    <3>6. Head(c.order) \in v.has /\ Head(b.order) \in v.has
      <4>1. c.order \in Seq(v.has) /\ b.order \in Seq(v.has)
        BY <1>1, <2>7, <3>1, <3>2 DEF Sound, BlockType
      <4> QED
        BY <3>5, <4>1, SeqFacts
    <3>7. v.at[Head(c.order)] >= v.at[Head(b.order)]
      <4>1. FirstAt(posts, c) = v.at[Head(c.order)]
        BY <3>5, <3>6 DEF FirstAt, Newest, Agrees
      <4>2. FirstAt(posts, b) = v.at[Head(b.order)]
        BY <3>6 DEF FirstAt, Newest, Agrees
      <4> QED
        BY <3>4, <4>1, <4>2
    <3>8. z \in v.ids
      <4>1. Last(d.blocks) \in ToSet(d.blocks) /\ Sound(a, v)
        BY <2>6, SeqFacts DEF AllSound
      <4>2. a.order \in Seq(v.has)
        BY <4>1 DEF Sound, BlockType
      <4> QED
        BY <1>3, <4>2, SeqFacts
    <3>9. v.at[z] \in Nat /\ v.at[Head(c.order)] \in Nat /\ v.at[Head(b.order)] \in Nat
      BY <1>3, <3>6, <3>8 DEF IsView
    <3> QED
      BY <3>5, <3>7, <3>9
  <2>9. /\ e.ok \in BOOLEAN /\ e.blocks # << >>
        /\ e.ok => /\ d.ok
                   /\ AllSound(e.blocks, v) /\ EmptyIsRecent(e.blocks)
                   /\ ShowsMore(e.blocks, d.blocks, ToSet(b.order))
                   /\ Len(e.blocks) <= Len(d.blocks) + 1
                   /\ \/ Last(e.blocks) = b
                      \/ /\ b.order # << >> /\ Stored(posts, Head(b.order))
                         /\ \E z \in ToSet(Last(e.blocks).order) : v.at[Head(b.order)] <= v.at[z]
    BY <2>5, <2>6, <2>7, <2>8, JoinStep
  <2>10. e.ok => Shows(e.blocks) = FirstK(k + 1)
    <3>1. FirstK(k + 1) = FirstK(k) \cup ToSet(b.order)
      <4>1. \A i : i \in 1 .. k + 1 <=> (i \in 1 .. k \/ i = k + 1)
        BY <2>4
      <4>2. \A x : x \in FirstK(k + 1) <=> \E i \in 1 .. k + 1 : x \in ToSet(B(i).order)
        OBVIOUS
      <4>3. \A x : x \in FirstK(k) <=> \E i \in 1 .. k : x \in ToSet(B(i).order)
        OBVIOUS
      <4> HIDE DEF FirstK, B
      <4> QED
        BY <2>2, <4>1, <4>2, <4>3
    <3> QED
      BY <2>6, <2>9, <3>1 DEF ShowsMore
  <2>11. e.ok => Len(e.blocks) <= k + 1
    <3>1. e.ok => Len(d.blocks) \in Nat /\ Len(e.blocks) \in Nat /\ Len(d.blocks) <= k
      BY <2>6, <2>9 DEF AllSound
    <3> QED
      BY <2>4, <2>9, <3>1
  <2>12. e.ok => Reached(e, k + 1)
    BY <2>2, <2>9
  <2> HIDE DEF Reached, FirstK, B
  <2>13. P(e, k + 1)
    BY <2>4, <2>9, <2>10, <2>11, <2>12
  <2>14. k + 1 \in 0 .. n
    BY <1>1, <2>4
  <2> QED
    BY <2>3, <2>13, <2>14 DEF K
<1> HIDE DEF P
<1>6. P(joined[n], n)
  <2>1. \A k \in 0 .. n : k \in K
    <3> HIDE DEF K
    <3> QED
      BY <1>1, <1>4, <1>5, UpTo
  <2> QED
    BY <1>1, <2>1
<1>7. Shows(sorted) = FirstK(n)
  <2>1. \A x : x \in Shows(sorted) <=> \E b \in ToSet(sorted) : x \in ToSet(b.order)
    BY DEF Shows
  <2>2. \A x : x \in FirstK(n) <=> \E i \in 1 .. n : x \in ToSet(B(i).order)
    OBVIOUS
  <2>3. \A b : b \in ToSet(sorted) <=> \E i \in 1 .. n : B(i) = b
    BY <1>1, SeqFacts
  <2> HIDE DEF FirstK, B
  <2>4. \A x : x \in Shows(sorted) <=> x \in FirstK(n)
    BY <2>1, <2>2, <2>3
  <2> QED
    BY <2>4
<1> QED
  <2> HIDE DEF Reached, FirstK, joined
  <2>1. P(r, n)
    BY <1>6 DEF joined
  <2> QED
    BY <1>7, <2>1 DEF P, ShowsMore


Dropped(blocks) == {b \in ToSet(blocks) : b.order # << >> \/ b.recent}

LEMMA MergeIsSound ==
    ASSUME NEW v, IsView(v), NEW posts, Agrees(posts, v),
           NEW blocks, AllSound(blocks, v), Dropped(blocks) # {},
           NEW r, r = MergeBlocks(blocks, posts)
    PROVE  /\ r.ok \in BOOLEAN
           /\ ~r.ok => r.blocks = blocks
           /\ r.ok => /\ AllSound(r.blocks, v) /\ EmptyIsRecent(r.blocks)
                      /\ ShowsMore(r.blocks, blocks, {})
<1> DEFINE kept == DropEmpty(blocks)
           D == DOMAIN kept
           R == {ij \in D \X D : \/ FirstAt(posts, kept[ij[1]]) > FirstAt(posts, kept[ij[2]])
                                 \/ /\ ~(FirstAt(posts, kept[ij[2]]) > FirstAt(posts, kept[ij[1]]))
                                    /\ ij[1] < ij[2]}
           sorted == Sorted(kept, R)
           joined == Joined(sorted, posts)[Len(sorted)]
<1>1. r = IF kept = << >> THEN Ok(blocks)
          ELSE IF ~joined.ok THEN Throws(blocks)
          ELSE IF Len(joined.blocks) = Len(blocks) THEN Ok(blocks) ELSE joined
  BY DEF MergeBlocks, StableSort, Sorted, FirstAt
<1>2. blocks \in Seq(BlockType(v.has)) /\ \A b \in ToSet(blocks) : Sound(b, v)
  BY DEF AllSound
<1>3. /\ kept \in Seq(BlockType(v.has)) /\ ToSet(kept) = Dropped(blocks)
      /\ Len(kept) <= Len(blocks) /\ (Len(kept) = Len(blocks) => ToSet(blocks) \subseteq Dropped(blocks))
  <2>1. kept = Only(blocks, Dropped(blocks)) /\ Dropped(blocks) \subseteq ToSet(blocks)
    BY DEF DropEmpty, Dropped
  <2>2. PICK t : t = Only(blocks, Dropped(blocks))
    OBVIOUS
  <2>3. /\ t \in Seq(BlockType(v.has)) /\ ToSet(t) = ToSet(blocks) \cap Dropped(blocks)
        /\ Len(t) <= Len(blocks) /\ (Len(t) = Len(blocks) => ToSet(blocks) \subseteq Dropped(blocks))
    BY <1>2, <2>2, OnlyIs
  <2>4. ToSet(t) = Dropped(blocks)
    BY <2>1, <2>3
  <2> HIDE DEF kept
  <2> QED
    BY <2>1, <2>2, <2>3, <2>4
<1> HIDE DEF kept
<1>4. D = 1 .. Len(kept) /\ Len(kept) \in Nat /\ \A i \in D : kept[i] \in ToSet(kept)
  BY <1>3, SeqFacts
<1>5. \A i \in D : FirstAt(posts, kept[i]) \in Nat
  <2> TAKE i \in D
  <2>1. PICK b : b = kept[i]
    OBVIOUS
  <2>2. b.order \in Seq(v.has)
    BY <1>2, <1>3, <1>4, <2>1 DEF Sound, BlockType, Dropped
  <2>3. b.order # << >> => posts[Head(b.order)].at \in Nat
    BY <2>2, SeqFacts DEF Agrees
  <2> QED
    BY <2>1, <2>3 DEF FirstAt, Newest
<1>6. StrictOrder(D, R)
  <2> DEFINE key == [i \in D |-> FirstAt(posts, kept[i])]
  <2>1. key \in [D -> Nat] /\ D \in SUBSET Nat
    BY <1>4, <1>5
  <2>2. R \in SUBSET (D \X D)
    OBVIOUS
  <2>3. \A i, j \in D : <<i, j>> \in R <=> \/ key[i] > key[j]
                                           \/ ~(key[j] > key[i]) /\ i < j
    OBVIOUS
  <2> HIDE DEF D, R, key
  <2> QED
    BY <2>1, <2>2, <2>3, KeyOrder
<1>7. \A i, j \in D : <<i, j>> \in R => FirstAt(posts, kept[i]) >= FirstAt(posts, kept[j])
  BY <1>5
<1> HIDE DEF R
<1>8. /\ sorted \in Seq(BlockType(v.has)) /\ Len(sorted) = Len(kept) /\ ToSet(sorted) = Dropped(blocks)
      /\ Follows(sorted, kept, R)
  <2>1. PICK t : t = sorted
    OBVIOUS
  <2> HIDE DEF sorted
  <2>2. t = Sorted(kept, R)
    BY <2>1 DEF sorted
  <2> HIDE DEF D
  <2>3. /\ t \in Seq(BlockType(v.has)) /\ Len(t) = Len(kept) /\ ToSet(t) = ToSet(kept)
        /\ Follows(t, kept, R)
    BY <1>3, <1>6, <2>2, SortIs DEF D
  <2> QED
    BY <1>3, <2>1, <2>3
<1> HIDE DEF sorted
<1>9. \A k, l \in DOMAIN sorted : k < l => FirstAt(posts, sorted[k]) >= FirstAt(posts, sorted[l])
  BY <1>7, <1>8 DEF Follows
<1>10. AllSound(sorted, v)
  <2>1. \A b \in ToSet(sorted) : Sound(b, v)
    BY <1>2, <1>8 DEF Dropped
  <2> QED
    BY <1>8, <2>1 DEF AllSound
<1>11. EmptyIsRecent(sorted)
  BY <1>8 DEF EmptyIsRecent, Dropped
<1>12. /\ joined.ok \in BOOLEAN
       /\ joined.ok => /\ AllSound(joined.blocks, v) /\ EmptyIsRecent(joined.blocks)
                       /\ ShowsMore(joined.blocks, sorted, {}) /\ Len(joined.blocks) <= Len(sorted)
  <2>1. PICK t : t = joined
    OBVIOUS
  <2>2. t = Joined(sorted, posts)[Len(sorted)]
    BY <2>1
  <2> HIDE DEF joined
  <2>3. /\ t.ok \in BOOLEAN
        /\ t.ok => /\ AllSound(t.blocks, v) /\ EmptyIsRecent(t.blocks)
                   /\ ShowsMore(t.blocks, sorted, {}) /\ Len(t.blocks) <= Len(sorted)
    BY <1>9, <1>10, <1>11, <2>2, JoinedSound
  <2> QED
    BY <2>1, <2>3
<1> HIDE DEF joined
<1>13. Shows(sorted) = Shows(blocks)
  <2>1. \A x : x \in Shows(sorted) <=> \E b \in Dropped(blocks) : x \in ToSet(b.order)
    BY <1>8 DEF Shows
  <2>2. \A x : x \in Shows(blocks) <=> \E b \in ToSet(blocks) : x \in ToSet(b.order)
    BY DEF Shows
  <2>3. \A b \in ToSet(blocks) : b \notin Dropped(blocks) => ToSet(b.order) = {}
    <3> TAKE b \in ToSet(blocks)
    <3>1. b.order \in Seq(v.has)
      BY <1>2 DEF Sound, BlockType
    <3> QED
      BY <3>1, SeqFacts DEF Dropped
  <2> QED
    BY <2>1, <2>2, <2>3 DEF Dropped
<1>14. kept # << >>
  BY <1>3, SeqFacts
<1>15. CASE ~joined.ok
  BY <1>1, <1>14, <1>15 DEF Throws
<1>16. CASE joined.ok /\ Len(joined.blocks) = Len(blocks)
  <2>1. r.ok = TRUE /\ r.blocks = blocks
    BY <1>1, <1>14, <1>16 DEF Ok
  <2>2. Len(kept) = Len(blocks)
    <3>1. Len(joined.blocks) \in Nat /\ Len(joined.blocks) <= Len(kept)
      BY <1>8, <1>12, <1>16 DEF AllSound
    <3>2. Len(blocks) \in Nat
      BY <1>2
    <3> QED
      BY <1>3, <1>4, <1>16, <3>1, <3>2
  <2>3. EmptyIsRecent(blocks)
    BY <1>3, <2>2 DEF EmptyIsRecent, Dropped
  <2>4. ShowsMore(blocks, blocks, {})
    BY DEF ShowsMore
  <2> QED
    BY <2>1, <2>3, <2>4
<1>17. CASE joined.ok /\ Len(joined.blocks) # Len(blocks)
  <2>1. r = joined
    BY <1>1, <1>14, <1>17
  <2>2. ShowsMore(joined.blocks, blocks, {})
    BY <1>12, <1>13, <1>17 DEF ShowsMore
  <2> QED
    BY <1>12, <1>17, <2>1, <2>2
<1> QED
  BY <1>15, <1>16, <1>17


-----------------------------------------------------------------------------
\* One block changes

RecentOrder(blocks) == IF RecentBlock(blocks) = 0 THEN << >> ELSE blocks[RecentBlock(blocks)].order
StraysIn(blocks) == \E i \in DOMAIN blocks : i # RecentBlock(blocks) /\ Has(blocks[i], PendingId)

LEMMA RecentBlockIs ==
    ASSUME NEW S, NEW blocks \in Seq(S), NEW i, i = RecentBlock(blocks)
    PROVE  /\ i = 0 => \A j \in DOMAIN blocks : ~blocks[j].recent
           /\ i # 0 => i \in DOMAIN blocks /\ blocks[i].recent
<1> DEFINE I == {j \in 1 .. Len(blocks) : blocks[j].recent}
<1>1. i = IF I # {} THEN Min(I) ELSE 0
  BY DEF RecentBlock, FirstBlock, SelectInSeq
<1>2. I \in SUBSET Nat /\ DOMAIN blocks = 1 .. Len(blocks)
  OBVIOUS
<1>3. CASE I = {}
  <2>1. \A j \in DOMAIN blocks : ~blocks[j].recent
    BY <1>2, <1>3
  <2> QED
    BY <1>1, <1>3, <2>1
<1>4. CASE I # {}
  <2>1. Min(I) \in I
    BY <1>2, <1>4, MinOf
  <2>2. i \in I
    BY <1>1, <1>4, <2>1
  <2>3. i # 0
    BY <2>2
  <2> QED
    BY <1>2, <2>2, <2>3
<1> QED
  BY <1>3, <1>4

HoldingBlock(blocks, id) == FirstBlock(blocks, LAMBDA b : Has(b, id))

LEMMA HoldingBlockIs ==
    ASSUME NEW S, NEW blocks \in Seq(S), NEW id, NEW i, i = HoldingBlock(blocks, id)
    PROVE  i # 0 => i \in DOMAIN blocks /\ Has(blocks[i], id)
<1> DEFINE I == {j \in 1 .. Len(blocks) : Has(blocks[j], id)}
<1>1. i = IF I # {} THEN Min(I) ELSE 0
  BY DEF HoldingBlock, FirstBlock, SelectInSeq
<1>2. I \in SUBSET Nat /\ DOMAIN blocks = 1 .. Len(blocks)
  OBVIOUS
<1>3. CASE I # {}
  <2>1. Min(I) \in I
    BY <1>2, <1>3, MinOf
  <2>2. i \in I
    BY <1>1, <1>3, <2>1
  <2> QED
    BY <1>2, <2>2
<1> QED
  BY <1>1, <1>3

LEMMA RecentBlockKept ==
    ASSUME NEW blocks, NEW t, Len(t) = Len(blocks), 
           \A j \in 1 .. Len(blocks) : t[j].recent <=> blocks[j].recent
    PROVE  RecentBlock(t) = RecentBlock(blocks)
<1>1. {j \in 1 .. Len(t) : t[j].recent} = {j \in 1 .. Len(blocks) : blocks[j].recent}
  OBVIOUS
<1> QED
  BY <1>1 DEF RecentBlock, FirstBlock, SelectInSeq

\* t is s with another block at i.
Swapped(t, s, i, c) ==
    /\ Len(t) = Len(s) /\ DOMAIN t = DOMAIN s /\ t[i] = c
    /\ \A j \in DOMAIN s : j # i => t[j] = s[j]
ShowsSwapped(t, s, i, c) ==
    /\ Shows(t) \subseteq Shows(s) \cup ToSet(c.order)
    /\ Shows(s) \subseteq Shows(t) \cup ToSet(s[i].order)
    /\ ToSet(c.order) \subseteq Shows(t)

LEMMA UpdateSound ==
    ASSUME NEW v, NEW blocks, AllSound(blocks, v), NEW i \in DOMAIN blocks,
           NEW c, Sound(c, v), NEW t, t = [blocks EXCEPT ![i] = c]
    PROVE  /\ AllSound(t, v) /\ Swapped(t, blocks, i, c) /\ ShowsSwapped(t, blocks, i, c)
           /\ EmptyIsRecent(blocks) /\ (c.order = << >> => c.recent) => EmptyIsRecent(t)
<1>1. /\ blocks \in Seq(BlockType(v.has)) /\ c \in BlockType(v.has)
      /\ \A b \in ToSet(blocks) : Sound(b, v)
  BY DEF AllSound, Sound
<1>2. /\ t \in Seq(BlockType(v.has)) /\ Len(t) = Len(blocks) /\ DOMAIN t = DOMAIN blocks /\ t[i] = c
      /\ \A j \in DOMAIN blocks : j # i => t[j] = blocks[j]
  BY <1>1
<1>3. \A b : b \in ToSet(t) => b \in ToSet(blocks) \/ b = c
  BY <1>2 DEF ToSet
<1>4. c \in ToSet(t) /\ \A b \in ToSet(blocks) : b \in ToSet(t) \/ b = blocks[i]
  BY <1>2 DEF ToSet
<1>5. AllSound(t, v)
  BY <1>1, <1>2, <1>3 DEF AllSound
<1>6. EmptyIsRecent(blocks) /\ (c.order = << >> => c.recent) => EmptyIsRecent(t)
  BY <1>3 DEF EmptyIsRecent
<1>7. Shows(t) \subseteq Shows(blocks) \cup ToSet(c.order)
  BY <1>3 DEF Shows
<1>8. Shows(blocks) \subseteq Shows(t) \cup ToSet(blocks[i].order)
  BY <1>4 DEF Shows
<1>9. ToSet(c.order) \subseteq Shows(t)
  BY <1>4 DEF Shows
<1>10. ShowsSwapped(t, blocks, i, c)
  BY <1>7, <1>8, <1>9 DEF ShowsSwapped
<1>11. Swapped(t, blocks, i, c)
  BY <1>2 DEF Swapped
<1> QED
  BY <1>5, <1>6, <1>10, <1>11

\* A block that ends no later, and begins no earlier, is as sound.
LEMMA PartIsSound ==
    ASSUME NEW v, NEW b, Sound(b, v), NEW c \in BlockType(v.has), Once(c.order, v.own),
           ToSet(c.order) \subseteq ToSet(b.order), c.recent => b.recent, c.oldest => b.oldest
    PROVE  Sound(c, v)
<1>1. \A p \in v.live : Spans(c, v, p) => Spans(b, v, p)
  BY DEF Spans
<1> QED
  BY <1>1 DEF Sound

\* A later view: posts that are live in it are accounted for, or they were live before and
\* not accounted for.
Suits(v, w) ==
    /\ v.has \subseteq w.has /\ v.own \subseteq w.own
    /\ \A id \in v.has : w.at[id] = v.at[id]
    /\ \A p \in w.live : p \in w.sure \/ (p \in v.live /\ p \notin v.sure /\ w.at[p] = v.at[p])

LEMMA ViewChange ==
    ASSUME NEW v, NEW w, Suits(v, w), NEW blocks, AllSound(blocks, v)
    PROVE  AllSound(blocks, w)
<1>1. blocks \in Seq(BlockType(v.has)) /\ \A b \in ToSet(blocks) : Sound(b, v)
  BY DEF AllSound
<1>2. BlockType(v.has) \subseteq BlockType(w.has)
  BY DEF BlockType, Suits
<1>3. blocks \in Seq(BlockType(w.has))
  BY <1>1, <1>2
<1>4. ASSUME NEW b \in ToSet(blocks) PROVE Sound(b, w)
  <2>1. b \in BlockType(v.has) /\ Once(b.order, v.own) /\ Sound(b, v)
    BY <1>1 DEF Sound
  <2>2. ToSet(b.order) \subseteq v.has
    BY <2>1, SeqFacts DEF BlockType
  <2>3. \A p \in w.live : p \notin w.sure => p \in v.live /\ p \notin v.sure /\ w.at[p] = v.at[p]
    BY DEF Suits
  <2>4. \A p \in w.live : p \notin w.sure /\ Spans(b, w, p) => Spans(b, v, p)
    BY <2>2, <2>3 DEF Spans, Suits
  <2>5. Once(b.order, w.own)
    BY <2>1 DEF Once, Suits
  <2> QED
    BY <1>2, <2>1, <2>3, <2>4, <2>5 DEF Sound
<1> QED
  BY <1>3, <1>4 DEF AllSound


-----------------------------------------------------------------------------
\* The pending post goes

LEMMA RemoveFirstIs ==
    ASSUME NEW ids, NEW s \in Seq(ids), NEW own, Once(s, own), NEW e \in ToSet(s), e \notin own,
           NEW t, t = RemoveFirst(s, e)
    PROVE  t \in Seq(ids) /\ ToSet(t) = ToSet(s) \ {e} /\ Once(t, own)
<1> DEFINE I == {i \in 1 .. Len(s) : s[i] = e}
           n == Len(s)
<1>1. /\ n \in Nat /\ DOMAIN s = 1 .. n /\ \A i \in 1 .. n : s[i] \in ids
      /\ \A x : x \in ToSet(s) <=> \E i \in DOMAIN s : s[i] = x
  BY SeqFacts
<1>2. PICK i \in 1 .. n : s[i] = e /\ t = SubSeq(s, 1, i - 1) \o SubSeq(s, i + 1, n)
  <2>1. I # {} /\ I \in SUBSET Nat /\ \E j \in 1 .. n : s[j] = e
    BY <1>1
  <2>2. Min(I) \in I
    BY <2>1, MinOf
  <2>3. t = SubSeq(s, 1, Min(I) - 1) \o SubSeq(s, Min(I) + 1, n)
    BY <2>1 DEF RemoveFirst, RemoveAt, SelectInSeq
  <2> QED
    BY <2>2, <2>3
<1> DEFINE f == [k \in 1 .. n - 1 |-> IF k < i THEN k ELSE k + 1]
<1>3. i - 1 \in 0 .. n /\ i + 1 \in 1 .. n + 1 /\ i \in Nat /\ n - 1 \in Nat
  BY <1>1
<1> DEFINE u == SubSeq(s, 1, i - 1)
           w == SubSeq(s, i + 1, n)
<1>4. /\ u \in Seq(ids) /\ Len(u) = i - 1 /\ \A k \in 1 .. i - 1 : u[k] = s[k]
  BY <1>1, <1>3
<1>5. /\ w \in Seq(ids) /\ Len(w) = n - i /\ \A k \in 1 .. n - i : w[k] = s[k + i]
  <2>1. \A k \in i + 1 .. n : k \in 1 .. n /\ s[k] \in ids
    BY <1>1, <1>3
  <2>2. w \in Seq(ids) /\ Len(w) = IF i + 1 <= n THEN n - (i + 1) + 1 ELSE 0
    BY <2>1, SubSeqProperties
  <2>3. \A k \in 1 .. n - (i + 1) + 1 : w[k] = s[(i + 1) + k - 1]
    BY <2>1, SubSeqProperties
  <2>4. n - (i + 1) + 1 = n - i
    BY <1>1, <1>3
  <2>5. ASSUME NEW k \in 1 .. n - i PROVE w[k] = s[k + i]
    <3>1. (i + 1) + k - 1 = k + i /\ k \in 1 .. n - (i + 1) + 1
      BY <1>1, <1>3
    <3>2. w[k] = s[(i + 1) + k - 1]
      BY <2>3, <3>1
    <3> QED
      BY <3>1, <3>2
  <2> HIDE DEF w, n, I
  <2>6. Len(w) = n - i
    BY <1>1, <1>3, <2>2
  <2> QED
    BY <2>2, <2>5, <2>6
<1> HIDE DEF u, w, I
<1>6. t = u \o w
  BY <1>2 DEF u, w
<1>7. /\ t \in Seq(ids) /\ Len(t) = n - 1
      /\ \A k \in 1 .. n - 1 : t[k] = IF k <= i - 1 THEN u[k] ELSE w[k - (i - 1)]
  <2>1. Len(u) + Len(w) = n - 1 /\ Len(u) = i - 1
    BY <1>1, <1>3, <1>4, <1>5
  <2>2. t \in Seq(ids) /\ Len(t) = Len(u) + Len(w)
    BY <1>4, <1>5, <1>6, ConcatProperties
  <2>3. \A k \in 1 .. Len(u) + Len(w) : t[k] = IF k <= Len(u) THEN u[k] ELSE w[k - Len(u)]
    BY <1>4, <1>5, <1>6, ConcatProperties
  <2> HIDE DEF n
  <2> QED
    BY <2>1, <2>2, <2>3
<1>8. DOMAIN t = 1 .. n - 1
  BY <1>7
<1>9. \A k \in 1 .. n - 1 : t[k] = s[f[k]] /\ f[k] \in 1 .. n /\ f[k] # i
  <2> TAKE k \in 1 .. n - 1
  <2>1. CASE k < i
    <3>1. k <= i - 1 /\ k \in 1 .. i - 1 /\ f[k] = k /\ k \in 1 .. n /\ k # i
      BY <1>1, <1>3, <2>1
    <3> HIDE DEF f, n
    <3>2. t[k] = u[k]
      BY <1>7, <3>1
    <3>3. u[k] = s[k]
      BY <1>4, <3>1
    <3> QED
      BY <3>1, <3>2, <3>3
  <2>2. CASE ~(k < i)
    <3>1. k - (i - 1) \in 1 .. n - i /\ (k - (i - 1)) + i = k + 1 /\ ~(k <= i - 1)
          /\ f[k] = k + 1 /\ k + 1 \in 1 .. n /\ k + 1 # i
      BY <1>1, <1>3, <2>2
    <3> HIDE DEF f, n
    <3>2. t[k] = w[k - (i - 1)]
      BY <1>7, <3>1
    <3>3. w[k - (i - 1)] = s[(k - (i - 1)) + i]
      BY <1>5, <3>1
    <3> QED
      BY <3>1, <3>2, <3>3
  <2> QED
    BY <2>1, <2>2
<1>10. Places(f, t, s)
  <2>1. f \in [1 .. n - 1 -> 1 .. n]
    BY <1>9
  <2>2. \A k, l \in 1 .. n - 1 : f[k] = f[l] => k = l
    BY <1>1, <1>3
  <2> HIDE DEF f
  <2> QED
    BY <1>1, <1>8, <1>9, <2>1, <2>2 DEF Places
<1>11. \A j \in 1 .. n : j # i => \E k \in 1 .. n - 1 : f[k] = j
  <2> TAKE j \in 1 .. n
  <2> HAVE j # i
  <2>1. CASE j < i
    <3>1. j \in 1 .. n - 1 /\ f[j] = j
      BY <1>1, <1>3, <2>1
    <3> QED
      BY <3>1
  <2>2. CASE ~(j < i)
    <3>1. j - 1 \in 1 .. n - 1 /\ f[j - 1] = j
      BY <1>1, <1>3, <2>2
    <3> QED
      BY <3>1
  <2> QED
    BY <2>1, <2>2
<1>12. \A j \in 1 .. n : j # i => s[j] # e
  BY <1>1, <1>2 DEF Once
<1> HIDE DEF f
<1>13. ToSet(t) = ToSet(s) \ {e}
  <2>1. \A x : x \in ToSet(t) <=> \E k \in 1 .. n - 1 : s[f[k]] = x
    <3>1. \A x : x \in ToSet(t) <=> \E k \in 1 .. n - 1 : t[k] = x
      BY <1>8 DEF ToSet
    <3>2. \A k \in 1 .. n - 1 : t[k] = s[f[k]]
      BY <1>9
    <3> HIDE DEF n
    <3> QED
      BY <3>1, <3>2
  <2>2. \A x : x \in ToSet(s) \ {e} <=> \E j \in 1 .. n : j # i /\ s[j] = x
    BY <1>1, <1>2, <1>12
  <2> HIDE DEF n
  <2>3. ASSUME NEW x, NEW k \in 1 .. n - 1, s[f[k]] = x PROVE \E j \in 1 .. n : j # i /\ s[j] = x
    BY <1>9, <2>3
  <2>4. ASSUME NEW x, NEW j \in 1 .. n, j # i, s[j] = x PROVE \E k \in 1 .. n - 1 : s[f[k]] = x
    BY <1>11, <2>4
  <2>5. \A x : x \in ToSet(t) <=> x \in ToSet(s) \ {e}
    BY <2>1, <2>2, <2>3, <2>4
  <2> QED
    BY <2>5
<1> QED
  BY <1>7, <1>10, <1>13, OnceKept

\* comparePosts orders the places of the ids.
ByPosts(s, posts) == StableSort(s, LAMBDA a, b : ComparePosts(posts, a, b))

LEMMA PostsOrder ==
    ASSUME NEW ids, NEW s \in Seq(ids), NEW posts, \A id \in ids : posts[id].at \in Nat
    PROVE  /\ ByPosts(s, posts) \in Seq(ids) /\ ToSet(ByPosts(s, posts)) = ToSet(s)
           /\ \A own : Once(s, own) => Once(ByPosts(s, posts), own)
<1> DEFINE D == DOMAIN s
           R == {ij \in D \X D : \/ ComparePosts(posts, s[ij[1]], s[ij[2]])
                                 \/ ~ComparePosts(posts, s[ij[2]], s[ij[1]]) /\ ij[1] < ij[2]}
           t == ByPosts(s, posts)
           at(i) == posts[s[i]].at
           pending(i) == s[i] = PendingId
<1>1. t = Sorted(s, R)
  BY DEF ByPosts, StableSort, Sorted
<1>2. D \in SUBSET Nat /\ \A i \in D : at(i) \in Nat
  OBVIOUS
<1>3. \A i, j \in D : <<i, j>> \in R <=>
          \/ (pending(i) /\ ~pending(j)) \/ ((pending(i) <=> pending(j)) /\ at(i) > at(j))
          \/ /\ ~(pending(j) /\ ~pending(i)) /\ ~((pending(j) <=> pending(i)) /\ at(j) > at(i))
             /\ i < j
  BY DEF ComparePosts
<1> HIDE DEF R, t, at, pending, D
<1>4. StrictOrder(D, R)
  <2>1. \A i \in D : <<i, i>> \notin R
    BY <1>2, <1>3
  <2>2. ASSUME NEW i \in D, NEW j \in D, i # j PROVE <<i, j>> \in R \/ <<j, i>> \in R
    <3>1. at(i) \in Nat /\ at(j) \in Nat /\ i \in Nat /\ j \in Nat
      BY <1>2
    <3>2. i < j \/ j < i
      BY <2>2, <3>1
    <3>3. ~(at(i) > at(j) /\ at(j) > at(i))
      BY <3>1
    <3> QED
      BY <1>3, <3>2, <3>3
  <2>3. \A i, j, k \in D : <<i, j>> \in R /\ <<j, k>> \in R => <<i, k>> \in R
    <3> SUFFICES ASSUME NEW i \in D, NEW j \in D, NEW k \in D, <<i, j>> \in R, <<j, k>> \in R
                 PROVE  <<i, k>> \in R
      OBVIOUS
    <3>1. /\ at(i) \in Nat /\ at(j) \in Nat /\ at(k) \in Nat /\ i \in Nat /\ j \in Nat /\ k \in Nat
      BY <1>2
    <3>2. \/ (pending(i) /\ ~pending(j))
          \/ (pending(i) <=> pending(j)) /\ (at(i) > at(j) \/ (at(i) = at(j) /\ i < j))
      BY <1>3, <3>1
    <3>3. \/ (pending(j) /\ ~pending(k))
          \/ (pending(j) <=> pending(k)) /\ (at(j) > at(k) \/ (at(j) = at(k) /\ j < k))
      BY <1>3, <3>1
    <3>4. \/ (pending(i) /\ ~pending(k))
          \/ (pending(i) <=> pending(k)) /\ (at(i) > at(k) \/ (at(i) = at(k) /\ i < k))
      BY <3>1, <3>2, <3>3
    <3> QED
      BY <1>3, <3>1, <3>4
  <2> QED
    BY <2>1, <2>2, <2>3 DEF StrictOrder
<1>5. t \in Seq(ids) /\ ToSet(t) = ToSet(s) /\ \A own : Once(s, own) => Once(t, own)
  BY <1>1, <1>4, SortIs DEF D
<1> QED
  BY <1>5 DEF t


-----------------------------------------------------------------------------
\* RECEIVED_NEW_POST

Adds(t, s, id) == ToSet(t) = ToSet(s) \cup {id}

\* An id goes on top of an order that does not have it.
LEMMA OnTop ==
    ASSUME NEW ids, NEW order \in Seq(ids), NEW own, Once(order, own),
           NEW id \in ids, id \notin ToSet(order), NEW t, t = <<id>> \o order
    PROVE  t \in Seq(ids) /\ Adds(t, order, id) /\ Once(t, own)
<1>1. PICK a : a = <<id>>
  OBVIOUS
<1>2. a \in Seq(ids) /\ ToSet(a) = {id} /\ Once(a, own)
  BY <1>1 DEF ToSet, Once
<1>3. ToSet(a) \cap ToSet(order) \subseteq own
  BY <1>2
<1>4. t = a \o order
  BY <1>1
<1>5. a \o order \in Seq(ids) /\ ToSet(a \o order) = ToSet(a) \cup ToSet(order)
  BY <1>2, ConcatIs
<1>6. Once(a \o order, own)
  BY <1>2, <1>3, ConcatIs
<1> QED
  BY <1>2, <1>4, <1>5, <1>6 DEF Adds

\* What is newer than the id is accounted for.
Tops(id, v) == \A p \in v.live : v.at[id] <= v.at[p] => p \in v.sure
AllButPending(v, posts) == \A x \in v.has : x # PendingId => Stored(posts, x)

AddedTo(recent, id) == IF Has(recent, id) THEN recent.order ELSE <<id>> \o recent.order

LEMMA AddedToIs ==
    ASSUME NEW v, NEW recent, Sound(recent, v), NEW id \in v.has
    PROVE  /\ AddedTo(recent, id) \in Seq(v.has) /\ Once(AddedTo(recent, id), v.own)
           /\ Adds(AddedTo(recent, id), recent.order, id)
<1>1. recent.order \in Seq(v.has) /\ Once(recent.order, v.own)
  BY DEF Sound, BlockType
<1>2. CASE Has(recent, id)
  BY <1>1, <1>2 DEF AddedTo, Has, Adds
<1>3. CASE ~Has(recent, id)
  <2>1. PICK s : s = <<id>> \o recent.order
    OBVIOUS
  <2>2. id \notin ToSet(recent.order)
    BY <1>3 DEF Has
  <2>3. s \in Seq(v.has) /\ Adds(s, recent.order, id) /\ Once(s, v.own)
    BY <1>1, <2>1, <2>2, OnTop
  <2>4. AddedTo(recent, id) = s
    BY <1>3, <2>1 DEF AddedTo
  <2> QED
    BY <2>3, <2>4
<1> QED
  BY <1>2, <1>3

\* The order the recent block gets: the pending id goes when its post comes.
Replaces(added, id, own) == own /\ id # PendingId /\ PendingId \in ToSet(added)
NewOrder(added, id, own, posts) ==
    IF Replaces(added, id, own)
    THEN ByPosts(RemoveFirst(added, PendingId), posts)
    ELSE added

\* Without the pending id, if it is to go
Rest(order, added, id, own) ==
    ToSet(order) = IF Replaces(added, id, own) THEN ToSet(added) \ {PendingId} ELSE ToSet(added)

LEMMA NewOrderIs ==
    ASSUME NEW v, NEW posts, Agrees(posts, v), PendingId \notin v.own,
           NEW added \in Seq(v.has), Once(added, v.own), NEW id \in ToSet(added), NEW own,
           NEW order, order = NewOrder(added, id, own, posts)
    PROVE  /\ order \in Seq(v.has) /\ Once(order, v.own) /\ order # << >>
           /\ Rest(order, added, id, own)
<1>1. CASE Replaces(added, id, own)
  <2>1. PICK left : left = RemoveFirst(added, PendingId)
    OBVIOUS
  <2>2. PendingId \in ToSet(added) /\ id # PendingId
    BY <1>1 DEF Replaces
  <2>3. left \in Seq(v.has) /\ ToSet(left) = ToSet(added) \ {PendingId} /\ Once(left, v.own)
    BY <2>1, <2>2, RemoveFirstIs
  <2> DEFINE sorted == ByPosts(left, posts)
  <2>4. order = sorted
    BY <1>1, <2>1 DEF NewOrder
  <2>5. \A x \in v.has : posts[x].at \in Nat
    BY DEF Agrees
  <2>6. sorted \in Seq(v.has) /\ ToSet(sorted) = ToSet(left) /\ Once(sorted, v.own)
    BY <2>3, <2>5, PostsOrder
  <2> HIDE DEF sorted
  <2>7. order \in Seq(v.has) /\ ToSet(order) = ToSet(added) \ {PendingId} /\ Once(order, v.own)
    BY <2>3, <2>4, <2>6
  <2>8. order # << >>
    BY <2>2, <2>7, SeqFacts
  <2> QED
    BY <1>1, <2>7, <2>8 DEF Rest
<1>2. CASE ~Replaces(added, id, own)
  <2>1. order = added
    BY <1>2 DEF NewOrder
  <2>2. order # << >>
    BY <2>1, SeqFacts
  <2> QED
    BY <1>2, <2>1, <2>2 DEF Rest
<1> QED
  BY <1>1, <1>2

\* What the recent block becomes
NewRecent(recent, id, own, posts) ==
    [recent EXCEPT !.order = NewOrder(AddedTo(recent, id), id, own, posts)]
Renews(order, old, id, own) ==
    /\ ToSet(order) \subseteq ToSet(old) \cup {id}
    /\ (ToSet(old) \cup {id}) \ {PendingId} \subseteq ToSet(order)
    /\ own /\ id # PendingId => PendingId \notin ToSet(order)

LEMMA NewRecentIs ==
    ASSUME NEW v, IsView(v), NEW posts, Agrees(posts, v), PendingId \notin v.own,
           NEW recent, Sound(recent, v), recent.recent = TRUE,
           NEW id \in v.has, Tops(id, v), NEW own,
           NEW next, next = NewRecent(recent, id, own, posts)
    PROVE  /\ Sound(next, v) /\ next.recent = TRUE /\ next.order # << >>
           /\ Renews(next.order, recent.order, id, own)
<1>1. PICK added : added = AddedTo(recent, id)
  OBVIOUS
<1>2. PICK order : order = NewOrder(added, id, own, posts)
  OBVIOUS
<1>3. next = [recent EXCEPT !.order = order]
  BY <1>1, <1>2 DEF NewRecent
<1>4. /\ recent \in BlockType(v.has) /\ recent.recent = TRUE /\ recent.oldest \in BOOLEAN
  BY DEF Sound, BlockType
<1>5. added \in Seq(v.has) /\ Adds(added, recent.order, id) /\ Once(added, v.own)
  BY <1>1, AddedToIs
<1>6. /\ order \in Seq(v.has) /\ Once(order, v.own) /\ order # << >>
      /\ Rest(order, added, id, own)
  <2>1. id \in ToSet(added)
    BY <1>5 DEF Adds
  <2> QED
    BY <1>2, <1>5, <2>1, NewOrderIs
<1>7. /\ next \in BlockType(v.has) /\ next.order = order /\ next.recent = TRUE
      /\ next.oldest = recent.oldest
  BY <1>3, <1>4, <1>6 DEF BlockType
<1>8. \A p \in v.live : Spans(next, v, p) => Spans(recent, v, p) \/ v.at[id] <= v.at[p]
  BY <1>4, <1>5, <1>6, <1>7 DEF Spans, Adds, Rest
<1>9. Sound(next, v)
  BY <1>6, <1>7, <1>8 DEF Sound, Tops
<1>10. Renews(order, recent.order, id, own)
  BY <1>5, <1>6 DEF Renews, Replaces, Adds, Rest
<1> QED
  BY <1>6, <1>7, <1>9, <1>10

TheRecent(blocks) ==
    IF RecentBlock(blocks) = 0 THEN Block(<< >>, TRUE, FALSE) ELSE blocks[RecentBlock(blocks)]

LEMMA TheRecentIs ==
    ASSUME NEW v, NEW blocks, AllSound(blocks, v), NEW recent, recent = TheRecent(blocks)
    PROVE  /\ Sound(recent, v) /\ recent.recent = TRUE /\ recent.order = RecentOrder(blocks)
<1>1. blocks \in Seq(BlockType(v.has))
  BY DEF AllSound
<1>2. PICK i : i = RecentBlock(blocks)
  OBVIOUS
<1>3. i # 0 => i \in DOMAIN blocks /\ blocks[i].recent
  BY <1>1, <1>2, RecentBlockIs
<1>4. CASE i = 0
  <2>1. /\ recent \in BlockType(v.has) /\ recent.order = << >> /\ recent.recent = TRUE
        /\ recent.oldest = FALSE
    BY <1>2, <1>4 DEF TheRecent, Block, BlockType
  <2>2. Once(recent.order, v.own) /\ ToSet(recent.order) = {}
    BY <2>1 DEF Once, ToSet
  <2>3. \A p \in v.live : ~Spans(recent, v, p)
    BY <2>1, <2>2 DEF Spans
  <2>4. RecentOrder(blocks) = << >>
    BY <1>2, <1>4 DEF RecentOrder
  <2> QED
    BY <2>1, <2>2, <2>3, <2>4 DEF Sound
<1>5. CASE i # 0
  <2>1. recent = blocks[i] /\ recent \in ToSet(blocks)
    BY <1>1, <1>2, <1>3, <1>5, SeqFacts DEF TheRecent
  <2>2. RecentOrder(blocks) = recent.order
    BY <1>2, <1>5, <2>1 DEF RecentOrder
  <2>3. Sound(recent, v)
    BY <2>1 DEF AllSound
  <2>4. recent.recent \in BOOLEAN
    BY <2>3 DEF Sound, BlockType
  <2> QED
    BY <1>3, <1>5, <2>1, <2>2, <2>3, <2>4
<1> QED
  BY <1>4, <1>5


PutRecent(t, blocks, next) ==
    t = IF RecentBlock(blocks) = 0 THEN Append(blocks, next)
        ELSE [blocks EXCEPT ![RecentBlock(blocks)] = next]

LEMMA ReceivedNewPostIs ==
    ASSUME NEW v, NEW posts, Agrees(posts, v), PendingId \notin v.own, AllButPending(v, posts),
           NEW blocks, AllSound(blocks, v), NEW id \in v.has, NEW own,
           NEW next, next = NewRecent(TheRecent(blocks), id, own, posts),
           NEW r, r = ReceivedNewPost(blocks, id, own, posts)
    PROVE  r.ok = TRUE /\ PutRecent(r.blocks, blocks, next)
<1> DEFINE recent == TheRecent(blocks)
           added == AddedTo(recent, id)
           left == RemoveFirst(added, PendingId)
<1>1. r = IF Replaces(added, id, own) /\ ~AllStored(posts, left) THEN Throws(blocks)
          ELSE Ok(IF RecentBlock(blocks) = 0 THEN Append(blocks, next)
                  ELSE [blocks EXCEPT ![RecentBlock(blocks)] = next])
  BY DEF ReceivedNewPost, NewRecent, NewOrder, AddedTo, Replaces, TheRecent, ByPosts
<1>2. ~(Replaces(added, id, own) /\ ~AllStored(posts, left))
  <2> SUFFICES ASSUME Replaces(added, id, own) PROVE AllStored(posts, left)
    OBVIOUS
  <2>1. Sound(recent, v)
    BY TheRecentIs
  <2> HIDE DEF recent
  <2>2. added \in Seq(v.has) /\ Once(added, v.own)
    BY <2>1, AddedToIs
  <2> HIDE DEF added
  <2>3. PendingId \in ToSet(added) /\ ToSet(added) \subseteq v.has
    BY <2>2, SeqFacts DEF Replaces
  <2>4. PICK t : t = left
    OBVIOUS
  <2>5. t = RemoveFirst(added, PendingId)
    BY <2>4
  <2>6. ToSet(t) = ToSet(added) \ {PendingId}
    BY <2>2, <2>3, <2>5, RemoveFirstIs
  <2> QED
    BY <2>3, <2>4, <2>6 DEF AllStored, AllButPending
<1> HIDE DEF added, left
<1> QED
  BY <1>1, <1>2 DEF Ok, PutRecent

\* What the blocks t show, after the post came to the blocks s
ShowsNew(t, s, id, own) ==
    /\ Shows(t) \subseteq Shows(s) \cup {id}
    /\ (Shows(s) \cup {id}) \ {PendingId} \subseteq Shows(t)
    /\ ToSet(RecentOrder(t)) \subseteq ToSet(RecentOrder(s)) \cup {id}
    /\ own /\ id # PendingId => PendingId \notin ToSet(RecentOrder(t))
    /\ StraysIn(t) => StraysIn(s)

LEMMA NewPostIsSound ==
    ASSUME NEW v, IsView(v), NEW posts, Agrees(posts, v), PendingId \notin v.own,
           AllButPending(v, posts),
           NEW blocks, AllSound(blocks, v), EmptyIsRecent(blocks),
           NEW id \in v.has, Tops(id, v), NEW own,
           NEW r, r = ReceivedNewPost(blocks, id, own, posts)
    PROVE  /\ r.ok = TRUE /\ AllSound(r.blocks, v) /\ EmptyIsRecent(r.blocks)
           /\ ShowsNew(r.blocks, blocks, id, own)
<1>1. PICK i : i = RecentBlock(blocks)
  OBVIOUS
<1>2. PICK recent : recent = TheRecent(blocks)
  OBVIOUS
<1>3. PICK next : next = NewRecent(recent, id, own, posts)
  OBVIOUS
<1>4. PICK t : t = r.blocks
  OBVIOUS
<1>5. blocks \in Seq(BlockType(v.has)) /\ DOMAIN blocks = 1 .. Len(blocks) /\ Len(blocks) \in Nat
  BY DEF AllSound
<1>6. /\ i = 0 => \A j \in DOMAIN blocks : ~blocks[j].recent
      /\ i # 0 => i \in DOMAIN blocks /\ blocks[i].recent
  BY <1>1, <1>5, RecentBlockIs
<1>7. Sound(recent, v) /\ recent.recent = TRUE /\ recent.order = RecentOrder(blocks)
  BY <1>2, TheRecentIs
<1>8. /\ Sound(next, v) /\ next.recent = TRUE /\ next.order # << >>
      /\ Renews(next.order, recent.order, id, own)
  BY <1>3, <1>7, NewRecentIs
<1>9. r.ok = TRUE /\ t = IF i = 0 THEN Append(blocks, next) ELSE [blocks EXCEPT ![i] = next]
  <2>1. next = NewRecent(TheRecent(blocks), id, own, posts)
    BY <1>2, <1>3
  <2>2. r.ok = TRUE /\ PutRecent(r.blocks, blocks, next)
    BY <2>1, ReceivedNewPostIs
  <2> QED
    BY <1>1, <1>4, <2>2 DEF PutRecent
<1>10. CASE i = 0
  <2>1. t = Append(blocks, next)
    BY <1>9, <1>10
  <2>2. AllSound(t, v) /\ EmptyIsRecent(t) /\ ShowsMore(t, blocks, ToSet(next.order))
    BY <1>8, <2>1, AppendSound
  <2>3. /\ Len(t) = Len(blocks) + 1 /\ t[Len(t)] = next /\ \A j \in DOMAIN blocks : t[j] = blocks[j]
        /\ DOMAIN t = 1 .. Len(t)
    <3>1. next \in BlockType(v.has)
      BY <1>8 DEF Sound
    <3> QED
      BY <1>5, <2>1, <3>1
  <2>4. RecentBlock(t) = Len(t)
    <3>1. t \in Seq(BlockType(v.has))
      BY <2>2 DEF AllSound
    <3>2. PICK k : k = RecentBlock(t)
      OBVIOUS
    <3>3. /\ k = 0 => \A j \in DOMAIN t : ~t[j].recent
          /\ k # 0 => k \in DOMAIN t /\ t[k].recent
      BY <3>1, <3>2, RecentBlockIs
    <3>4. Len(t) \in DOMAIN t /\ t[Len(t)].recent
      BY <1>5, <1>8, <2>3
    <3>5. \A j \in DOMAIN t : j # Len(t) => j \in DOMAIN blocks /\ ~t[j].recent
      BY <1>5, <1>6, <1>10, <2>3
    <3> QED
      BY <3>2, <3>3, <3>4, <3>5
  <2>5. RecentOrder(t) = next.order
    BY <1>5, <2>3, <2>4 DEF RecentOrder
  <2>6. StraysIn(t) => StraysIn(blocks)
    BY <1>1, <1>5, <1>10, <2>3, <2>4 DEF StraysIn
  <2>7. Shows(t) = Shows(blocks) \cup ToSet(next.order)
    BY <2>2 DEF ShowsMore
  <2>8. ToSet(recent.order) = {}
    BY <1>1, <1>7, <1>10 DEF RecentOrder, ToSet
  <2>9. ShowsNew(t, blocks, id, own)
    BY <1>7, <1>8, <2>5, <2>6, <2>7, <2>8 DEF ShowsNew, Renews
  <2> QED
    BY <1>4, <1>9, <2>2, <2>9
<1>11. CASE i # 0
  <2>1. t = [blocks EXCEPT ![i] = next] /\ i \in DOMAIN blocks /\ blocks[i].recent
    BY <1>6, <1>9, <1>11
  <2>2. /\ AllSound(t, v) /\ Swapped(t, blocks, i, next) /\ ShowsSwapped(t, blocks, i, next)
        /\ EmptyIsRecent(t)
    BY <1>8, <2>1, UpdateSound
  <2>3. RecentBlock(t) = i
    <3>1. \A j \in 1 .. Len(blocks) : t[j].recent <=> blocks[j].recent
      BY <1>5, <1>8, <2>1, <2>2 DEF Swapped
    <3>2. Len(t) = Len(blocks)
      BY <2>2 DEF Swapped
    <3> QED
      BY <1>1, <3>1, <3>2, RecentBlockKept
  <2>4. RecentOrder(t) = next.order
    BY <1>11, <2>2, <2>3 DEF RecentOrder, Swapped
  <2>5. StraysIn(t) => StraysIn(blocks)
    BY <1>1, <2>2, <2>3 DEF StraysIn, Swapped
  <2>6. blocks[i] = recent
    BY <1>1, <1>2, <1>11 DEF TheRecent
  <2>7. ToSet(recent.order) \subseteq Shows(blocks)
    <3>1. recent \in ToSet(blocks)
      BY <1>5, <2>1, <2>6, SeqFacts
    <3> QED
      BY <3>1 DEF Shows
  <2>8. ShowsNew(t, blocks, id, own)
    BY <1>7, <1>8, <2>2, <2>4, <2>5, <2>6, <2>7 DEF ShowsNew, Renews, ShowsSwapped
  <2> QED
    BY <1>4, <1>9, <2>2, <2>8
<1> QED
  BY <1>10, <1>11


-----------------------------------------------------------------------------
\* The pending post is replaced by its post, or removed.

\* What the blocks t show, once the pending id is not in the recent block of s
ShowsReplaced(t, s, id) ==
    /\ Shows(t) \subseteq Shows(s) \cup {id}
    /\ Shows(s) \ {PendingId} \subseteq Shows(t)
    /\ PendingId \notin ToSet(RecentOrder(t))
    /\ StraysIn(t) => StraysIn(s)
Takes(t, s, k, id) == ToSet(t) = (ToSet(s) \ {s[k]}) \cup {id}

LEMMA PlaceTaken ==
    ASSUME NEW ids, NEW s \in Seq(ids), NEW own, Once(s, own), NEW k \in DOMAIN s, s[k] \notin own,
           NEW id \in ids \cap own, NEW t, t = [s EXCEPT ![k] = id]
    PROVE  t \in Seq(ids) /\ Once(t, own) /\ Takes(t, s, k, id)
<1>1. t \in Seq(ids) /\ DOMAIN t = DOMAIN s /\ t[k] = id /\ \A j \in DOMAIN s : j # k => t[j] = s[j]
  OBVIOUS
<1>2. Once(t, own)
  BY <1>1 DEF Once
<1>3. \A j \in DOMAIN s : j # k => s[j] # s[k]
  BY DEF Once
<1>4. \A x : x \in ToSet(t) <=> x \in (ToSet(s) \ {s[k]}) \cup {id}
  BY <1>1, <1>3 DEF ToSet
<1> QED
  BY <1>1, <1>2, <1>4 DEF Takes

LEMMA ReplacePendingIs ==
    ASSUME NEW v, IsView(v), PendingId \notin v.own, NEW id \in v.has \cap v.own,
           PendingId \in v.ids => v.at[PendingId] <= v.at[id], id # PendingId,
           NEW blocks, AllSound(blocks, v), EmptyIsRecent(blocks),
           NEW t, t = ReplacePending(blocks, id)
    PROVE  AllSound(t, v) /\ EmptyIsRecent(t) /\ ShowsReplaced(t, blocks, id)
<1>1. PICK i : i = RecentBlock(blocks)
  OBVIOUS
<1>2. blocks \in Seq(BlockType(v.has)) /\ DOMAIN blocks = 1 .. Len(blocks)
  BY DEF AllSound
<1>3. i # 0 => i \in DOMAIN blocks /\ blocks[i].recent
  BY <1>1, <1>2, RecentBlockIs
<1>4. CASE i = 0 \/ PendingId \notin ToSet(RecentOrder(blocks))
  <2>1. t = blocks
    <3>1. CASE i = 0
      BY <1>1, <3>1 DEF ReplacePending
    <3>2. CASE i # 0
      <4>1. PendingId \notin ToSet(blocks[i].order)
        BY <1>1, <1>4, <3>2 DEF RecentOrder
      <4>2. blocks[i].order \in Seq(v.has)
        <5>1. blocks[i] \in BlockType(v.has)
          BY <1>2, <1>3, <3>2
        <5> QED
          BY <5>1 DEF BlockType
      <4>3. {k \in 1 .. Len(blocks[i].order) : blocks[i].order[k] = PendingId} = {}
        BY <4>1, <4>2 DEF ToSet
      <4>4. SelectInSeq(blocks[i].order, LAMBDA x : x = PendingId) = 0
        BY <4>3 DEF SelectInSeq
      <4> QED
        BY <1>1, <3>2, <4>4 DEF ReplacePending
    <3> QED
      BY <3>1, <3>2
  <2>2. PendingId \notin ToSet(RecentOrder(blocks))
    BY <1>1, <1>4 DEF RecentOrder, ToSet
  <2> QED
    BY <2>1, <2>2 DEF ShowsReplaced
<1>5. CASE i # 0 /\ PendingId \in ToSet(RecentOrder(blocks))
  <2>1. PICK b : b = blocks[i]
    OBVIOUS
  <2>2. /\ Sound(b, v) /\ b \in BlockType(v.has) /\ b.order \in Seq(v.has) /\ Once(b.order, v.own)
        /\ b.recent = TRUE /\ b.oldest \in BOOLEAN
    <3>1. b \in ToSet(blocks)
      BY <1>2, <1>3, <1>5, <2>1, SeqFacts
    <3>2. Sound(b, v)
      BY <3>1 DEF AllSound
    <3> QED
      BY <1>3, <1>5, <2>1, <3>2 DEF Sound, BlockType
  <2>3. RecentOrder(blocks) = b.order
    BY <1>1, <1>5, <2>1 DEF RecentOrder
  <2> DEFINE K == {k \in 1 .. Len(b.order) : b.order[k] = PendingId}
  <2>4. K # {} /\ K \in SUBSET Nat
    BY <1>5, <2>2, <2>3 DEF ToSet
  <2>5. PICK k : k = Min(K)
    OBVIOUS
  <2>6. k \in K
    BY <2>4, <2>5, MinOf
  <2>7. k \in DOMAIN b.order /\ b.order[k] = PendingId /\ k # 0
    BY <2>2, <2>6
  <2>8. t = [blocks EXCEPT ![i].order[k] = id]
    BY <1>1, <1>5, <2>1, <2>4, <2>5, <2>7 DEF ReplacePending, SelectInSeq
  <2> HIDE DEF K
  <2>9. PICK order : order = [b.order EXCEPT ![k] = id]
    OBVIOUS
  <2>10. PICK c : c = [b EXCEPT !.order = order]
    OBVIOUS
  <2>11. t = [blocks EXCEPT ![i] = c]
    BY <1>2, <1>3, <1>5, <2>1, <2>8, <2>9, <2>10
  <2>12. order \in Seq(v.has) /\ Once(order, v.own) /\ ToSet(order) = (ToSet(b.order) \ {PendingId}) \cup {id}
    <3>1. b.order[k] \notin v.own
      BY <2>7
    <3>2. PICK s : s = b.order
      OBVIOUS
    <3>3. s \in Seq(v.has) /\ Once(s, v.own) /\ k \in DOMAIN s /\ s[k] \notin v.own
      BY <2>2, <2>7, <3>1, <3>2
    <3>4. order = [s EXCEPT ![k] = id]
      BY <2>9, <3>2
    <3>5. order \in Seq(v.has) /\ Once(order, v.own) /\ Takes(order, s, k, id)
      BY <3>3, <3>4, PlaceTaken
    <3> QED
      BY <2>7, <3>2, <3>5 DEF Takes
  <2>13. c \in BlockType(v.has) /\ c.order = order /\ c.recent = TRUE /\ c.oldest = b.oldest
    BY <2>2, <2>10, <2>12 DEF BlockType
  <2>14. PendingId \in ToSet(b.order) /\ PendingId \in v.ids /\ id \in v.ids
    BY <1>5, <2>2, <2>3, SeqFacts DEF IsView
  <2>15. \A p \in v.live : Spans(c, v, p) => Spans(b, v, p)
    <3>1. v.at[PendingId] \in Nat /\ v.at[id] \in Nat /\ \A p \in v.live : v.at[p] \in Nat
      BY <2>14 DEF IsView
    <3>2. \A p \in v.live : v.at[id] <= v.at[p] => v.at[PendingId] <= v.at[p]
      BY <2>14, <3>1
    <3> QED
      BY <2>2, <2>12, <2>13, <2>14, <3>2 DEF Spans
  <2>16. Sound(c, v)
    BY <2>2, <2>12, <2>13, <2>15 DEF Sound
  <2>17. c.order # << >>
    <3>1. id \in ToSet(order)
      BY <2>12
    <3>2. order # << >>
      BY <2>12, <3>1, SeqFacts
    <3> QED
      BY <2>13, <3>2
  <2>18. /\ AllSound(t, v) /\ Swapped(t, blocks, i, c) /\ ShowsSwapped(t, blocks, i, c)
         /\ EmptyIsRecent(t)
    BY <1>3, <1>5, <2>11, <2>16, <2>17, UpdateSound
  <2>19. RecentBlock(t) = i
    <3>1. Len(t) = Len(blocks) /\ \A j \in 1 .. Len(blocks) : t[j].recent <=> blocks[j].recent
      BY <1>2, <1>3, <1>5, <2>13, <2>18 DEF Swapped
    <3> QED
      BY <1>1, <3>1, RecentBlockKept
  <2>20. RecentOrder(t) = order
    BY <1>5, <2>13, <2>18, <2>19 DEF RecentOrder, Swapped
  <2>21. StraysIn(t) => StraysIn(blocks)
    BY <1>1, <2>18, <2>19 DEF StraysIn, Swapped
  <2>22. ToSet(b.order) \subseteq Shows(blocks)
    <3>1. b \in ToSet(blocks)
      BY <1>2, <1>3, <1>5, <2>1, SeqFacts
    <3> QED
      BY <3>1 DEF Shows
  <2>23. ShowsReplaced(t, blocks, id)
    BY <2>1, <2>12, <2>13, <2>18, <2>20, <2>21, <2>22 DEF ShowsReplaced, ShowsSwapped
  <2> QED
    BY <2>18, <2>23
<1> QED
  BY <1>4, <1>5


LEMMA DropIs ==
    ASSUME NEW v, NEW blocks, AllSound(blocks, v), NEW t, t = DropEmpty(blocks)
    PROVE  AllSound(t, v) /\ EmptyIsRecent(t) /\ Shows(t) = Shows(blocks)
<1>1. blocks \in Seq(BlockType(v.has)) /\ \A b \in ToSet(blocks) : Sound(b, v)
  BY DEF AllSound
<1>2. t = Only(blocks, Dropped(blocks))
  BY DEF DropEmpty, Dropped
<1>3. t \in Seq(BlockType(v.has)) /\ ToSet(t) = ToSet(blocks) \cap Dropped(blocks)
  BY <1>1, <1>2, OnlyIs
<1>4. AllSound(t, v)
  BY <1>1, <1>3 DEF AllSound
<1>5. EmptyIsRecent(t)
  BY <1>3 DEF EmptyIsRecent, Dropped
<1>6. \A b \in ToSet(blocks) : b \notin Dropped(blocks) => ToSet(b.order) = {}
  BY DEF Dropped, ToSet
<1>7. \A x : x \in Shows(t) <=> x \in Shows(blocks)
  BY <1>3, <1>6 DEF Shows
<1> QED
  BY <1>4, <1>5, <1>7

LEMMA RemovedIs ==
    ASSUME NEW v, NEW blocks, AllSound(blocks, v), EmptyIsRecent(blocks),
           NEW t, t = Removed(blocks, PendingId)
    PROVE  /\ AllSound(t, v) /\ EmptyIsRecent(t) /\ Shows(t) = Shows(blocks) \ {PendingId}
           /\ ~StraysIn(t) /\ PendingId \notin ToSet(RecentOrder(t))
<1> DEFINE Less(b) == [b EXCEPT !.order = Only(@, ToSet(@) \ {PendingId})]
           less == [i \in DOMAIN blocks |-> [blocks[i] EXCEPT !.order = Only(@, ToSet(@) \ {PendingId})]]
<1>1. blocks \in Seq(BlockType(v.has)) /\ \A b \in ToSet(blocks) : Sound(b, v)
  BY DEF AllSound
<1>2. ASSUME NEW b \in ToSet(blocks), NEW c, c = Less(b)
      PROVE  Sound(c, v) /\ ToSet(c.order) = ToSet(b.order) \ {PendingId}
  <2>1. b \in BlockType(v.has) /\ b.order \in Seq(v.has) /\ Once(b.order, v.own) /\ Sound(b, v)
    BY <1>1 DEF Sound, BlockType
  <2>2. PICK order : order = Only(b.order, ToSet(b.order) \ {PendingId})
    OBVIOUS
  <2>3. /\ order \in Seq(v.has) /\ Once(order, v.own)
        /\ ToSet(order) = ToSet(b.order) \cap (ToSet(b.order) \ {PendingId})
    <3>1. PICK A : A = ToSet(b.order) \ {PendingId}
      OBVIOUS
    <3>2. order = Only(b.order, A)
      BY <2>2, <3>1
    <3>3. /\ order \in Seq(v.has) /\ ToSet(order) = ToSet(b.order) \cap A
          /\ \A own : Once(b.order, own) => Once(order, own)
      BY <2>1, <3>2, OnlyIs
    <3> QED
      BY <2>1, <3>1, <3>3
  <2>4. c = [b EXCEPT !.order = order]
    BY <1>2, <2>2
  <2>5. c \in BlockType(v.has) /\ c.order = order /\ c.recent = b.recent /\ c.oldest = b.oldest
    BY <2>1, <2>3, <2>4 DEF BlockType
  <2>6. ToSet(c.order) \subseteq ToSet(b.order) /\ Once(c.order, v.own)
    BY <2>3, <2>5
  <2>7. Sound(c, v)
    BY <2>1, <2>5, <2>6, PartIsSound
  <2> QED
    BY <2>3, <2>5, <2>7
<1>3. DOMAIN less = DOMAIN blocks /\ \A i \in DOMAIN blocks : less[i] = Less(blocks[i])
  OBVIOUS
<1>4. t = IF less = blocks THEN blocks ELSE DropEmpty(less)
  BY DEF Removed
<1> HIDE DEF less, Less
<1>5. \A i \in DOMAIN blocks : blocks[i] \in ToSet(blocks)
  BY DEF ToSet
<1>6. \A i \in DOMAIN blocks : less[i] \in BlockType(v.has)
  BY <1>2, <1>3, <1>5 DEF Sound
<1>7. less \in Seq(BlockType(v.has))
  <2>1. PICK n \in Nat : DOMAIN blocks = 1 .. n
    BY <1>1
  <2>2. less = [i \in 1 .. n |-> less[i]]
    BY <1>3, <2>1 DEF less
  <2>3. [i \in 1 .. n |-> less[i]] \in Seq(BlockType(v.has))
    BY <1>6, <2>1
  <2> QED
    BY <2>2, <2>3
<1>8. AllSound(less, v)
  <2>1. \A c \in ToSet(less) : \E i \in DOMAIN blocks : c = less[i]
    BY <1>3 DEF ToSet
  <2>2. \A c \in ToSet(less) : Sound(c, v)
    BY <1>2, <1>3, <1>5, <2>1
  <2> QED
    BY <1>7, <2>2 DEF AllSound
<1>9. Shows(less) = Shows(blocks) \ {PendingId}
  <2>1. \A x : x \in Shows(less) <=> \E i \in DOMAIN blocks : x \in ToSet(less[i].order)
    BY <1>3 DEF Shows, ToSet
  <2>2. \A x : x \in Shows(blocks) <=> \E i \in DOMAIN blocks : x \in ToSet(blocks[i].order)
    BY DEF Shows, ToSet
  <2>3. \A i \in DOMAIN blocks : ToSet(less[i].order) = ToSet(blocks[i].order) \ {PendingId}
    BY <1>2, <1>3, <1>5
  <2>4. ASSUME NEW x PROVE x \in Shows(less) <=> x \in Shows(blocks) \ {PendingId}
    <3>1. \A i \in DOMAIN blocks :
              x \in ToSet(less[i].order) <=> x \in ToSet(blocks[i].order) /\ x # PendingId
      BY <2>3
    <3>2. x \in Shows(less) <=> \E i \in DOMAIN blocks : x \in ToSet(blocks[i].order) /\ x # PendingId
      BY <2>1, <3>1
    <3>3. x \in Shows(blocks) <=> \E i \in DOMAIN blocks : x \in ToSet(blocks[i].order)
      BY <2>2
    <3> QED
      BY <3>2, <3>3
  <2> QED
    BY <2>4
<1>10. AllSound(t, v) /\ EmptyIsRecent(t) /\ Shows(t) = Shows(blocks) \ {PendingId}
  <2>1. CASE less = blocks
    BY <1>4, <1>9, <2>1
  <2>2. CASE less # blocks
    <3>1. t = DropEmpty(less)
      BY <1>4, <2>2
    <3>2. AllSound(t, v) /\ EmptyIsRecent(t) /\ Shows(t) = Shows(less)
      BY <1>8, <3>1, DropIs
    <3> QED
      BY <1>9, <3>2
  <2> QED
    BY <2>1, <2>2
<1>11. t \in Seq(BlockType(v.has)) /\ \A i \in DOMAIN t : PendingId \notin ToSet(t[i].order)
  <2>1. t \in Seq(BlockType(v.has))
    BY <1>10 DEF AllSound
  <2>2. \A i \in DOMAIN t : t[i] \in ToSet(t)
    BY DEF ToSet
  <2>3. PendingId \notin Shows(t)
    BY <1>10
  <2>4. \A b \in ToSet(t) : PendingId \notin ToSet(b.order)
    BY <2>3 DEF Shows
  <2> QED
    BY <2>1, <2>2, <2>4
<1>12. ~StraysIn(t)
  BY <1>11 DEF StraysIn, Has
<1>13. PendingId \notin ToSet(RecentOrder(t))
  <2>1. PICK i : i = RecentBlock(t)
    OBVIOUS
  <2>2. i # 0 => i \in DOMAIN t
    BY <1>11, <2>1, RecentBlockIs
  <2>3. ToSet(<< >>) = {}
    BY DEF ToSet
  <2> QED
    BY <1>11, <2>1, <2>2, <2>3 DEF RecentOrder
<1> QED
  BY <1>10, <1>12, <1>13


-----------------------------------------------------------------------------
\* An end of the channel is reached.

Bottoms(id, v) == \A p \in v.live : v.at[p] <= v.at[id] => p \in v.sure
AllSure(v) == v.live \subseteq v.sure
SameShown(t, s) == Shows(t) = Shows(s)
SameOrder(c, b) == c.order = b.order /\ (b.recent => c.recent)
Flagged(blocks, i, flag) == [blocks EXCEPT ![i][flag] = TRUE]

\* A block gets a flag.
LEMMA FlagSound ==
    ASSUME NEW v, NEW blocks, AllSound(blocks, v), NEW i \in DOMAIN blocks,
           EmptyIsRecent(blocks), NEW b, b = blocks[i],
           NEW c, Sound(c, v), SameOrder(c, b),
           NEW t, t = [blocks EXCEPT ![i] = c]
    PROVE  AllSound(t, v) /\ SameShown(t, blocks) /\ EmptyIsRecent(t)
<1>1. AllSound(t, v) /\ ShowsSwapped(t, blocks, i, c)
  BY UpdateSound
<1>2. b \in ToSet(blocks)
  BY DEF ToSet
<1>3. SameShown(t, blocks)
  <2>1. ToSet(c.order) \subseteq Shows(blocks)
    BY <1>2 DEF Shows, SameOrder
  <2> QED
    BY <1>1, <2>1 DEF ShowsSwapped, SameOrder, SameShown
<1>4. EmptyIsRecent(t)
  <2>1. c.order = << >> => c.recent
    BY <1>2 DEF EmptyIsRecent, SameOrder
  <2> QED
    BY <2>1, UpdateSound
<1> QED
  BY <1>1, <1>3, <1>4

LEMMA MarkBoundaryIs ==
    ASSUME NEW v, IsView(v), NEW blocks, AllSound(blocks, v), EmptyIsRecent(blocks),
           NEW anchor, NEW flag \in {"recent", "oldest"},
           flag = "recent" => Tops(anchor, v), flag = "oldest" => Bottoms(anchor, v),
           NEW t, t = MarkBoundary(blocks, anchor, flag)
    PROVE  AllSound(t, v) /\ EmptyIsRecent(t) /\ SameShown(t, blocks)
<1>1. PICK i : i = HoldingBlock(blocks, anchor)
  OBVIOUS
<1>2. t = IF i = 0 THEN blocks ELSE [blocks EXCEPT ![i][flag] = TRUE]
  BY <1>1 DEF MarkBoundary, HoldingBlock
<1>3. blocks \in Seq(BlockType(v.has)) /\ \A b \in ToSet(blocks) : Sound(b, v)
  BY DEF AllSound
<1>4. i # 0 => i \in DOMAIN blocks /\ Has(blocks[i], anchor)
  BY <1>1, <1>3, HoldingBlockIs
<1>5. CASE i # 0
  <2>1. PICK b : b = blocks[i]
    OBVIOUS
  <2>2. /\ Sound(b, v) /\ b \in BlockType(v.has) /\ b.order \in Seq(v.has) /\ Once(b.order, v.own)
        /\ b.recent \in BOOLEAN /\ b.oldest \in BOOLEAN /\ anchor \in ToSet(b.order)
    <3>1. b \in ToSet(blocks)
      BY <1>4, <1>5, <2>1 DEF ToSet
    <3> QED
      BY <1>3, <1>4, <1>5, <2>1, <3>1 DEF Sound, BlockType, Has
  <2>3. PICK c : c = [b EXCEPT ![flag] = TRUE]
    OBVIOUS
  <2>4. t = [blocks EXCEPT ![i] = c]
    BY <1>2, <1>5, <2>1, <2>3
  <2>5. anchor \in v.ids /\ \A p \in v.live : v.at[p] \in Nat /\ v.at[anchor] \in Nat
    BY <2>2, SeqFacts DEF IsView
  <2>6. Sound(c, v) /\ SameOrder(c, b)
    <3>1. CASE flag = "recent"
      <4>1. c \in BlockType(v.has) /\ c.order = b.order /\ c.recent = TRUE /\ c.oldest = b.oldest
        BY <2>2, <2>3, <3>1 DEF BlockType
      <4>2. \A p \in v.live : Spans(c, v, p) => Spans(b, v, p) \/ v.at[anchor] <= v.at[p]
        BY <2>2, <2>5, <4>1 DEF Spans
      <4>3. Sound(c, v)
        BY <2>2, <3>1, <4>1, <4>2 DEF Sound, Tops
      <4> QED
        BY <4>1, <4>3 DEF SameOrder
    <3>2. CASE flag = "oldest"
      <4>1. c \in BlockType(v.has) /\ c.order = b.order /\ c.recent = b.recent /\ c.oldest = TRUE
        BY <2>2, <2>3, <3>2 DEF BlockType
      <4>2. \A p \in v.live : Spans(c, v, p) => Spans(b, v, p) \/ v.at[p] <= v.at[anchor]
        BY <2>2, <2>5, <4>1 DEF Spans
      <4>3. Sound(c, v)
        BY <2>2, <3>2, <4>1, <4>2 DEF Sound, Bottoms
      <4> QED
        BY <4>1, <4>3 DEF SameOrder
    <3> QED
      BY <3>1, <3>2
  <2> QED
    BY <1>4, <1>5, <2>1, <2>4, <2>6, FlagSound
<1> QED
  BY <1>2, <1>5 DEF SameShown

\* Only a block that shows the post is marked.
LEMMA MarkBoundaryCases ==
    ASSUME NEW S, NEW blocks \in Seq(S), NEW anchor, NEW flag
    PROVE  MarkBoundary(blocks, anchor, flag) = blocks \/ anchor \in Shows(blocks)
<1>1. PICK i : i = HoldingBlock(blocks, anchor)
  OBVIOUS
<1>2. i = 0 => MarkBoundary(blocks, anchor, flag) = blocks
  BY <1>1 DEF MarkBoundary, HoldingBlock
<1>3. i # 0 => i \in DOMAIN blocks /\ Has(blocks[i], anchor)
  BY <1>1, HoldingBlockIs
<1>4. i # 0 => blocks[i] \in ToSet(blocks) /\ anchor \in ToSet(blocks[i].order)
  BY <1>3 DEF ToSet, Has
<1> QED
  BY <1>2, <1>4 DEF Shows

\* With all posts accounted for, a flag at any place keeps the blocks sound.
LEMMA AnyFlagSound ==
    ASSUME NEW v, AllSure(v), NEW blocks, AllSound(blocks, v), EmptyIsRecent(blocks),
           NEW i, NEW flag \in {"recent", "oldest"},
           NEW t, t = Flagged(blocks, i, flag)
    PROVE  AllSound(t, v) /\ EmptyIsRecent(t) /\ SameShown(t, blocks)
<1>1. blocks \in Seq(BlockType(v.has)) /\ \A b \in ToSet(blocks) : Sound(b, v)
  BY DEF AllSound
<1>2. CASE i \in DOMAIN blocks
  <2>1. PICK b : b = blocks[i]
    OBVIOUS
  <2>2. b \in BlockType(v.has) /\ Once(b.order, v.own)
    <3>1. b \in ToSet(blocks)
      BY <1>2, <2>1 DEF ToSet
    <3> QED
      BY <1>1, <3>1 DEF Sound
  <2>3. PICK c : c = [b EXCEPT ![flag] = TRUE]
    OBVIOUS
  <2>4. t = [blocks EXCEPT ![i] = c]
    BY <1>2, <2>1, <2>3 DEF Flagged
  <2>5. c \in BlockType(v.has) /\ c.order = b.order /\ SameOrder(c, b)
    <3>1. CASE flag = "recent"
      BY <2>2, <2>3, <3>1 DEF BlockType, SameOrder
    <3>2. CASE flag = "oldest"
      BY <2>2, <2>3, <3>2 DEF BlockType, SameOrder
    <3> QED
      BY <3>1, <3>2
  <2>6. Sound(c, v)
    BY <2>2, <2>5 DEF Sound, AllSure
  <2> QED
    BY <1>2, <2>1, <2>4, <2>5, <2>6, FlagSound
<1>3. CASE i \notin DOMAIN blocks
  <2>1. t = blocks
    BY <1>1, <1>3 DEF Flagged
  <2> QED
    BY <2>1 DEF SameShown
<1> QED
  BY <1>2, <1>3

LEMMA MarkExtremeIs ==
    ASSUME NEW blocks, NEW posts
    PROVE  /\ \/ MarkNewest(blocks, posts) = blocks
              \/ \E i : MarkNewest(blocks, posts) = Flagged(blocks, i, "recent")
           /\ \/ MarkOldest(blocks, posts) = blocks
              \/ \E i : MarkOldest(blocks, posts) = Flagged(blocks, i, "oldest")
BY DEF MarkNewest, MarkOldest, MarkExtreme, Flagged

LEMMA MarkedSound ==
    ASSUME NEW v, AllSure(v), NEW blocks, AllSound(blocks, v), EmptyIsRecent(blocks), NEW posts,
           NEW t, t \in {MarkNewest(blocks, posts), MarkOldest(blocks, posts)}
    PROVE  AllSound(t, v) /\ EmptyIsRecent(t) /\ SameShown(t, blocks)
<1>1. CASE t = MarkNewest(blocks, posts)
  <2>1. CASE t = blocks
    BY <2>1 DEF SameShown
  <2>2. CASE \E i : t = Flagged(blocks, i, "recent")
    <3>1. PICK i : t = Flagged(blocks, i, "recent")
      BY <2>2
    <3> QED
      BY <3>1, AnyFlagSound
  <2> QED
    BY <1>1, <2>1, <2>2, MarkExtremeIs
<1>2. CASE t = MarkOldest(blocks, posts)
  <2>1. CASE t = blocks
    BY <2>1 DEF SameShown
  <2>2. CASE \E i : t = Flagged(blocks, i, "oldest")
    <3>1. PICK i : t = Flagged(blocks, i, "oldest")
      BY <2>2
    <3> QED
      BY <3>1, AnyFlagSound
  <2> QED
    BY <1>2, <2>1, <2>2, MarkExtremeIs
<1> QED
  BY <1>1, <1>2


-----------------------------------------------------------------------------
\* What a page does to the blocks: they show what they did, and the posts the page
\* tells, and nothing but that and the page.

Handled(r, blocks, v, told, more) ==
    /\ r.ok \in BOOLEAN
    /\ r.ok => /\ AllSound(r.blocks, v) /\ EmptyIsRecent(r.blocks)
               /\ Shows(blocks) \cup told \subseteq Shows(r.blocks)
               /\ Shows(r.blocks) \subseteq Shows(blocks) \cup more

LEMMA OkIs == \A x : Ok(x).ok = TRUE /\ Ok(x).blocks = x /\ Throws(x).ok = FALSE
BY DEF Ok, Throws

LEMMA NothingToDo ==
    ASSUME NEW v, NEW blocks, AllSound(blocks, v), EmptyIsRecent(blocks), NEW more, NEW told,
           told \subseteq Shows(blocks)
    PROVE  Handled(Ok(blocks), blocks, v, told, more)
BY OkIs DEF Handled

LEMMA SameIsHandled ==
    ASSUME NEW v, NEW blocks, NEW t, AllSound(t, v), EmptyIsRecent(t), SameShown(t, blocks),
           NEW more
    PROVE  Handled(Ok(t), blocks, v, {}, more)
BY OkIs DEF Handled, SameShown

LEMMA ThrowsIsHandled ==
    ASSUME NEW v, NEW blocks, NEW t, NEW told, NEW more
    PROVE  Handled(Throws(t), blocks, v, told, more)
BY OkIs DEF Handled

LEMMA MergedIsHandled ==
    ASSUME NEW v, IsView(v), NEW posts, Agrees(posts, v),
           NEW blocks, NEW s, AllSound(s, v), SameShown(s, blocks),
           NEW b, Sound(b, v), b.order # << >> \/ b.recent = TRUE,
           NEW told, told \subseteq ToSet(b.order),
           NEW more, ToSet(b.order) \subseteq more,
           NEW r, r = MergeBlocks(Append(s, b), posts)
    PROVE  Handled(r, blocks, v, told, more)
<1>1. PICK t : t = Append(s, b)
  OBVIOUS
<1>2. b \in BlockType(v.has)
  BY DEF Sound
<1>3. s \in Seq(BlockType(v.has)) /\ \A x \in ToSet(s) : Sound(x, v)
  BY DEF AllSound
<1>4. t \in Seq(BlockType(v.has)) /\ ToSet(t) = ToSet(s) \cup {b}
  BY <1>1, <1>2, <1>3, AppendIs
<1>5. AllSound(t, v)
  BY <1>3, <1>4 DEF AllSound
<1>6. ShowsMore(t, s, ToSet(b.order))
  BY <1>4, ShowsOneMore
<1>7. Dropped(t) # {}
  BY <1>4 DEF Dropped
<1>8. r = MergeBlocks(t, posts)
  BY <1>1
<1>9. r.ok \in BOOLEAN /\ (r.ok => /\ AllSound(r.blocks, v) /\ EmptyIsRecent(r.blocks)
                                  /\ ShowsMore(r.blocks, t, {}))
  BY <1>5, <1>7, <1>8, MergeIsSound
<1> QED
  BY <1>6, <1>9 DEF Handled, ShowsMore, SameShown

LEMMA UnmarkedSound ==
    ASSUME NEW v, NEW blocks, AllSound(blocks, v), NEW i \in DOMAIN blocks,
           NEW t, t = [blocks EXCEPT ![i].recent = FALSE]
    PROVE  AllSound(t, v) /\ SameShown(t, blocks)
<1>1. PICK b : b = blocks[i]
  OBVIOUS
<1>2. PICK c : c = [b EXCEPT !.recent = FALSE]
  OBVIOUS
<1>3. b \in ToSet(blocks) /\ Sound(b, v)
  <2>1. b \in ToSet(blocks)
    BY <1>1 DEF ToSet
  <2> QED
    BY <2>1 DEF AllSound
<1>4. b \in BlockType(v.has) /\ Once(b.order, v.own)
  BY <1>3 DEF Sound
<1>5. c \in BlockType(v.has) /\ c.order = b.order /\ c.recent = FALSE /\ c.oldest = b.oldest
  BY <1>2, <1>4 DEF BlockType
<1>6. Once(c.order, v.own) /\ ToSet(c.order) \subseteq ToSet(b.order) /\ (c.recent => b.recent)
      /\ (c.oldest => b.oldest)
  BY <1>4, <1>5
<1>7. Sound(c, v)
  BY <1>3, <1>5, <1>6, PartIsSound
<1>8. t = [blocks EXCEPT ![i] = c]
  BY <1>1, <1>2
<1>9. AllSound(t, v) /\ ShowsSwapped(t, blocks, i, c)
  BY <1>7, <1>8, UpdateSound
<1>10. ToSet(b.order) \subseteq Shows(blocks)
  BY <1>3 DEF Shows
<1> QED
  BY <1>1, <1>5, <1>9, <1>10 DEF ShowsSwapped, SameShown

\* What the blocks are told by a page of a channel
InChannelTells(loaded, blocks, page) ==
    IF Known(blocks, page) THEN {} ELSE ToSet(page.order)

LEMMA ReceivedInChannelIs ==
    ASSUME NEW v, IsView(v), NEW posts, Agrees(posts, v),
           NEW blocks, AllSound(blocks, v), EmptyIsRecent(blocks), NEW loaded,
           NEW page, page.recent \in BOOLEAN, page.oldest \in BOOLEAN,
           NEW b, b = Block(page.order, page.recent, page.oldest), Sound(b, v),
           page.order = << >> => page.recent /\ page.oldest,
           NEW r, r = ReceivedInChannel(loaded, blocks, page, posts)
    PROVE  Handled(r, blocks, v, InChannelTells(loaded, blocks, page), ToSet(page.order))
<1>1. PICK i : i = RecentBlock(blocks)
  OBVIOUS
<1>2. b.order = page.order /\ b.recent = page.recent /\ b.oldest = page.oldest
  BY DEF Block
<1>3. blocks \in Seq(BlockType(v.has))
  BY DEF AllSound
<1>4. i # 0 => i \in DOMAIN blocks
  BY <1>1, <1>3, RecentBlockIs
<1> DEFINE told == InChannelTells(loaded, blocks, page)
           more == ToSet(page.order)
<1>5. CASE page.order = << >> /\ loaded
  <2>1. PICK m : m = MarkNewest(blocks, posts)
    OBVIOUS
  <2>2. PICK t : t = MarkOldest(m, posts)
    OBVIOUS
  <2>3. AllSure(v)
    <3>1. \A p \in v.live : Spans(b, v, p)
      BY <1>2, <1>5 DEF Spans
    <3> QED
      BY <3>1 DEF AllSure, Sound
  <2>4. AllSound(m, v) /\ EmptyIsRecent(m) /\ SameShown(m, blocks)
    <3>1. m \in {MarkNewest(blocks, posts), MarkOldest(blocks, posts)}
      BY <2>1
    <3> QED
      BY <2>3, <3>1, MarkedSound
  <2>5. AllSound(t, v) /\ EmptyIsRecent(t) /\ SameShown(t, m)
    <3>1. t \in {MarkNewest(m, posts), MarkOldest(m, posts)}
      BY <2>2
    <3> QED
      BY <2>3, <2>4, <3>1, MarkedSound
  <2>6. SameShown(t, blocks)
    BY <2>4, <2>5 DEF SameShown
  <2>7. r = Ok(t)
    BY <1>5, <2>1, <2>2 DEF ReceivedInChannel
  <2>8. told = {}
    BY <1>5 DEF InChannelTells, ToSet
  <2> HIDE DEF told, more
  <2>9. Handled(Ok(t), blocks, v, {}, more)
    BY <2>5, <2>6, SameIsHandled
  <2> QED
    BY <2>7, <2>8, <2>9 DEF told, more
<1>6. CASE ~(page.order = << >> /\ loaded) /\ Known(blocks, page)
  <2>1. r = Ok(blocks)
    BY <1>6 DEF ReceivedInChannel
  <2>2. told = {}
    BY <1>6 DEF InChannelTells
  <2> HIDE DEF told, more
  <2>3. Handled(Ok(blocks), blocks, v, {}, more)
    BY NothingToDo
  <2> QED
    BY <2>1, <2>2, <2>3 DEF told, more
<1>7. CASE ~(page.order = << >> /\ loaded) /\ ~Known(blocks, page)
  <2>1. PICK s : s = IF page.recent /\ i # 0 THEN [blocks EXCEPT ![i].recent = FALSE] ELSE blocks
    OBVIOUS
  <2>2. r = MergeBlocks(Append(s, b), posts)
    BY <1>1, <1>7, <2>1 DEF ReceivedInChannel
  <2>3. AllSound(s, v) /\ SameShown(s, blocks)
    <3>1. CASE page.recent /\ i # 0
      BY <1>4, <2>1, <3>1, UnmarkedSound
    <3>2. CASE ~(page.recent /\ i # 0)
      BY <2>1, <3>2 DEF SameShown
    <3> QED
      BY <3>1, <3>2
  <2>4. b.order # << >> \/ b.recent = TRUE
    BY <1>2
  <2>5. told \subseteq ToSet(b.order) /\ ToSet(b.order) \subseteq more
    BY <1>2 DEF InChannelTells
  <2> HIDE DEF told, more
  <2> QED
    BY <2>2, <2>3, <2>4, <2>5, MergedIsHandled DEF told, more
<1> QED
  BY <1>5, <1>6, <1>7


LEMMA Under ==
    ASSUME NEW ids, NEW order \in Seq(ids), NEW id \in ids, NEW t, t = Append(order, id)
    PROVE  t \in Seq(ids) /\ t # << >> /\ Adds(t, order, id)
BY AppendIs DEF Adds

LEMMA Over ==
    ASSUME NEW ids, NEW order \in Seq(ids), NEW id \in ids, NEW t, t = <<id>> \o order
    PROVE  t \in Seq(ids) /\ t # << >> /\ Adds(t, order, id)
<1>1. PICK a : a = <<id>>
  OBVIOUS
<1>2. a \in Seq(ids) /\ ToSet(a) = {id} /\ Once(a, ids)
  BY <1>1 DEF ToSet, Once
<1>3. t = a \o order
  BY <1>1
<1>4. a \o order \in Seq(ids) /\ ToSet(a \o order) = ToSet(a) \cup ToSet(order)
  BY <1>2, ConcatIs
<1>5. t \in Seq(ids) /\ Adds(t, order, id)
  BY <1>2, <1>3, <1>4 DEF Adds
<1>6. id \in ToSet(t)
  BY <1>5 DEF Adds
<1> QED
  BY <1>5, <1>6, SeqFacts

\* What the blocks are told by a page after or before a post: the anchor too, unless the
\* page is empty
PageTells(page, anchor) == IF page.order = << >> THEN {} ELSE ToSet(page.order) \cup {anchor}

\* The block such a page makes
AfterBlock(page, anchor) == Block(Append(page.order, anchor), page.recent, FALSE)
BeforeBlock(page, anchor) == Block(<<anchor>> \o page.order, FALSE, page.oldest)

LEMMA ReceivedAfterIs ==
    ASSUME NEW v, IsView(v), NEW posts, Agrees(posts, v),
           NEW blocks, AllSound(blocks, v), EmptyIsRecent(blocks),
           NEW page, page.recent \in BOOLEAN, page.order \in Seq(v.has), NEW anchor \in v.has,
           NEW b, b = AfterBlock(page, anchor), Sound(b, v),
           NEW r, r = ReceivedAfter(blocks, page, anchor, posts)
    PROVE  Handled(r, blocks, v, PageTells(page, anchor), ToSet(page.order) \cup {anchor})
<1>1. /\ b.order = Append(page.order, anchor) /\ b.recent = page.recent /\ b.oldest = FALSE
  BY DEF Block, AfterBlock
<1>2. /\ ToSet(b.order) = ToSet(page.order) \cup {anchor} /\ b.order # << >>
  <2>1. PICK order, t : order = page.order /\ t = b.order
    OBVIOUS
  <2>2. order \in Seq(v.has) /\ t = Append(order, anchor)
    BY <1>1, <2>1
  <2>3. t # << >> /\ Adds(t, order, anchor)
    BY <2>2, Under
  <2> QED
    BY <2>1, <2>3 DEF Adds
<1> DEFINE told == PageTells(page, anchor)
           more == ToSet(page.order) \cup {anchor}
<1>3. CASE page.order # << >>
  <2>1. r = MergeBlocks(Append(blocks, b), posts)
    BY <1>3 DEF ReceivedAfter, AfterBlock
  <2>2. SameShown(blocks, blocks)
    BY DEF SameShown
  <2>3. told \subseteq ToSet(b.order) /\ ToSet(b.order) \subseteq more
    BY <1>2, <1>3 DEF PageTells
  <2> HIDE DEF told, more
  <2> QED
    BY <1>2, <2>1, <2>2, <2>3, MergedIsHandled DEF told, more
<1>4. CASE page.order = << >>
  <2>1. told = {}
    BY <1>4 DEF PageTells
  <2>2. ASSUME page.recent PROVE Tops(anchor, v)
    <3>1. \A p \in v.live : v.at[anchor] <= v.at[p] => Spans(b, v, p)
      BY <1>1, <1>2, <2>2 DEF Spans
    <3> QED
      BY <3>1 DEF Tops, Sound
  <2>3. PICK t : t = IF page.recent THEN MarkBoundary(blocks, anchor, "recent") ELSE blocks
    OBVIOUS
  <2>4. AllSound(t, v) /\ EmptyIsRecent(t) /\ SameShown(t, blocks)
    <3>1. CASE page.recent
      <4>1. PICK flag : flag = "recent"
        OBVIOUS
      <4>2. /\ flag \in {"recent", "oldest"} /\ (flag = "recent" => Tops(anchor, v))
            /\ (flag = "oldest" => Bottoms(anchor, v))
        BY <2>2, <3>1, <4>1
      <4>3. t = MarkBoundary(blocks, anchor, flag)
        BY <2>3, <3>1, <4>1
      <4> QED
        BY <4>2, <4>3, MarkBoundaryIs
    <3>2. CASE ~page.recent
      BY <2>3, <3>2 DEF SameShown
    <3> QED
      BY <3>1, <3>2
  <2>5. r = Ok(t)
    BY <1>4, <2>3 DEF ReceivedAfter
  <2> HIDE DEF told, more
  <2>6. Handled(Ok(t), blocks, v, {}, more)
    BY <2>4, SameIsHandled
  <2> QED
    BY <2>1, <2>5, <2>6 DEF told, more
<1> QED
  BY <1>3, <1>4

LEMMA ReceivedBeforeIs ==
    ASSUME NEW v, IsView(v), NEW posts, Agrees(posts, v),
           NEW blocks, AllSound(blocks, v), EmptyIsRecent(blocks),
           NEW page, page.oldest \in BOOLEAN, page.order \in Seq(v.has), NEW anchor \in v.has,
           NEW b, b = BeforeBlock(page, anchor), Sound(b, v),
           NEW r, r = ReceivedBefore(blocks, page, anchor, posts)
    PROVE  Handled(r, blocks, v, PageTells(page, anchor), ToSet(page.order) \cup {anchor})
<1>1. /\ b.order = <<anchor>> \o page.order /\ b.recent = FALSE /\ b.oldest = page.oldest
  BY DEF Block, BeforeBlock
<1>2. ToSet(b.order) = ToSet(page.order) \cup {anchor} /\ b.order # << >>
  <2>1. PICK order, t : order = page.order /\ t = b.order
    OBVIOUS
  <2>2. order \in Seq(v.has) /\ t = <<anchor>> \o order
    BY <1>1, <2>1
  <2>3. t # << >> /\ Adds(t, order, anchor)
    BY <2>2, Over
  <2> QED
    BY <2>1, <2>3 DEF Adds
<1> DEFINE told == PageTells(page, anchor)
           more == ToSet(page.order) \cup {anchor}
<1>3. CASE page.order # << >>
  <2>1. r = MergeBlocks(Append(blocks, b), posts)
    BY <1>3 DEF ReceivedBefore, BeforeBlock
  <2>2. SameShown(blocks, blocks)
    BY DEF SameShown
  <2>3. told \subseteq ToSet(b.order) /\ ToSet(b.order) \subseteq more
    BY <1>2, <1>3 DEF PageTells
  <2> HIDE DEF told, more
  <2> QED
    BY <1>2, <2>1, <2>2, <2>3, MergedIsHandled DEF told, more
<1>4. CASE page.order = << >>
  <2>1. told = {}
    BY <1>4 DEF PageTells
  <2>2. ASSUME page.oldest PROVE Bottoms(anchor, v)
    <3>1. \A p \in v.live : v.at[p] <= v.at[anchor] => Spans(b, v, p)
      BY <1>1, <1>2, <2>2 DEF Spans
    <3> QED
      BY <3>1 DEF Bottoms, Sound
  <2>3. PICK t : t = IF page.oldest THEN MarkBoundary(blocks, anchor, "oldest") ELSE blocks
    OBVIOUS
  <2>4. AllSound(t, v) /\ EmptyIsRecent(t) /\ SameShown(t, blocks)
    <3>1. CASE page.oldest
      <4>1. PICK flag : flag = "oldest"
        OBVIOUS
      <4>2. /\ flag \in {"recent", "oldest"} /\ (flag = "recent" => Tops(anchor, v))
            /\ (flag = "oldest" => Bottoms(anchor, v))
        BY <2>2, <3>1, <4>1
      <4>3. t = MarkBoundary(blocks, anchor, flag)
        BY <2>3, <3>1, <4>1
      <4> QED
        BY <4>2, <4>3, MarkBoundaryIs
    <3>2. CASE ~page.oldest
      BY <2>3, <3>2 DEF SameShown
    <3> QED
      BY <3>1, <3>2
  <2>5. r = Ok(t)
    BY <1>4, <2>3 DEF ReceivedBefore
  <2> HIDE DEF told, more
  <2>6. Handled(Ok(t), blocks, v, {}, more)
    BY <2>4, SameIsHandled
  <2> QED
    BY <2>1, <2>5, <2>6 DEF told, more
<1> QED
  BY <1>3, <1>4

\* The posts of a page since a time that go to the recent block
SinceTells(blocks, page, posts) ==
    {id \in ToSet(page.order) :
        /\ RecentOrder(blocks) # << >> /\ Stored(posts, id)
        /\ posts[id].at > posts[Last(RecentOrder(blocks))].at}

\* The stored posts of the page that are newer than the oldest of the block, and not in it
Later(page, recent, posts) ==
    {id \in ToSet(page.order) :
        /\ Stored(posts, id) /\ ~Has(recent, id) /\ posts[id].at > Oldest(posts, recent)}

LEMMA ReceivedSinceCases ==
    ASSUME NEW blocks, NEW page, NEW posts, NEW loaded,
           NEW i, i = RecentBlock(blocks), NEW recent, recent = blocks[i],
           NEW more, more = Only(page.order, Later(page, recent, posts)),
           NEW order, order = ByPosts(more \o recent.order, posts),
           NEW r, r = ReceivedSince(loaded, blocks, page, posts)
    PROVE  \/ r = Ok(blocks) /\ (i = 0 \/ page.order = << >>)
           \/ r = Ok(blocks) /\ i # 0 /\ recent.order # << >> /\ more = << >>
           \/ r = Throws(blocks)
           \/ /\ r = Ok([blocks EXCEPT ![i].order = order])
              /\ i # 0 /\ recent.order # << >> /\ Stored(posts, Last(recent.order)) /\ more # << >>
BY DEF ReceivedSince, ByPosts, Later

LEMMA ReceivedSinceIs ==
    ASSUME NEW v, IsView(v), NEW posts, Agrees(posts, v), PendingId \in v.has,
           NEW blocks, AllSound(blocks, v), EmptyIsRecent(blocks), NEW loaded,
           NEW page, NEW ids, page.order \in Seq(ids), Once(page.order, {}),
           \A id \in ToSet(page.order) : Stored(posts, id) => id \in v.has,
           NEW r, r = ReceivedSince(loaded, blocks, page, posts)
    PROVE  Handled(r, blocks, v, SinceTells(blocks, page, posts), ToSet(page.order))
<1>1. PICK i : i = RecentBlock(blocks)
  OBVIOUS
<1>2. PICK recent : recent = blocks[i]
  OBVIOUS
<1>3. PICK more : more = Only(page.order, Later(page, recent, posts))
  OBVIOUS
<1>4. PICK order : order = ByPosts(more \o recent.order, posts)
  OBVIOUS
<1> DEFINE told == SinceTells(blocks, page, posts)
           all == ToSet(page.order)
<1>5. blocks \in Seq(BlockType(v.has)) /\ \A x \in ToSet(blocks) : Sound(x, v)
  BY DEF AllSound
<1>6. i # 0 => i \in DOMAIN blocks /\ recent \in ToSet(blocks) /\ recent.recent
  <2>1. i # 0 => i \in DOMAIN blocks /\ blocks[i].recent
    BY <1>1, <1>5, RecentBlockIs
  <2> QED
    BY <1>2, <2>1 DEF ToSet
<1>7. i # 0 => RecentOrder(blocks) = recent.order
  BY <1>1, <1>2 DEF RecentOrder
<1>8. /\ ToSet(more) = ToSet(page.order) \cap Later(page, recent, posts)
      /\ more \in Seq(ids) /\ Once(more, {})
  <2>1. PICK A : A = Later(page, recent, posts)
    OBVIOUS
  <2>2. PICK s : s = page.order
    OBVIOUS
  <2>3. more = Only(s, A) /\ s \in Seq(ids) /\ Once(s, {})
    BY <1>3, <2>1, <2>2
  <2>4. more \in Seq(ids) /\ ToSet(more) = ToSet(s) \cap A /\ \A own : Once(s, own) => Once(more, own)
    BY <2>3, OnlyIs
  <2> QED
    BY <2>1, <2>2, <2>3, <2>4
<1>9. told \subseteq ToSet(more) \cup Shows(blocks)
  <2> SUFFICES ASSUME NEW id \in told, id \notin ToSet(more) PROVE id \in Shows(blocks)
    OBVIOUS
  <2>1. id \in ToSet(page.order) /\ RecentOrder(blocks) # << >> /\ Stored(posts, id)
        /\ posts[id].at > posts[Last(RecentOrder(blocks))].at
    BY DEF SinceTells
  <2>2. i # 0
    BY <1>1, <2>1 DEF RecentOrder
  <2>3. posts[id].at > Oldest(posts, recent)
    BY <1>7, <2>1, <2>2 DEF Oldest
  <2>4. Has(recent, id)
    BY <1>8, <2>1, <2>3 DEF Later
  <2> QED
    BY <1>6, <2>2, <2>4 DEF Has, Shows
<1>10. CASE r = Ok(blocks) /\ (i = 0 \/ page.order = << >>)
  <2>1. told = {}
    BY <1>1, <1>10 DEF SinceTells, RecentOrder, ToSet
  <2>2. told \subseteq Shows(blocks)
    BY <2>1
  <2> HIDE DEF told, all
  <2>3. Handled(Ok(blocks), blocks, v, told, all)
    BY <2>2, NothingToDo
  <2> QED
    BY <1>10, <2>3 DEF told, all
<1>11. CASE r = Ok(blocks) /\ i # 0 /\ recent.order # << >> /\ more = << >>
  <2>1. told \subseteq Shows(blocks)
    BY <1>9, <1>11 DEF ToSet
  <2> HIDE DEF told, all
  <2>2. Handled(Ok(blocks), blocks, v, told, all)
    BY <2>1, NothingToDo
  <2> QED
    BY <1>11, <2>2 DEF told, all
<1>12. CASE r = Throws(blocks)
  BY <1>12, ThrowsIsHandled
<1>13. CASE /\ r = Ok([blocks EXCEPT ![i].order = order])
            /\ i # 0 /\ recent.order # << >> /\ Stored(posts, Last(recent.order)) /\ more # << >>
  <2>1. /\ Sound(recent, v) /\ recent \in BlockType(v.has) /\ recent.order \in Seq(v.has)
        /\ Once(recent.order, v.own) /\ recent.recent = TRUE /\ recent.oldest \in BOOLEAN
    BY <1>5, <1>6, <1>13 DEF Sound, BlockType
  <2>2. \A id \in v.has : posts[id].at \in Nat
    BY DEF Agrees
  <2>3. ToSet(more) \subseteq v.has
    BY <1>8 DEF Later
  <2>4. more \in Seq(v.has)
    <3>1. more \in Seq(ToSet(more))
      BY <1>8, SeqFacts
    <3> QED
      BY <2>3, <3>1
  <2>5. PICK s : s = more \o recent.order
    OBVIOUS
  <2>6. s \in Seq(v.has) /\ ToSet(s) = ToSet(more) \cup ToSet(recent.order) /\ Once(s, v.own)
    <3>1. Once(more, v.own)
      BY <1>8 DEF Once
    <3>2. ToSet(more) \cap ToSet(recent.order) \subseteq v.own
      BY <1>8 DEF Later, Has
    <3>3. PICK o : o = recent.order
      OBVIOUS
    <3>4. /\ o \in Seq(v.has) /\ s = more \o o
      BY <2>1, <2>5, <3>3
    <3>5. /\ s \in Seq(v.has) /\ ToSet(s) = ToSet(more) \cup ToSet(o)
          /\ \A own : Once(more, own) /\ Once(o, own) /\ ToSet(more) \cap ToSet(o) \subseteq own
                  => Once(s, own)
      BY <2>4, <3>4, ConcatIs
    <3> QED
      BY <2>1, <3>1, <3>2, <3>3, <3>5
  <2>7. order = ByPosts(s, posts)
    BY <1>4, <2>5
  <2>8. order \in Seq(v.has) /\ ToSet(order) = ToSet(s) /\ Once(order, v.own)
    <3>1. /\ ByPosts(s, posts) \in Seq(v.has) /\ ToSet(ByPosts(s, posts)) = ToSet(s)
          /\ \A own : Once(s, own) => Once(ByPosts(s, posts), own)
      BY <2>2, <2>6, PostsOrder
    <3> QED
      BY <2>6, <2>7, <3>1
  <2>9. PICK c : c = [recent EXCEPT !.order = order]
    OBVIOUS
  <2>10. c \in BlockType(v.has) /\ c.order = order /\ c.recent = TRUE /\ c.oldest = recent.oldest
    BY <2>1, <2>8, <2>9 DEF BlockType
  <2>11. Last(recent.order) \in ToSet(recent.order) /\ Last(recent.order) \in v.has
    BY <1>13, <2>1, SeqFacts
  <2>12. \A id \in ToSet(more) : v.at[Last(recent.order)] < v.at[id] /\ id \in v.ids
    <3> TAKE id \in ToSet(more)
    <3>1. id \in v.has /\ Stored(posts, id) /\ posts[id].at > Oldest(posts, recent)
      BY <1>8, <2>3 DEF Later
    <3>2. posts[id].at = v.at[id] /\ posts[id].at \in Nat
      BY <3>1 DEF Agrees
    <3>3. Oldest(posts, recent) = v.at[Last(recent.order)] /\ Oldest(posts, recent) \in Nat
      BY <1>13, <2>11 DEF Agrees, Oldest
    <3>4. id \in v.ids
      BY <3>1 DEF IsView
    <3> QED
      BY <3>1, <3>2, <3>3, <3>4
  <2>13. \A p \in v.live : Spans(c, v, p) => Spans(recent, v, p)
    <3>1. /\ v.at[Last(recent.order)] \in Nat /\ \A p \in v.live : v.at[p] \in Nat
          /\ \A id \in ToSet(more) : v.at[id] \in Nat
      BY <2>11, <2>12 DEF IsView
    <3>2. \A p \in v.live : \A id \in ToSet(more) :
              v.at[id] <= v.at[p] => v.at[Last(recent.order)] <= v.at[p]
      BY <2>12, <3>1
    <3> QED
      BY <2>1, <2>6, <2>8, <2>10, <2>11, <3>2 DEF Spans
  <2>14. Sound(c, v)
    BY <2>1, <2>8, <2>10, <2>13 DEF Sound
  <2>15. PICK t : t = [blocks EXCEPT ![i] = c]
    OBVIOUS
  <2>16. r = Ok(t)
    <3>1. t = [blocks EXCEPT ![i].order = order]
      BY <1>2, <1>5, <1>6, <1>13, <2>9, <2>15
    <3> QED
      BY <1>13, <3>1
  <2>17. AllSound(t, v) /\ ShowsSwapped(t, blocks, i, c) /\ EmptyIsRecent(t)
    <3>1. i \in DOMAIN blocks /\ (c.order = << >> => c.recent)
      BY <1>6, <1>13, <2>10
    <3> QED
      BY <2>14, <2>15, <3>1, UpdateSound
  <2>18. /\ Shows(blocks) \cup told \subseteq Shows(t)
         /\ Shows(t) \subseteq Shows(blocks) \cup all
    <3>1. ToSet(recent.order) \subseteq Shows(blocks)
      BY <1>6, <1>13 DEF Shows
    <3>2. ToSet(c.order) = ToSet(more) \cup ToSet(recent.order)
      BY <2>6, <2>8, <2>10
    <3>3. ToSet(more) \subseteq all
      BY <1>8
    <3> HIDE DEF told, all
    <3> QED
      BY <1>2, <1>9, <2>17, <3>1, <3>2, <3>3 DEF ShowsSwapped
  <2> HIDE DEF told, all
  <2> QED
    BY <2>16, <2>17, <2>18, OkIs DEF Handled, told, all
<1> QED
  BY <1>1, <1>2, <1>3, <1>4, <1>10, <1>11, <1>12, <1>13, ReceivedSinceCases
=============================================================================
