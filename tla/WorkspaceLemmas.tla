--------------------------- MODULE WorkspaceLemmas ---------------------------
(***************************************************************************)
(* What the operators of Workspace do to the items: which positions stay,  *)
(* in which order, and how many of them.                                   *)
(***************************************************************************)
EXTENDS Workspace, TLAPS, SequenceTheorems, FiniteSetTheorems

-----------------------------------------------------------------------------
(* Sets of positions.                                                      *)

Rank(I, i) == Cardinality({j \in I : j <= i})

LEMMA UptoIsFinite ==
  ASSUME NEW n \in Nat
  PROVE  IsFiniteSet(1..n) /\ Cardinality(1..n) = n
  <1>1. 1 \in Int /\ n \in Int
    OBVIOUS
  <1>2. Cardinality(1..n) = IF 1 > n THEN 0 ELSE n - 1 + 1
    BY <1>1, FS_Interval
  <1> QED
    BY <1>1, <1>2, FS_Interval

LEMMA Positions ==
  ASSUME NEW S, NEW s \in Seq(S), NEW I \in SUBSET DOMAIN s
  PROVE  /\ DOMAIN s = 1..Len(s) /\ Len(s) \in Nat
         /\ I \in SUBSET Nat /\ IsFiniteSet(I) /\ Cardinality(I) \in Nat
         /\ Cardinality(I) <= Len(s)
  <1>1. DOMAIN s = 1..Len(s) /\ Len(s) \in Nat
    BY LenProperties
  <1>2. IsFiniteSet(1..Len(s)) /\ Cardinality(1..Len(s)) = Len(s)
    BY <1>1, UptoIsFinite
  <1>3. IsFiniteSet(I) /\ Cardinality(I) <= Len(s)
    BY <1>1, <1>2, FS_Subset
  <1> QED
    BY <1>1, <1>3, FS_CardinalityType

\* The rank counts the positions up from 1.
LEMMA RankCounts ==
  ASSUME NEW I \in SUBSET Nat, IsFiniteSet(I), NEW i \in I
  PROVE  /\ Rank(I, i) \in 1..Cardinality(I)
         /\ \A j \in I : i < j => Rank(I, i) < Rank(I, j)
         /\ \A j \in I : i <= j => Rank(I, i) <= Rank(I, j)
  <1> DEFINE Upto(j) == {k \in I : k <= j}
  <1>0. \A k \in I : k \in Nat
    OBVIOUS
  <1>1. \A j \in I : IsFiniteSet(Upto(j)) /\ Cardinality(Upto(j)) \in Nat
                       /\ Cardinality(Upto(j)) <= Cardinality(I)
    <2> TAKE j \in I
    <2>1. Upto(j) \in SUBSET I
      OBVIOUS
    <2> HIDE DEF Upto
    <2> QED
      BY <2>1, FS_Subset, FS_CardinalityType
  <1>2. Cardinality(Upto(i)) # 0
    <2>1. Upto(i) # {}
      BY <1>0
    <2> HIDE DEF Upto
    <2> QED
      BY <2>1, <1>1, FS_EmptySet
  <1>3. ASSUME NEW j \in I, i <= j PROVE Cardinality(Upto(i)) <= Cardinality(Upto(j))
    <2>1. Upto(i) \in SUBSET Upto(j)
      <3>1. ASSUME NEW k \in I, k <= i PROVE k <= j
        BY <3>1, <1>0, <1>3
      <3> QED
        BY <3>1
    <2> HIDE DEF Upto
    <2> QED
      BY <2>1, <1>1, FS_Subset
  <1>4. ASSUME NEW j \in I, i < j PROVE Cardinality(Upto(i)) < Cardinality(Upto(j))
    <2>1. Upto(i) \in SUBSET Upto(j) /\ j \in Upto(j) /\ j \notin Upto(i)
      <3>1. ASSUME NEW k \in I, k <= i PROVE k <= j
        BY <3>1, <1>0, <1>4
      <3>2. j <= j /\ ~(j <= i)
        BY <1>0, <1>4
      <3> QED
        BY <3>1, <3>2
    <2> HIDE DEF Upto
    <2>2. /\ Cardinality(Upto(i)) <= Cardinality(Upto(j))
          /\ Cardinality(Upto(j)) # Cardinality(Upto(i))
      BY <2>1, <1>1, FS_Subset
    <2> QED
      BY <2>2, <1>1
  <1>5. Cardinality(I) \in Nat
    BY FS_CardinalityType
  <1> QED
    BY <1>1, <1>2, <1>3, <1>4, <1>5 DEF Rank

\* Every number up to the last is the rank of a position.
LEMMA RankReaches ==
  ASSUME NEW I \in SUBSET Nat, IsFiniteSet(I), NEW k \in 1..Cardinality(I)
  PROVE  \E i \in I : Rank(I, i) = k
  <1> DEFINE n == Cardinality(I)
             rank == [i \in I |-> Rank(I, i)]
  <1>1. n \in Nat
    BY FS_CardinalityType
  <1>2. IsFiniteSet(1..n) /\ Cardinality(1..n) = n
    BY <1>1, UptoIsFinite
  <1>3. rank \in [I -> 1..n]
    BY RankCounts
  <1>4. ASSUME NEW i \in I, NEW j \in I, rank[i] = rank[j] PROVE i = j
    <2>1. ~(i < j) /\ ~(j < i)
      <3>1. i < j => Rank(I, i) < Rank(I, j)
        BY RankCounts
      <3>2. j < i => Rank(I, j) < Rank(I, i)
        BY RankCounts
      <3>3. Rank(I, i) = Rank(I, j)
        BY <1>4
      <3>4. Rank(I, i) \in 1..n
        BY RankCounts
      <3>5. Rank(I, i) \in Nat
        BY <3>4, <1>1
      <3> QED
        BY <3>1, <3>2, <3>3, <3>5
    <2>2. i \in Nat /\ j \in Nat
      OBVIOUS
    <2> QED
      BY <2>1, <2>2
  <1> HIDE DEF rank
  <1>5. rank \in Injection(I, 1..n)
    BY <1>3, <1>4 DEF Injection, IsInjective
  <1>6. rank \in Surjection(I, 1..n)
    BY <1>2, <1>5, FS_Injection
  <1>7. PICK i \in I : rank[i] = k
    BY <1>6 DEF Surjection
  <1> QED
    BY <1>7 DEF rank

Increasing(f, n) == \A k, l \in 1..n : k < l => f[k] < f[l]

\* Positions can be listed in increasing order: by the inverse of their rank.
LEMMA OrderExists ==
  ASSUME NEW I \in SUBSET Nat, IsFiniteSet(I)
  PROVE  \E f \in [1..Cardinality(I) -> I] : Increasing(f, Cardinality(I))
  <1> DEFINE n == Cardinality(I)
             rank == [i \in I |-> Rank(I, i)]
             f == [k \in 1..n |-> CHOOSE i \in I : rank[i] = k]
  <1>0. n \in Nat
    BY FS_CardinalityType
  <1>1. /\ \A i \in I : rank[i] \in 1..n
        /\ \A i, j \in I : i < j => rank[i] < rank[j]
        /\ \A i, j \in I : i <= j => rank[i] <= rank[j]
    BY RankCounts
  <1>2. IsFiniteSet(1..n) /\ Cardinality(1..n) = n
    BY <1>0, UptoIsFinite
  <1>3. rank \in Injection(I, 1..n)
    <2>1. rank \in [I -> 1..n]
      BY <1>1
    <2>2. ASSUME NEW i \in I, NEW j \in I, rank[i] = rank[j] PROVE i = j
      <3>1. ~(i < j) /\ ~(j < i)
        BY <1>1, <2>2
      <3>2. i \in Nat /\ j \in Nat
        OBVIOUS
      <3> QED
        BY <3>1, <3>2
    <2> HIDE DEF rank
    <2> QED
      BY <2>1, <2>2 DEF Injection, IsInjective
  <1>4. rank \in Surjection(I, 1..n)
    <2> HIDE DEF rank
    <2> QED
      BY <1>2, <1>3, FS_Injection
  <1>5. \A k \in 1..n : f[k] \in I /\ rank[f[k]] = k
    BY <1>4 DEF Surjection
  <1>6. Increasing(f, n)
    <2> SUFFICES ASSUME NEW k \in 1..n, NEW l \in 1..n, k < l PROVE f[k] < f[l]
      BY DEF Increasing
    <2>1. f[k] \in I /\ f[l] \in I /\ rank[f[k]] = k /\ rank[f[l]] = l
      BY <1>5
    <2>2. f[k] \in Nat /\ f[l] \in Nat
      BY <2>1
    <2> HIDE DEF f, rank
    <2>3. ASSUME f[l] <= f[k] PROVE FALSE
      <3>1. rank[f[l]] <= rank[f[k]]
        BY <2>1, <2>3, <1>1
      <3> QED
        BY <3>1, <2>1
    <2> QED
      BY <2>2, <2>3
  <1>7. f \in [1..n -> I]
    BY <1>5
  <1> QED
    BY <1>6, <1>7

-----------------------------------------------------------------------------
(* At(items, I).                                                           *)

\* f lists the positions I of s at which the elements of t are found.
Lists(f, t, s, I) ==
  /\ f \in [1..Len(t) -> I]
  /\ Increasing(f, Len(t))
  /\ \A i \in I : \E k \in 1..Len(t) : f[k] = i
  /\ \A k \in 1..Len(t) : t[k] = s[f[k]]

LEMMA IncreasingIsInjective ==
  ASSUME NEW n \in Nat, NEW I \in SUBSET Nat, NEW f \in [1..n -> I], Increasing(f, n)
  PROVE  f \in Injection(1..n, I)
  <1>1. ASSUME NEW k \in 1..n, NEW l \in 1..n, f[k] = f[l] PROVE k = l
    <2>1. f[k] \in Nat /\ f[l] \in Nat
      OBVIOUS
    <2>2. (k < l => f[k] < f[l]) /\ (l < k => f[l] < f[k])
      BY DEF Increasing
    <2> QED
      BY <2>1, <2>2, <1>1
  <1> QED
    BY <1>1 DEF Injection, IsInjective

LEMMA AtLists ==
  ASSUME NEW S, NEW s \in Seq(S), NEW I \in SUBSET DOMAIN s
  PROVE  /\ At(s, I) \in Seq(S)
         /\ Len(At(s, I)) = Cardinality(I)
         /\ \E f : Lists(f, At(s, I), s, I)
  <1> DEFINE n == Cardinality(I)
             IsOrder(f) == \A k, l \in 1..n : k < l => f[k] < f[l]
             order == CHOOSE f \in [1..n -> I] : IsOrder(f)
             t == [k \in 1..n |-> s[order[k]]]
  <1>1. I \in SUBSET Nat /\ IsFiniteSet(I) /\ n \in Nat /\ DOMAIN s = 1..Len(s)
    BY Positions
  <1>2. \E f \in [1..n -> I] : IsOrder(f)
    BY <1>1, OrderExists DEF Increasing
  <1>3. order \in [1..n -> I] /\ IsOrder(order)
    BY <1>2
  <1>4. At(s, I) = t
    BY DEF At
  <1> HIDE DEF order
  <1>5. \A k \in 1..n : order[k] \in I /\ s[order[k]] \in S
    BY <1>3, <1>1, ElementOfSeq
  <1>6. t \in [1..n -> S]
    BY <1>5
  <1>7. t \in Seq(S)
    BY <1>1, <1>6, SeqDef
  <1>8. Len(t) = n
    <2>1. DOMAIN t = 1..n /\ DOMAIN t = 1..Len(t) /\ Len(t) \in Nat
      BY <1>6, <1>7, LenProperties
    <2> QED
      BY <2>1, <1>1
  <1>9. Increasing(order, n)
    BY <1>3 DEF Increasing
  <1>10. \A i \in I : \E k \in 1..n : order[k] = i
    <2>1. order \in Injection(1..n, I)
      BY <1>1, <1>3, <1>9, IncreasingIsInjective
    <2>2. Cardinality(1..n) = n
      BY <1>1, UptoIsFinite
    <2>3. order \in Surjection(1..n, I)
      BY <2>1, <2>2, <1>1, FS_Injection
    <2> QED
      BY <2>3 DEF Surjection
  <1>11. Lists(order, t, s, I)
    BY <1>3, <1>8, <1>9, <1>10 DEF Lists
  <1> QED
    BY <1>4, <1>7, <1>8, <1>11

-----------------------------------------------------------------------------
(* Where items come from.                                                  *)

\* Each item of t is an item of s of its own, with its identifier and text.
Moves(f, t, s) ==
  /\ f \in Injection(1..Len(t), 1..Len(s))
  /\ \A k \in 1..Len(t) : t[k].item_id = s[f[k]].item_id /\ t[k].text = s[f[k]].text

ComesFrom(t, s) == \E f : Moves(f, t, s)

LEMMA ComesFromItself == ASSUME NEW s PROVE ComesFrom(s, s)
  <1>1. Moves([k \in 1..Len(s) |-> k], s, s)
    BY DEF Moves, Injection, IsInjective
  <1> QED
    BY <1>1 DEF ComesFrom

LEMMA ComesFromTransitive ==
  ASSUME NEW s, NEW t, NEW u, ComesFrom(u, t), ComesFrom(t, s)
  PROVE  ComesFrom(u, s)
  <1>1. PICK g : Moves(g, u, t)
    BY DEF ComesFrom
  <1>2. PICK f : Moves(f, t, s)
    BY DEF ComesFrom
  <1> DEFINE h == [k \in 1..Len(u) |-> f[g[k]]]
  <1>3. /\ g \in [1..Len(u) -> 1..Len(t)] /\ f \in [1..Len(t) -> 1..Len(s)]
        /\ \A k, l \in 1..Len(u) : g[k] = g[l] => k = l
        /\ \A k, l \in 1..Len(t) : f[k] = f[l] => k = l
    BY <1>1, <1>2 DEF Moves, Injection, IsInjective
  <1>4. h \in Injection(1..Len(u), 1..Len(s))
    <2>1. h \in [1..Len(u) -> 1..Len(s)]
      BY <1>3
    <2>2. \A k, l \in 1..Len(u) : h[k] = h[l] => k = l
      BY <1>3
    <2> HIDE DEF h
    <2> QED
      BY <2>1, <2>2 DEF Injection, IsInjective
  <1>5. Moves(h, u, s)
    BY <1>1, <1>2, <1>3, <1>4 DEF Moves
  <1> QED
    BY <1>5 DEF ComesFrom

LEMMA AtComesFrom ==
  ASSUME NEW S, NEW s \in Seq(S), NEW I \in SUBSET DOMAIN s
  PROVE  ComesFrom(At(s, I), s)
  <1>1. PICK f : Lists(f, At(s, I), s, I)
    BY AtLists
  <1> DEFINE t == At(s, I)
  <1>2. Len(t) \in Nat /\ I \in SUBSET Nat /\ DOMAIN s = 1..Len(s)
    BY AtLists, Positions
  <1> HIDE DEF t
  <1>3. f \in Injection(1..Len(t), I)
    BY <1>1, <1>2, IncreasingIsInjective DEF Lists, t
  <1>4. Moves(f, t, s)
    BY <1>1, <1>2, <1>3 DEF Moves, Lists, Injection, IsInjective, t
  <1> QED
    BY <1>4 DEF ComesFrom, t

LEMMA ComesFromIsNoLonger ==
  ASSUME NEW S, NEW s \in Seq(S), NEW t \in Seq(S), ComesFrom(t, s)
  PROVE  Len(t) <= Len(s)
  <1>1. PICK f : f \in Injection(1..Len(t), 1..Len(s))
    BY DEF ComesFrom, Moves
  <1>2. Len(t) \in Nat /\ Len(s) \in Nat
    BY LenProperties
  <1>3. /\ IsFiniteSet(1..Len(s)) /\ Cardinality(1..Len(s)) = Len(s)
        /\ Cardinality(1..Len(t)) = Len(t)
    BY <1>2, UptoIsFinite
  <1> QED
    BY <1>1, <1>3, FS_Injection

CopiesAmong(s, text) == {i \in DOMAIN s : s[i].text = text}

LEMMA ComesFromAddsNoCopy ==
  ASSUME NEW S, NEW s \in Seq(S), NEW t \in Seq(S), ComesFrom(t, s), NEW text
  PROVE  /\ IsFiniteSet(CopiesAmong(s, text)) /\ Cardinality(CopiesAmong(s, text)) \in Nat
         /\ Cardinality(CopiesAmong(t, text)) \in Nat
         /\ Cardinality(CopiesAmong(t, text)) <= Cardinality(CopiesAmong(s, text))
  <1>1. PICK f : Moves(f, t, s)
    BY DEF ComesFrom
  <1> DEFINE A == CopiesAmong(t, text)
             B == CopiesAmong(s, text)
             g == [i \in A |-> f[i]]
  <1>2. A \in SUBSET DOMAIN t /\ B \in SUBSET DOMAIN s
    BY DEF CopiesAmong
  <1>3. /\ IsFiniteSet(A) /\ IsFiniteSet(B) /\ Cardinality(A) \in Nat /\ Cardinality(B) \in Nat
        /\ DOMAIN t = 1..Len(t) /\ DOMAIN s = 1..Len(s)
    BY <1>2, Positions
  <1>4. g \in Injection(A, B)
    BY <1>1, <1>3 DEF Moves, Injection, IsInjective, CopiesAmong
  <1> HIDE DEF A, B, g
  <1>5. Cardinality(A) <= Cardinality(B)
    BY <1>3, <1>4, FS_Injection
  <1> QED
    BY <1>3, <1>5 DEF A, B

Distinct(s) == \A i, j \in 1..Len(s) : s[i].item_id = s[j].item_id => i = j

\* Identifiers drawn in turn from the numbers below n.
IdsBelow(s, n) == \A i \in 1..Len(s) : s[i].item_id \in 0..(n - 1)

LEMMA ComesFromKeepsIds ==
  ASSUME NEW s, NEW t, ComesFrom(t, s), NEW n
  PROVE  /\ Distinct(s) => Distinct(t)
         /\ IdsBelow(s, n) => IdsBelow(t, n)
  <1>1. PICK f : Moves(f, t, s)
    BY DEF ComesFrom
  <1>2. /\ \A k \in 1..Len(t) : f[k] \in 1..Len(s) /\ t[k].item_id = s[f[k]].item_id
        /\ \A k, l \in 1..Len(t) : f[k] = f[l] => k = l
    BY <1>1 DEF Moves, Injection, IsInjective
  <1>3. ASSUME Distinct(s), NEW k \in 1..Len(t), NEW l \in 1..Len(t),
               t[k].item_id = t[l].item_id
        PROVE  k = l
    <2>1. s[f[k]].item_id = s[f[l]].item_id /\ f[k] \in 1..Len(s) /\ f[l] \in 1..Len(s)
      BY <1>2, <1>3
    <2>2. f[k] = f[l]
      BY <2>1, <1>3 DEF Distinct
    <2> QED
      BY <2>2, <1>2
  <1>4. IdsBelow(s, n) => IdsBelow(t, n)
    BY <1>2 DEF IdsBelow
  <1> QED
    BY <1>3, <1>4 DEF Distinct

-----------------------------------------------------------------------------
(* Capture times.                                                          *)

\* The newest item is in front, and none is newer than the clock.
NewestFirst(s, now) ==
  /\ \A i, j \in 1..Len(s) : i < j => s[j].captured_at <= s[i].captured_at
  /\ \A i \in 1..Len(s) : s[i].captured_at <= now

LEMMA AtKeepsOrder ==
  ASSUME NEW S, NEW s \in Seq(S), NEW I \in SUBSET DOMAIN s, NEW now, NewestFirst(s, now)
  PROVE  NewestFirst(At(s, I), now)
  <1> DEFINE t == At(s, I)
  <1>1. PICK f : Lists(f, t, s, I)
    BY AtLists
  <1>2. DOMAIN s = 1..Len(s)
    BY Positions
  <1> HIDE DEF t
  <1>3. \A k \in 1..Len(t) : f[k] \in 1..Len(s) /\ t[k] = s[f[k]]
    BY <1>1, <1>2 DEF Lists
  <1>4. \A k, l \in 1..Len(t) : k < l => f[k] < f[l]
    BY <1>1 DEF Lists, Increasing
  <1>5. NewestFirst(t, now)
    BY <1>3, <1>4 DEF NewestFirst
  <1> QED
    BY <1>5 DEF t

-----------------------------------------------------------------------------
(* An item in front of others.                                             *)

LEMMA InFront ==
  ASSUME NEW S, NEW s \in Seq(S), NEW x \in S
  PROVE  LET t == <<x>> \o s IN
           /\ t \in Seq(S) /\ Len(t) = Len(s) + 1 /\ t[1] = x
           /\ \A k \in 2..Len(t) : t[k] = s[k - 1]
           /\ \A k \in 1..Len(s) : t[k + 1] = s[k]
  <1>1. <<x>> \in Seq(S) /\ Len(<<x>>) = 1 /\ <<x>>[1] = x
    OBVIOUS
  <1> DEFINE t == <<x>> \o s
             y == <<x>>
  <1> HIDE DEF y
  <1>2. Len(s) \in Nat
    BY LenProperties
  <1>3. /\ y \o s \in Seq(S) /\ Len(y \o s) = 1 + Len(s)
        /\ \A k \in 1..(1 + Len(s)) : (y \o s)[k] = IF k <= 1 THEN y[1] ELSE s[k - 1]
    <2>1. /\ y \o s \in Seq(S) /\ Len(y \o s) = Len(y) + Len(s)
          /\ \A k \in 1..(Len(y) + Len(s)) :
               (y \o s)[k] = IF k <= Len(y) THEN y[k] ELSE s[k - Len(y)]
      BY <1>1, ConcatProperties DEF y
    <2>2. Len(y) = 1
      BY <1>1 DEF y
    <2>3. ASSUME NEW k \in 1..(1 + Len(s))
          PROVE  (y \o s)[k] = IF k <= 1 THEN y[1] ELSE s[k - 1]
      <3>1. (y \o s)[k] = IF k <= 1 THEN y[k] ELSE s[k - 1]
        BY <2>1, <2>2
      <3>2. k <= 1 => k = 1
        BY <1>2
      <3> QED
        BY <3>1, <3>2
    <2> QED
      BY <2>1, <2>2, <2>3
  <1>4. t = y \o s /\ y[1] = x
    BY <1>1 DEF y
  <1> HIDE DEF t
  <1>5. t[1] = x
    BY <1>2, <1>3, <1>4
  <1>6. ASSUME NEW k \in 2..Len(t) PROVE t[k] = s[k - 1]
    BY <1>2, <1>3, <1>4
  <1>7. ASSUME NEW k \in 1..Len(s) PROVE t[k + 1] = s[k]
    <2>1. k + 1 \in 1..(1 + Len(s)) /\ ~(k + 1 <= 1) /\ k + 1 - 1 = k
      BY <1>2
    <2> QED
      BY <2>1, <1>3, <1>4
  <1> QED
    BY <1>2, <1>3, <1>4, <1>5, <1>6, <1>7 DEF t

LEMMA Removed ==
  ASSUME NEW S, NEW s \in Seq(S), NEW x \in 1..Len(s)
  PROVE  LET t == RemoveAt(s, x) IN
           /\ t \in Seq(S) /\ Len(t) = Len(s) - 1
           /\ \A k \in 1..Len(t) : t[k] = IF k < x THEN s[k] ELSE s[k + 1]
  <1> DEFINE n == Len(s)
             a == SubSeq(s, 1, x - 1)
             b == SubSeq(s, x + 1, n)
  <1>1. n \in Nat /\ x \in Nat /\ 1 <= x /\ x <= n
    BY LenProperties
  <1>2. \A i \in 1..n : s[i] \in S
    BY ElementOfSeq
  <1>3. /\ a \in Seq(S) /\ Len(a) = x - 1 /\ \A k \in 1..(x - 1) : a[k] = s[k]
    <2>1. \A i \in 1..(x - 1) : s[i] \in S
      BY <1>1, <1>2
    <2>2. /\ a \in Seq(S) /\ Len(a) = IF 1 <= x - 1 THEN x - 1 - 1 + 1 ELSE 0
          /\ \A k \in 1..(x - 1 - 1 + 1) : a[k] = s[1 + k - 1]
      BY <2>1, <1>1, SubSeqProperties
    <2> HIDE DEF a, n
    <2>3. Len(a) = x - 1
      BY <2>2, <1>1
    <2>4. ASSUME NEW k \in 1..(x - 1) PROVE a[k] = s[k]
      <3>1. k \in 1..(x - 1 - 1 + 1) /\ 1 + k - 1 = k
        BY <1>1
      <3> QED
        BY <3>1, <2>2
    <2> QED
      BY <2>2, <2>3, <2>4
  <1>4. /\ b \in Seq(S) /\ Len(b) = n - x /\ \A k \in 1..(n - x) : b[k] = s[x + k]
    <2>1. \A i \in (x + 1)..n : s[i] \in S
      BY <1>1, <1>2
    <2>2. /\ b \in Seq(S) /\ Len(b) = IF x + 1 <= n THEN n - (x + 1) + 1 ELSE 0
          /\ \A k \in 1..(n - (x + 1) + 1) : b[k] = s[x + 1 + k - 1]
      BY <2>1, <1>1, SubSeqProperties
    <2> HIDE DEF b, n
    <2>3. Len(b) = n - x
      BY <2>2, <1>1
    <2>4. ASSUME NEW k \in 1..(n - x) PROVE b[k] = s[x + k]
      <3>1. k \in 1..(n - (x + 1) + 1) /\ x + 1 + k - 1 = x + k
        BY <1>1
      <3> QED
        BY <3>1, <2>2
    <2> QED
      BY <2>2, <2>3, <2>4
  <1> HIDE DEF a, b, n
  <1>5. /\ a \o b \in Seq(S) /\ Len(a \o b) = Len(a) + Len(b)
        /\ \A k \in 1..(Len(a) + Len(b)) :
             (a \o b)[k] = IF k <= Len(a) THEN a[k] ELSE b[k - Len(a)]
    BY <1>3, <1>4, ConcatProperties
  <1>6. Len(a \o b) = n - 1
    BY <1>1, <1>3, <1>4, <1>5
  <1>7. ASSUME NEW k \in 1..(n - 1) PROVE (a \o b)[k] = IF k < x THEN s[k] ELSE s[k + 1]
    <2>1. k \in 1..(Len(a) + Len(b))
      BY <1>1, <1>3, <1>4
    <2>2. CASE k < x
      <3>1. k <= Len(a) /\ k \in 1..(x - 1)
        BY <2>2, <1>1, <1>3
      <3> QED
        BY <3>1, <2>1, <2>2, <1>3, <1>5
    <2>3. CASE ~(k < x)
      <3>1. ~(k <= Len(a)) /\ k - Len(a) \in 1..(n - x) /\ x + (k - Len(a)) = k + 1
        BY <2>3, <1>1, <1>3
      <3> QED
        BY <3>1, <2>1, <2>3, <1>4, <1>5
    <2> QED
      BY <2>2, <2>3
  <1>8. RemoveAt(s, x) = a \o b
    BY DEF RemoveAt, a, b, n
  <1> QED
    BY <1>5, <1>6, <1>7, <1>8 DEF n

\* Capturing a text again: its item moves to the front, with its identifier and text.
LEMMA ToFront ==
  ASSUME NEW S, NEW s \in Seq(S), NEW x \in 1..Len(s), NEW m \in S,
         m.item_id = s[x].item_id, m.text = s[x].text
  PROVE  LET t == <<m>> \o RemoveAt(s, x) IN
           /\ t \in Seq(S) /\ Len(t) = Len(s) /\ t[1] = m
           /\ \A k \in 2..Len(t) : t[k] = s[IF k <= x THEN k - 1 ELSE k]
           /\ ComesFrom(t, s)
  <1> DEFINE rest == RemoveAt(s, x)
             t == <<m>> \o rest
             f == [k \in 1..Len(s) |-> IF k = 1 THEN x ELSE IF k <= x THEN k - 1 ELSE k]
  <1>1. Len(s) \in Nat /\ x \in Nat /\ 1 <= x /\ x <= Len(s)
    BY LenProperties
  <1>2. /\ rest \in Seq(S) /\ Len(rest) = Len(s) - 1
        /\ \A k \in 1..Len(rest) : rest[k] = IF k < x THEN s[k] ELSE s[k + 1]
    BY Removed
  <1> HIDE DEF rest
  <1>3. /\ t \in Seq(S) /\ Len(t) = Len(rest) + 1 /\ t[1] = m
        /\ \A k \in 2..Len(t) : t[k] = rest[k - 1]
    BY <1>2, InFront
  <1> HIDE DEF t
  <1>4. Len(t) = Len(s)
    BY <1>1, <1>2, <1>3
  <1>5. ASSUME NEW k \in 2..Len(s) PROVE t[k] = s[IF k <= x THEN k - 1 ELSE k]
    <2>1. k - 1 \in 1..Len(rest) /\ k - 1 + 1 = k /\ (k - 1 < x <=> k <= x)
      BY <1>1, <1>2
    <2> QED
      BY <2>1, <1>2, <1>3, <1>4
  <1>6. f \in Injection(1..Len(s), 1..Len(s))
    <2>1. f \in [1..Len(s) -> 1..Len(s)]
      BY <1>1
    <2>2. \A k, l \in 1..Len(s) : f[k] = f[l] => k = l
      BY <1>1
    <2> HIDE DEF f
    <2> QED
      BY <2>1, <2>2 DEF Injection, IsInjective
  <1>7. ASSUME NEW k \in 1..Len(s)
        PROVE  t[k].item_id = s[f[k]].item_id /\ t[k].text = s[f[k]].text
    <2>1. CASE k = 1
      BY <2>1, <1>3
    <2>2. CASE k # 1
      BY <2>2, <1>1, <1>5
    <2> QED
      BY <2>1, <2>2
  <1> HIDE DEF f
  <1>8. Moves(f, t, s)
    BY <1>4, <1>6, <1>7 DEF Moves
  <1>9. ComesFrom(t, s)
    BY <1>8 DEF ComesFrom
  <1> QED
    BY <1>3, <1>4, <1>5, <1>9 DEF t, rest

-----------------------------------------------------------------------------
(* Retention.                                                              *)

\* The positions enforce_retention() keeps.
Kept(items, policy, now) == WithinCount(items, WithinAge(items, policy, now), policy)

LEMMA KeptPositions ==
  ASSUME NEW items \in Seq(Items), NEW policy \in Policies, NEW now \in Int
  PROVE  LET kept == Kept(items, policy, now) IN
           /\ kept \in SUBSET DOMAIN items
           /\ \A i \in DOMAIN items : items[i].is_pinned => i \in kept
           /\ \A i \in DOMAIN items \ kept :
                \/ now - items[i].captured_at > policy.max_age
                \/ /\ Cardinality(kept \cap Unpinned(items)) = policy.max_items
                   /\ \A j \in kept \cap Unpinned(items) : j < i
           /\ Cardinality(kept \cap Unpinned(items)) <= policy.max_items
           /\ Cardinality(Unpinned(items)) <= policy.max_items
                => kept = WithinAge(items, policy, now)
  <1> DEFINE young == WithinAge(items, policy, now)
             U == young \cap Unpinned(items)
             kept == Kept(items, policy, now)
             max == policy.max_items
  <1>1. /\ DOMAIN items = 1..Len(items)
        /\ \A i \in DOMAIN items : items[i].captured_at \in Nat /\ i \in Nat
        /\ max \in Nat /\ policy.max_age \in Nat
    <2>1. DOMAIN items = 1..Len(items)
      BY LenProperties
    <2>2. \A i \in 1..Len(items) : items[i] \in Items
      BY ElementOfSeq
    <2>3. policy \in [max_items : Nat \ {0}, max_age : Nat \ {0}, deduplicate : BOOLEAN]
      BY WorkspaceAssumption
    <2> QED
      BY <2>1, <2>2, <2>3 DEF Items
  <1>2. U \in SUBSET DOMAIN items /\ Unpinned(items) \in SUBSET DOMAIN items
    BY DEF Unpinned
  <1>3. /\ U \in SUBSET Nat /\ IsFiniteSet(U) /\ Cardinality(U) \in Nat
        /\ IsFiniteSet(Unpinned(items)) /\ Cardinality(Unpinned(items)) \in Nat
    BY <1>2, Positions
  <1>4. kept = {i \in young : items[i].is_pinned \/ Rank(U, i) <= max}
    BY DEF Kept, WithinCount, Rank
  <1>5. \A i \in DOMAIN items : i \in U <=> i \in young /\ ~items[i].is_pinned
    BY DEF Unpinned
  <1>6. \A i \in DOMAIN items :
          i \in young <=> items[i].is_pinned \/ now - items[i].captured_at <= policy.max_age
    BY DEF WithinAge
  <1>7. young \in SUBSET DOMAIN items
    BY DEF WithinAge
  <1>8. \A i \in U : /\ Rank(U, i) \in Nat /\ 1 <= Rank(U, i) /\ Rank(U, i) <= Cardinality(U)
                     /\ \A j \in U : i < j => Rank(U, i) < Rank(U, j)
                     /\ \A j \in U : i <= j => Rank(U, i) <= Rank(U, j)
    <2> HIDE DEF U
    <2> TAKE i \in U
    <2>1. /\ Rank(U, i) \in 1..Cardinality(U)
          /\ \A j \in U : i < j => Rank(U, i) < Rank(U, j)
          /\ \A j \in U : i <= j => Rank(U, i) <= Rank(U, j)
      BY <1>3, RankCounts
    <2> QED
      BY <2>1, <1>3
  <1>9. kept \cap Unpinned(items) = {i \in U : Rank(U, i) <= max}
    BY <1>4, <1>5, <1>7 DEF Unpinned
  <1> HIDE DEF young, U, kept, max
  <1>10. ASSUME NEW i \in DOMAIN items \ kept, i \in young
         PROVE  /\ Cardinality({j \in U : Rank(U, j) <= max}) = max
                /\ \A j \in kept \cap Unpinned(items) : j < i
    <2> DEFINE A == {j \in U : Rank(U, j) <= max}
               g == [j \in A |-> Rank(U, j)]
    <2>1. i \in U /\ ~(Rank(U, i) <= max) /\ i \in Nat
      BY <1>10, <1>1, <1>4, <1>5
    <2>2. g \in [A -> 1..max]
      BY <1>1, <1>8 DEF max
    <2>3. ASSUME NEW k \in 1..max PROVE \E j \in A : g[j] = k
      <3>1. k \in 1..Cardinality(U) /\ k \in Nat /\ k <= max
        <4>1. max \in Nat /\ Rank(U, i) \in Nat /\ Rank(U, i) <= Cardinality(U)
          BY <2>1, <1>1, <1>8 DEF max
        <4> QED
          BY <4>1, <2>1, <1>3
      <3>2. PICK j \in U : Rank(U, j) = k
        BY <3>1, <1>3, RankReaches
      <3> QED
        BY <3>1, <3>2
    <2>4. ASSUME NEW j \in A, NEW k \in A, g[j] = g[k] PROVE j = k
      <3>1. ~(j < k) /\ ~(k < j)
        BY <2>4, <1>8
      <3>2. j \in Nat /\ k \in Nat
        BY <1>3
      <3> QED
        BY <3>1, <3>2
    <2>5. \A j \in A : j < i
      <3> TAKE j \in A
      <3>1. j \in Nat /\ Rank(U, j) <= max /\ Rank(U, j) \in Nat /\ Rank(U, i) \in Nat
        BY <2>1, <1>3, <1>8
      <3>2. max \in Nat
        BY <1>1 DEF max
      <3>3. i <= j => Rank(U, i) <= Rank(U, j)
        BY <2>1, <1>8
      <3> QED
        BY <3>1, <3>2, <3>3, <2>1
    <2>7. A = kept \cap Unpinned(items)
      BY <1>9
    <2> HIDE DEF A, g
    <2>8. g \in Injection(A, 1..max) /\ g \in Surjection(A, 1..max)
      BY <2>2, <2>3, <2>4 DEF Injection, Surjection, IsInjective
    <2>9. IsFiniteSet(1..max) /\ Cardinality(1..max) = max
      BY <1>1, UptoIsFinite DEF max
    <2>10. Cardinality(A) = max
      BY <2>8, <2>9, FS_Injection
    <2> QED
      BY <2>5, <2>7, <2>10 DEF A
  <1>11. Cardinality({i \in U : Rank(U, i) <= max}) <= max
    <2> DEFINE A == {i \in U : Rank(U, i) <= max}
               g == [i \in A |-> Rank(U, i)]
    <2>1. g \in [A -> 1..max]
      BY <1>1, <1>8 DEF max
    <2>2. ASSUME NEW i \in A, NEW j \in A, g[i] = g[j] PROVE i = j
      <3>1. ~(i < j) /\ ~(j < i)
        BY <2>2, <1>8
      <3>2. i \in Nat /\ j \in Nat
        BY <1>3
      <3> QED
        BY <3>1, <3>2
    <2> HIDE DEF A, g
    <2>3. g \in Injection(A, 1..max)
      BY <2>1, <2>2 DEF Injection, IsInjective
    <2>4. IsFiniteSet(1..max) /\ Cardinality(1..max) = max
      BY <1>1, UptoIsFinite DEF max
    <2>5. Cardinality(A) <= max
      BY <2>3, <2>4, FS_Injection
    <2> QED
      BY <2>5 DEF A
  <1>12. ASSUME Cardinality(Unpinned(items)) <= max PROVE kept = young
    <2>1. U \in SUBSET Unpinned(items)
      BY DEF U
    <2>2. Cardinality(U) <= Cardinality(Unpinned(items))
      BY <2>1, <1>3, FS_Subset
    <2>3. \A i \in U : Rank(U, i) <= max
      BY <2>2, <1>1, <1>3, <1>8, <1>12 DEF max
    <2> QED
      BY <2>3, <1>4, <1>5, <1>7
  <1>13. ASSUME NEW i \in DOMAIN items, items[i].is_pinned PROVE i \in kept
    BY <1>13, <1>4, <1>6
  <1>14. kept \in SUBSET DOMAIN items
    BY <1>4, <1>7
  <1>15. ASSUME NEW i \in DOMAIN items \ kept
         PROVE  \/ now - items[i].captured_at > policy.max_age
                \/ /\ Cardinality(kept \cap Unpinned(items)) = policy.max_items
                   /\ \A j \in kept \cap Unpinned(items) : j < i
    <2>1. CASE i \in young
      BY <2>1, <1>9, <1>10 DEF max
    <2>2. CASE i \notin young
      BY <2>2, <1>1, <1>6
    <2> QED
      BY <2>1, <2>2
  <1> QED
    BY <1>9, <1>11, <1>12, <1>13, <1>14, <1>15 DEF young, kept, max

\* The list r has all the unpinned items that the policy allows, from those in front
\* of i; the first one of the list stays first.
IsFull(r, items, i, policy) ==
  /\ Cardinality(Unpinned(r)) = policy.max_items
  /\ \A k \in Unpinned(r) : \E j \in 1..(i - 1) : r[k] = items[j] /\ (j = 1 => k = 1)

\* What enforce_retention() makes of the items.
LEMMA Retained ==
  ASSUME NEW items \in Seq(Items), NEW policy \in Policies, NEW now \in Int
  PROVE  LET r == At(items, Kept(items, policy, now)) IN
           /\ r \in Seq(Items)
           /\ ComesFrom(r, items)
           /\ Cardinality(Unpinned(r)) <= policy.max_items
           /\ \A i \in 1..Len(items) :
                items[i].is_pinned => \E k \in 1..Len(r) : r[k] = items[i]
           /\ Cardinality(Unpinned(items)) <= policy.max_items
                => r = At(items, WithinAge(items, policy, now))
           /\ NewestFirst(items, now) => NewestFirst(r, now)
           /\ \A i \in 1..Len(items) :
                \/ \E k \in 1..Len(r) : r[k] = items[i]
                \/ now - items[i].captured_at > policy.max_age
                \/ IsFull(r, items, i, policy)
  <1> DEFINE kept == Kept(items, policy, now)
             r == At(items, kept)
  <1>1. /\ kept \in SUBSET DOMAIN items
        /\ \A i \in DOMAIN items : items[i].is_pinned => i \in kept
        /\ \A i \in DOMAIN items \ kept :
             \/ now - items[i].captured_at > policy.max_age
             \/ /\ Cardinality(kept \cap Unpinned(items)) = policy.max_items
                /\ \A j \in kept \cap Unpinned(items) : j < i
        /\ Cardinality(kept \cap Unpinned(items)) <= policy.max_items
        /\ Cardinality(Unpinned(items)) <= policy.max_items
             => kept = WithinAge(items, policy, now)
    BY KeptPositions
  <1> HIDE DEF kept
  <1>2. r \in Seq(Items) /\ ComesFrom(r, items)
    BY <1>1, AtLists, AtComesFrom
  <1>3. NewestFirst(items, now) => NewestFirst(r, now)
    BY <1>1, AtKeepsOrder
  <1>4. PICK f : Lists(f, r, items, kept)
    BY <1>1, AtLists
  <1>5. DOMAIN items = 1..Len(items)
    BY LenProperties
  <1>6. DOMAIN r = 1..Len(r) /\ Len(r) \in Nat
    BY <1>2, LenProperties
  <1>7. /\ \A k \in 1..Len(r) : f[k] \in kept /\ r[k] = items[f[k]]
        /\ \A i \in kept : \E k \in 1..Len(r) : r[k] = items[i]
    BY <1>4 DEF Lists
  <1> HIDE DEF r
  <1>8. ASSUME NEW i \in 1..Len(items), items[i].is_pinned
        PROVE  \E k \in 1..Len(r) : r[k] = items[i]
    BY <1>1, <1>5, <1>7, <1>8
  <1>9. Cardinality(Unpinned(r)) = Cardinality(kept \cap Unpinned(items))
    <2> DEFINE A == Unpinned(r)
               B == kept \cap Unpinned(items)
               g == [k \in A |-> f[k]]
    <2>1. A \in SUBSET DOMAIN r /\ B \in SUBSET DOMAIN items
      BY <1>1 DEF Unpinned
    <2>2. IsFiniteSet(A) /\ IsFiniteSet(B)
      BY <2>1, <1>2, Positions
    <2>3. kept \in SUBSET Nat
      BY <1>1, Positions
    <2>4. f \in Injection(1..Len(r), kept)
      BY <1>4, <1>6, <2>3, IncreasingIsInjective DEF Lists
    <2>5. g \in [A -> B]
      <3>1. ASSUME NEW k \in A PROVE f[k] \in B
        BY <1>1, <1>5, <1>6, <1>7 DEF Unpinned
      <3> QED
        BY <3>1
    <2>6. \A k, l \in A : g[k] = g[l] => k = l
      BY <2>1, <2>4, <1>6 DEF Injection, IsInjective
    <2>7. ASSUME NEW i \in B PROVE \E k \in A : g[k] = i
      <3>1. PICK k \in 1..Len(r) : f[k] = i
        BY <1>4 DEF Lists
      <3>2. r[k] = items[i]
        BY <3>1, <1>7
      <3> QED
        BY <3>1, <3>2, <1>6 DEF Unpinned
    <2> HIDE DEF A, B, g
    <2>8. g \in Injection(A, B) /\ g \in Surjection(A, B)
      BY <2>5, <2>6, <2>7 DEF Injection, Surjection, IsInjective
    <2>9. Cardinality(A) = Cardinality(B)
      BY <2>2, <2>8, FS_Injection
    <2> QED
      BY <2>9 DEF A, B
  <1>10. ASSUME NEW i \in 1..Len(items), \A l \in 1..Len(r) : r[l] # items[i],
                ~(now - items[i].captured_at > policy.max_age)
         PROVE  IsFull(r, items, i, policy)
    <2>1. i \in DOMAIN items \ kept /\ i \in Nat
      BY <1>5, <1>7, <1>10
    <2>2. /\ Cardinality(kept \cap Unpinned(items)) = policy.max_items
          /\ \A j \in kept \cap Unpinned(items) : j < i
      BY <2>1, <1>1, <1>10
    <2>3. ASSUME NEW k \in Unpinned(r)
          PROVE  \E j \in 1..(i - 1) : r[k] = items[j] /\ (j = 1 => k = 1)
      <3>1. k \in 1..Len(r) /\ ~r[k].is_pinned
        BY <1>6 DEF Unpinned
      <3>2. f[k] \in kept \cap Unpinned(items) /\ r[k] = items[f[k]] /\ f[k] \in 1..Len(items)
        BY <3>1, <1>1, <1>5, <1>7 DEF Unpinned
      <3>3. f[k] \in 1..(i - 1)
        BY <3>2, <2>1, <2>2
      <3>4. ASSUME f[k] = 1, k # 1 PROVE FALSE
        <4>1. 1 \in 1..Len(r) /\ 1 < k
          BY <3>1, <3>4, <1>6
        <4>2. f[1] < f[k]
          BY <4>1, <3>1, <1>4 DEF Lists, Increasing
        <4>3. f[1] \in 1..Len(items)
          BY <4>1, <1>1, <1>5, <1>7
        <4> QED
          BY <4>2, <4>3, <3>4
      <3> QED
        BY <3>2, <3>3, <3>4
    <2> QED
      BY <2>2, <2>3, <1>9 DEF IsFull
  <1> QED
    BY <1>1, <1>2, <1>3, <1>8, <1>9, <1>10 DEF r, kept

-----------------------------------------------------------------------------
(* Searching, pinning and capturing.                                       *)

LEMMA MinIsMember ==
  ASSUME NEW I \in SUBSET Nat, IsFiniteSet(I), I # {}
  PROVE  Min(I) \in I
  <1> DEFINE n == Cardinality(I)
  <1>1. n \in Nat /\ n # 0
    BY FS_CardinalityType, FS_EmptySet
  <1>2. PICK f \in [1..n -> I] : Increasing(f, n)
    BY OrderExists
  <1>3. f \in Injection(1..n, I) /\ Cardinality(1..n) = n
    BY <1>1, <1>2, IncreasingIsInjective, UptoIsFinite
  <1>4. f \in Surjection(1..n, I)
    BY <1>3, FS_Injection
  <1>5. f[1] \in I
    BY <1>1, <1>2
  <1>6. ASSUME NEW i \in I PROVE f[1] <= i
    <2>1. PICK k \in 1..n : f[k] = i
      BY <1>4 DEF Surjection
    <2>2. k = 1 \/ 1 < k
      BY <1>1
    <2>3. f[1] \in Nat /\ f[k] \in Nat
      BY <1>5, <2>1
    <2>4. 1 \in 1..n
      BY <1>1
    <2>5. 1 < k => f[1] < f[k]
      BY <2>4, <1>2 DEF Increasing
    <2> QED
      BY <2>1, <2>2, <2>3, <2>5
  <1> QED
    BY <1>5, <1>6 DEF Min

\* item_mut() finds an item of the identifier, when there is one.
LEMMA FindsId ==
  ASSUME NEW items \in Seq(Items), NEW id,
         \E i \in DOMAIN items : items[i].item_id = id
  PROVE  LET x == SelectInSeq(items, LAMBDA item : item.item_id = id) IN
           x \in 1..Len(items) /\ items[x].item_id = id
  <1> DEFINE I == {i \in 1..Len(items) : items[i].item_id = id}
  <1>1. DOMAIN items = 1..Len(items)
    BY LenProperties
  <1>2. I \in SUBSET Nat /\ IsFiniteSet(I) /\ I # {}
    BY <1>1, Positions
  <1>3. SelectInSeq(items, LAMBDA item : item.item_id = id) = Min(I)
    BY <1>2 DEF SelectInSeq
  <1> HIDE DEF I
  <1>4. Min(I) \in I
    BY <1>2, MinIsMember
  <1> QED
    BY <1>3, <1>4 DEF I

\* The search for a text ends with a position of it, or with 0 when there is none.
LEMMA FindsText ==
  ASSUME NEW items \in Seq(Items), NEW text
  PROVE  LET x == SelectInSeq(items, LAMBDA item : item.text = text) IN
           \/ x \in 1..Len(items) /\ x # 0 /\ items[x].text = text
           \/ x = 0 /\ CopiesAmong(items, text) = {}
  <1> DEFINE I == {i \in 1..Len(items) : items[i].text = text}
             x == SelectInSeq(items, LAMBDA item : item.text = text)
  <1>1. DOMAIN items = 1..Len(items)
    BY LenProperties
  <1>2. I \in SUBSET Nat /\ IsFiniteSet(I) /\ I = CopiesAmong(items, text)
    BY <1>1, Positions DEF CopiesAmong
  <1>3. x = IF I # {} THEN Min(I) ELSE 0
    BY DEF SelectInSeq
  <1>4. I # {} => Min(I) \in I
    <2> HIDE DEF I
    <2> QED
      BY <1>2, MinIsMember
  <1>5. \A i \in I : i \in 1..Len(items) /\ i # 0 /\ items[i].text = text
    OBVIOUS
  <1> HIDE DEF I, x
  <1> QED
    BY <1>2, <1>3, <1>4, <1>5 DEF x

\* t is items with the pin of the one at x set.
Repins(t, items, x, pin) ==
  /\ t \in Seq(Items) /\ Len(t) = Len(items)
  /\ \A i \in 1..Len(items) :
       /\ t[i].item_id = items[i].item_id /\ t[i].text = items[i].text
       /\ t[i].captured_at = items[i].captured_at
       /\ t[i].is_pinned = IF i = x THEN pin ELSE items[i].is_pinned
  /\ ComesFrom(t, items)
  /\ \A now : NewestFirst(items, now) => NewestFirst(t, now)

LEMMA Repinned ==
  ASSUME NEW items \in Seq(Items), NEW x \in 1..Len(items), NEW pin \in BOOLEAN
  PROVE  Repins([items EXCEPT ![x].is_pinned = pin], items, x, pin)
  <1> DEFINE e == [items[x] EXCEPT !.is_pinned = pin]
             t == [items EXCEPT ![x] = e]
             id == [k \in 1..Len(items) |-> k]
  <1>1. /\ DOMAIN items = 1..Len(items) /\ Len(items) \in Nat
    BY LenProperties
  <1>2. \A i \in 1..Len(items) : items[i] \in Items
    BY ElementOfSeq
  <1>3. /\ e \in Items /\ e.item_id = items[x].item_id /\ e.text = items[x].text
        /\ e.captured_at = items[x].captured_at /\ e.is_pinned = pin
    BY <1>2 DEF Items
  <1>4. [items EXCEPT ![x].is_pinned = pin] = t
    BY <1>1
  <1> HIDE DEF e
  <1>5. /\ t \in Seq(Items) /\ Len(t) = Len(items)
        /\ \A j \in 1..Len(items) : t[j] = IF j = x THEN e ELSE items[j]
    BY <1>3, ExceptSeq
  <1> HIDE DEF t
  <1>6. \A i \in 1..Len(items) :
          /\ t[i].item_id = items[i].item_id /\ t[i].text = items[i].text
          /\ t[i].captured_at = items[i].captured_at
          /\ t[i].is_pinned = IF i = x THEN pin ELSE items[i].is_pinned
    BY <1>3, <1>5
  <1>7. Moves(id, t, items)
    BY <1>5, <1>6 DEF Moves, Injection, IsInjective
  <1>8. \A now : NewestFirst(items, now) => NewestFirst(t, now)
    BY <1>5, <1>6 DEF NewestFirst
  <1> QED
    BY <1>4, <1>5, <1>6, <1>7, <1>8 DEF ComesFrom, Repins

\* Taking items away, or pinning them, makes no item unpinned.
LEMMA NoMoreUnpinned ==
  ASSUME NEW s \in Seq(Items), NEW t \in Seq(Items), NEW f \in Injection(1..Len(t), 1..Len(s)),
         \A k \in 1..Len(t) : s[f[k]].is_pinned => t[k].is_pinned
  PROVE  Cardinality(Unpinned(t)) <= Cardinality(Unpinned(s))
  <1> DEFINE A == Unpinned(t)
             B == Unpinned(s)
             g == [k \in A |-> f[k]]
  <1>1. A \in SUBSET DOMAIN t /\ B \in SUBSET DOMAIN s
    BY DEF Unpinned
  <1>2. /\ IsFiniteSet(B) /\ Cardinality(A) \in Nat /\ Cardinality(B) \in Nat
        /\ DOMAIN t = 1..Len(t) /\ DOMAIN s = 1..Len(s)
    BY <1>1, Positions
  <1>3. /\ \A k \in 1..Len(t) : f[k] \in 1..Len(s)
        /\ \A k, l \in 1..Len(t) : f[k] = f[l] => k = l
    BY DEF Injection, IsInjective
  <1>4. g \in [A -> B]
    <2>1. ASSUME NEW k \in A PROVE f[k] \in B
      BY <1>2, <1>3 DEF Unpinned
    <2> QED
      BY <2>1
  <1>5. \A k, l \in A : g[k] = g[l] => k = l
    BY <1>1, <1>2, <1>3
  <1> HIDE DEF A, B, g
  <1>6. g \in Injection(A, B)
    BY <1>4, <1>5 DEF Injection, IsInjective
  <1>7. Cardinality(A) <= Cardinality(B)
    BY <1>2, <1>6, FS_Injection
  <1> QED
    BY <1>7 DEF A, B

\* The items at some positions.
LEMMA AtKeeps ==
  ASSUME NEW items \in Seq(Items), NEW I \in SUBSET DOMAIN items
  PROVE  LET t == At(items, I) IN
           /\ t \in Seq(Items)
           /\ ComesFrom(t, items)
           /\ Cardinality(Unpinned(t)) <= Cardinality(Unpinned(items))
           /\ \A i \in I : \E k \in 1..Len(t) : t[k] = items[i]
           /\ \A k \in 1..Len(t) : \E i \in I : t[k] = items[i]
           /\ \A now : NewestFirst(items, now) => NewestFirst(t, now)
  <1> DEFINE t == At(items, I)
  <1>1. t \in Seq(Items) /\ ComesFrom(t, items)
    BY AtLists, AtComesFrom
  <1>2. PICK f : Lists(f, t, items, I)
    BY AtLists
  <1>3. \A now : NewestFirst(items, now) => NewestFirst(t, now)
    BY AtKeepsOrder
  <1> HIDE DEF t
  <1>4. /\ I \in SUBSET Nat /\ I \in SUBSET (1..Len(items)) /\ Len(t) \in Nat
    BY <1>1, Positions, LenProperties
  <1>5. /\ \A k \in 1..Len(t) : f[k] \in I /\ t[k] = items[f[k]]
        /\ \A i \in I : \E k \in 1..Len(t) : t[k] = items[i]
    BY <1>2 DEF Lists
  <1>6. f \in Injection(1..Len(t), 1..Len(items))
    <2>1. f \in Injection(1..Len(t), I)
      BY <1>2, <1>4, IncreasingIsInjective DEF Lists
    <2> QED
      BY <2>1, <1>4 DEF Injection, IsInjective
  <1>7. Cardinality(Unpinned(t)) <= Cardinality(Unpinned(items))
    BY <1>1, <1>5, <1>6, NoMoreUnpinned
  <1> QED
    BY <1>1, <1>3, <1>5, <1>7 DEF t

\* t holds every item of s, as it was or, if of the text, made new; and but for the
\* first item of t what stands before it stood before it.
HoldsAt(t, s, text, time, i, k) ==
  /\ t[k].item_id = s[i].item_id /\ t[k].text = s[i].text
  /\ t[k].is_pinned = s[i].is_pinned
  /\ \/ t[k].captured_at = s[i].captured_at
     \/ s[i].text = text /\ t[k].captured_at = time
  /\ \A j \in 2..(k - 1) : \E l \in 1..(i - 1) : t[j].item_id = s[l].item_id

Holds(t, s, text, time) ==
  \A i \in 1..Len(s) : \E k \in 1..Len(t) : HoldsAt(t, s, text, time, i, k)

\* A text that is there: its item moves to the front.
LEMMA Recaptured ==
  ASSUME NEW items \in Seq(Items), NEW x \in 1..Len(items), NEW now \in Nat,
         NEW source \in Sources \cup {NoSource}
  PROVE  LET m == [items[x] EXCEPT !.captured_at = now, !.source = source]
             t == <<m>> \o RemoveAt(items, x)
         IN /\ t \in Seq(Items) /\ Len(t) = Len(items)
            /\ ComesFrom(t, items)
            /\ Holds(t, items, items[x].text, now)
            /\ NewestFirst(items, now) => NewestFirst(t, now)
  <1> DEFINE m == [items[x] EXCEPT !.captured_at = now, !.source = source]
             t == <<m>> \o RemoveAt(items, x)
             n == Len(items)
  <1>1. n \in Nat /\ x \in Nat /\ 1 <= x /\ x <= n
    BY LenProperties
  <1>2. \A i \in 1..n : items[i] \in Items /\ items[i].captured_at \in Nat
    <2>1. \A i \in 1..n : items[i] \in Items
      BY ElementOfSeq
    <2> QED
      BY <2>1 DEF Items
  <1>3. /\ m \in Items /\ m.item_id = items[x].item_id /\ m.text = items[x].text
        /\ m.is_pinned = items[x].is_pinned /\ m.captured_at = now
    BY <1>2 DEF Items
  <1> HIDE DEF m
  <1>4. /\ t \in Seq(Items) /\ Len(t) = n /\ t[1] = m
        /\ \A k \in 2..n : t[k] = items[IF k <= x THEN k - 1 ELSE k]
        /\ ComesFrom(t, items)
    BY <1>3, ToFront
  <1> HIDE DEF t, n
  <1>5. \A i \in 1..n : \/ i = x /\ t[1] = m
                        \/ i < x /\ i + 1 \in 2..n /\ t[i + 1] = items[i]
                        \/ i > x /\ i \in 2..n /\ t[i] = items[i]
    <2> TAKE i \in 1..n
    <2>1. CASE i = x
      BY <2>1, <1>4
    <2>2. CASE i < x
      <3>1. i + 1 \in 2..n /\ i + 1 <= x /\ i + 1 - 1 = i
        BY <2>2, <1>1
      <3> QED
        BY <2>2, <3>1, <1>4
    <2>3. CASE i > x
      <3>1. i \in 2..n /\ ~(i <= x)
        BY <2>3, <1>1
      <3> QED
        BY <2>3, <3>1, <1>4
    <2> QED
      BY <2>1, <2>2, <2>3, <1>1
  <1>6. Holds(t, items, items[x].text, now)
    <2> SUFFICES ASSUME NEW i \in 1..n
                 PROVE  \E k \in 1..n : HoldsAt(t, items, items[x].text, now, i, k)
      BY <1>4 DEF Holds, n
    <2>1. 1 \in 1..n /\ \A k \in 2..n : k \in 1..n
      BY <1>1
    <2>2. CASE i = x /\ t[1] = m
      <3>1. HoldsAt(t, items, items[x].text, now, i, 1)
        BY <2>2, <1>3 DEF HoldsAt
      <3> QED
        BY <3>1, <2>1
    <2>3. CASE i < x /\ i + 1 \in 2..n /\ t[i + 1] = items[i]
      <3>1. ASSUME NEW j \in 2..(i + 1 - 1)
            PROVE  \E l \in 1..(i - 1) : t[j].item_id = items[l].item_id
        <4>1. j \in 2..n /\ j <= x /\ j - 1 \in 1..(i - 1)
          BY <2>3, <1>1
        <4>2. t[j] = items[j - 1]
          BY <4>1, <1>4
        <4> QED
          BY <4>1, <4>2
      <3>2. HoldsAt(t, items, items[x].text, now, i, i + 1)
        BY <3>1, <2>3 DEF HoldsAt
      <3> QED
        BY <3>2, <2>1, <2>3
    <2>4. CASE i > x /\ i \in 2..n /\ t[i] = items[i]
      <3>1. ASSUME NEW j \in 2..(i - 1)
            PROVE  \E l \in 1..(i - 1) : t[j].item_id = items[l].item_id
        <4>1. j \in 2..n /\ j \in 1..(i - 1) /\ j - 1 \in 1..(i - 1)
          BY <2>4, <1>1
        <4>2. t[j] = items[j - 1] \/ t[j] = items[j]
          BY <4>1, <1>4
        <4> QED
          BY <4>1, <4>2
      <3>2. HoldsAt(t, items, items[x].text, now, i, i)
        BY <3>1, <2>4 DEF HoldsAt
      <3> QED
        BY <3>2, <2>1, <2>4
    <2> QED
      BY <2>2, <2>3, <2>4, <1>5
  <1>7. ASSUME NewestFirst(items, now) PROVE NewestFirst(t, now)
    <2>1. \A i \in 1..n : items[i].captured_at <= now
      BY <1>7 DEF NewestFirst, n
    <2>2. \A i, j \in 1..n : i < j => items[j].captured_at <= items[i].captured_at
      BY <1>7 DEF NewestFirst, n
    <2>3. \A k \in 2..n : /\ (IF k <= x THEN k - 1 ELSE k) \in 1..n
                          /\ t[k].captured_at <= now
      BY <2>1, <1>1, <1>4
    <2>4. t[1].captured_at = now /\ now <= now
      BY <1>3, <1>4
    <2>5. ASSUME NEW i \in 2..n, NEW j \in 2..n, i < j
          PROVE  t[j].captured_at <= t[i].captured_at
      <3> DEFINE u == IF i <= x THEN i - 1 ELSE i
                 v == IF j <= x THEN j - 1 ELSE j
      <3>1. u \in 1..n /\ v \in 1..n /\ u < v
        BY <2>5, <1>1
      <3>2. t[i] = items[u] /\ t[j] = items[v]
        BY <1>4
      <3> HIDE DEF u, v
      <3> QED
        BY <3>1, <3>2, <2>2
    <2>6. \A i \in 1..n : i = 1 \/ i \in 2..n
      BY <1>1
    <2>7. \A i \in 1..n : t[i].captured_at <= now
      BY <2>3, <2>4, <2>6
    <2>8. ASSUME NEW i \in 1..n, NEW j \in 1..n, i < j
          PROVE  t[j].captured_at <= t[i].captured_at
      <3>1. j \in 2..n
        BY <2>8, <1>1
      <3> QED
        BY <3>1, <2>3, <2>4, <2>5, <2>6, <2>8
    <2> QED
      BY <2>7, <2>8, <1>4 DEF NewestFirst, n
  <1> QED
    BY <1>4, <1>6, <1>7 DEF t, m, n

\* A text that is not, or that is kept as often as it is copied: a new item.
LEMMA Added ==
  ASSUME NEW items \in Seq(Items), NEW m \in Items, NEW now \in Nat, m.captured_at = now
  PROVE  LET t == <<m>> \o items IN
           /\ t \in Seq(Items) /\ Len(t) = Len(items) + 1
           /\ \A text : Holds(t, items, text, now)
           /\ NewestFirst(items, now) => NewestFirst(t, now)
           /\ Distinct(items) /\ (\A i \in 1..Len(items) : items[i].item_id # m.item_id) =>
                Distinct(t)
           /\ m.item_id \in Nat /\ IdsBelow(items, m.item_id) => IdsBelow(t, m.item_id + 1)
           /\ \A text :
                \/ Cardinality(CopiesAmong(t, text)) <= Cardinality(CopiesAmong(items, text))
                \/ text = m.text /\ CopiesAmong(items, text) # {}
                \/ text = m.text /\ Cardinality(CopiesAmong(t, text)) <= 1
  <1> DEFINE t == <<m>> \o items
             n == Len(items)
  <1>1. n \in Nat /\ DOMAIN items = 1..n
    BY LenProperties
  <1>2. \A i \in 1..n : items[i].captured_at \in Nat
    <2>1. \A i \in 1..n : items[i] \in Items
      BY ElementOfSeq
    <2> QED
      BY <2>1 DEF Items
  <1>3. /\ t \in Seq(Items) /\ Len(t) = n + 1 /\ t[1] = m
        /\ \A k \in 2..Len(t) : t[k] = items[k - 1]
        /\ \A k \in 1..n : t[k + 1] = items[k]
    BY InFront
  <1> HIDE DEF t, n
  <1>5. DOMAIN t = 1..(n + 1)
    BY <1>3, LenProperties
  <1>6. \A k \in 1..(n + 1) : \/ k = 1 /\ t[k] = m
                              \/ k \in 2..(n + 1) /\ k - 1 \in 1..n /\ t[k] = items[k - 1]
    BY <1>1, <1>3
  <1>7. ASSUME NEW text PROVE Holds(t, items, text, now)
    <2> SUFFICES ASSUME NEW i \in 1..n
                 PROVE  \E k \in 1..(n + 1) : HoldsAt(t, items, text, now, i, k)
      BY <1>3 DEF Holds, n
    <2>1. i + 1 \in 1..(n + 1) /\ t[i + 1] = items[i]
      BY <1>1, <1>3
    <2>2. ASSUME NEW j \in 2..(i + 1 - 1)
          PROVE  \E l \in 1..(i - 1) : t[j].item_id = items[l].item_id
      <3>1. j \in 1..(n + 1) /\ j # 1 /\ j - 1 \in 1..(i - 1)
        BY <1>1
      <3> QED
        BY <3>1, <1>6
    <2>3. HoldsAt(t, items, text, now, i, i + 1)
      BY <2>1, <2>2 DEF HoldsAt
    <2> QED
      BY <2>1, <2>3
  <1>8. ASSUME NewestFirst(items, now) PROVE NewestFirst(t, now)
    <2>1. \A i \in 1..n : items[i].captured_at <= now
      BY <1>8 DEF NewestFirst, n
    <2>2. \A i, j \in 1..n : i < j => items[j].captured_at <= items[i].captured_at
      BY <1>8 DEF NewestFirst, n
    <2>3. \A i \in 1..(n + 1) : t[i].captured_at <= now
      BY <2>1, <1>6
    <2>4. ASSUME NEW i \in 1..(n + 1), NEW j \in 1..(n + 1), i < j
          PROVE  t[j].captured_at <= t[i].captured_at
      <3>1. CASE i = 1
        BY <3>1, <2>3, <1>6
      <3>2. CASE i # 1
        <4>1. i - 1 \in 1..n /\ j - 1 \in 1..n /\ i - 1 < j - 1 /\ j # 1
          BY <3>2, <2>4, <1>1
        <4>2. t[i] = items[i - 1] /\ t[j] = items[j - 1]
          BY <3>2, <4>1, <1>6
        <4> QED
          BY <4>1, <4>2, <2>2
      <3> QED
        BY <3>1, <3>2
    <2> QED
      BY <2>3, <2>4, <1>3 DEF NewestFirst
  <1>9. ASSUME Distinct(items), \A i \in 1..n : items[i].item_id # m.item_id
        PROVE  Distinct(t)
    <2>1. \A i, j \in 1..n : items[i].item_id = items[j].item_id => i = j
      BY <1>9 DEF Distinct, n
    <2>2. ASSUME NEW i \in 1..(n + 1), NEW j \in 1..(n + 1), t[i].item_id = t[j].item_id
          PROVE  i = j
      <3>1. CASE i = 1 /\ j # 1
        BY <3>1, <2>2, <1>6, <1>9
      <3>2. CASE i # 1 /\ j = 1
        BY <3>2, <2>2, <1>6, <1>9
      <3>3. CASE i # 1 /\ j # 1
        <4>1. i - 1 = j - 1
          BY <3>3, <2>1, <2>2, <1>6
        <4> QED
          BY <4>1, <1>1
      <3> QED
        BY <3>1, <3>2, <3>3
    <2> QED
      BY <2>2, <1>3 DEF Distinct
  <1>11. ASSUME m.item_id \in Nat, IdsBelow(items, m.item_id)
         PROVE  IdsBelow(t, m.item_id + 1)
    <2>1. \A i \in 1..n : items[i].item_id \in 0..(m.item_id - 1)
      BY <1>11 DEF IdsBelow, n
    <2>2. \A i \in 1..(n + 1) : t[i].item_id \in 0..(m.item_id + 1 - 1)
      BY <2>1, <1>6, <1>11
    <2> QED
      BY <2>2, <1>3 DEF IdsBelow
  <1>10. ASSUME NEW text
         PROVE  \/ Cardinality(CopiesAmong(t, text)) <= Cardinality(CopiesAmong(items, text))
                \/ text = m.text /\ CopiesAmong(items, text) # {}
                \/ text = m.text /\ Cardinality(CopiesAmong(t, text)) <= 1
    <2> DEFINE A == CopiesAmong(t, text)
               B == CopiesAmong(items, text)
               g == [k \in A |-> k - 1]
    <2>1. /\ \A k : k \in A <=> k \in 1..(n + 1) /\ t[k].text = text
          /\ \A k : k \in B <=> k \in 1..n /\ items[k].text = text
      BY <1>1, <1>5 DEF CopiesAmong
    <2>2. IsFiniteSet(B) /\ Cardinality(A) \in Nat /\ Cardinality(B) \in Nat
      <3>1. A \in SUBSET DOMAIN t /\ B \in SUBSET DOMAIN items
        BY DEF CopiesAmong
      <3> QED
        BY <3>1, <1>3, Positions
    <2>3. CASE text # m.text
      <3>1. \A k \in A : k \in Nat /\ k - 1 \in B
        BY <2>1, <2>3, <1>6
      <3>2. g \in [A -> B]
        BY <3>1
      <3>3. \A k, l \in A : g[k] = g[l] => k = l
        BY <3>1
      <3> HIDE DEF A, B, g
      <3>4. g \in Injection(A, B)
        BY <3>2, <3>3 DEF Injection, IsInjective
      <3>5. Cardinality(A) <= Cardinality(B)
        BY <3>4, <2>2, FS_Injection
      <3> QED
        BY <3>5 DEF A, B
    <2>4. CASE text = m.text /\ B = {}
      <3>1. A = {1}
        <4>1. \A k \in A : k = 1
          BY <2>1, <2>4, <1>6
        <4>2. 1 \in A
          BY <2>1, <2>4, <1>1, <1>3
        <4> QED
          BY <4>1, <4>2
      <3>2. Cardinality(A) = 1
        BY <3>1, FS_Singleton
      <3> QED
        BY <3>2, <2>4
    <2> QED
      BY <2>3, <2>4
  <1> QED
    BY <1>3, <1>7, <1>8, <1>9, <1>10, <1>11 DEF t, n
=============================================================================
