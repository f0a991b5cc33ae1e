-------------------------- MODULE StackTrackerProofs --------------------------
(***************************************************************************)
(* What StackTracker promises for any windows, requests, restarts and      *)
(* other clients.                                                          *)
(***************************************************************************)
EXTENDS StackTracker, FiniteSetTheorems, SequenceTheorems, WellFoundedInduction, TLAPS

-----------------------------------------------------------------------------
(* Lists *)
LEMMA InList ==
    ASSUME NEW E, NEW q \in Seq(E)
    PROVE  /\ Len(q) \in Nat /\ DOMAIN q = 1..Len(q) /\ ToSet(q) \subseteq E
           /\ \A x : x \in ToSet(q) <=> \E i \in 1..Len(q) : x = q[i]
           /\ \A i \in 1..Len(q) : q[i] \in E /\ q[i] \in ToSet(q)
<1>1. Len(q) \in Nat /\ DOMAIN q = 1..Len(q) /\ \A i \in 1..Len(q) : q[i] \in E
  BY LenProperties
<1> QED BY <1>1 DEF ToSet

LEMMA RemoveAtProperties ==
    ASSUME NEW E, NEW q \in Seq(E), NEW i \in 1..Len(q)
    PROVE  /\ RemoveAt(q, i) \in Seq(E)
           /\ Len(RemoveAt(q, i)) = Len(q) - 1
           /\ \A j \in 1..Len(q) - 1 : RemoveAt(q, i)[j] = IF j < i THEN q[j] ELSE q[j + 1]
<1> DEFINE a == SubSeq(q, 1, i - 1)
           c == SubSeq(q, i + 1, Len(q))
<1>1. Len(q) \in Nat /\ \A j \in 1..Len(q) : q[j] \in E
  BY LenProperties
<1>2. /\ a \in Seq(E) /\ Len(a) = i - 1
      /\ \A j \in 1..i - 1 : a[j] = q[j]
  BY <1>1, SubSeqProperties
<1>3. /\ c \in Seq(E) /\ Len(c) = Len(q) - i
      /\ \A j \in 1..Len(q) - i : c[j] = q[i + j]
  <2>1. i + 1 \in 1..Len(q) + 1 /\ Len(q) - (i + 1) + 1 = Len(q) - i
    BY <1>1
  <2>2. /\ c \in Seq(E)
        /\ Len(c) = IF i + 1 <= Len(q) THEN Len(q) - (i + 1) + 1 ELSE 0
        /\ \A j \in 1..Len(q) - (i + 1) + 1 : c[j] = q[(i + 1) + j - 1]
    BY <1>1, <2>1, SubSeqProperties
  <2>3. \A j \in 1..Len(q) - i : (i + 1) + j - 1 = i + j
    BY <1>1
  <2> HIDE DEF c
  <2>4. Len(c) = Len(q) - i
    BY <1>1, <2>2
  <2>5. 1..Len(q) - (i + 1) + 1 = 1..Len(q) - i
    BY <1>1, <2>1
  <2>6. \A j \in 1..Len(q) - i : c[j] = q[(i + 1) + j - 1]
    BY <2>2, <2>5, Zenon
  <2> QED BY <2>2, <2>3, <2>4, <2>6
<1> HIDE DEF a, c
<1>4. /\ a \o c \in Seq(E) /\ Len(a \o c) = Len(a) + Len(c)
      /\ \A j \in 1..Len(a) + Len(c) : (a \o c)[j] = IF j <= Len(a) THEN a[j] ELSE c[j - Len(a)]
  BY <1>2, <1>3, ConcatProperties, Zenon
<1>5. Len(a) + Len(c) = Len(q) - 1
  BY <1>1, <1>2, <1>3
<1>6. ASSUME NEW j \in 1..Len(q) - 1
      PROVE  (a \o c)[j] = IF j < i THEN q[j] ELSE q[j + 1]
  <2>1. CASE j < i
    <3>1. j <= Len(a) /\ j \in 1..i - 1
      BY <1>2, <2>1
    <3> QED BY <1>2, <1>4, <1>5, <2>1, <3>1
  <2>2. CASE ~(j < i)
    <3>1. ~(j <= Len(a)) /\ j - Len(a) \in 1..Len(q) - i /\ i + (j - Len(a)) = j + 1
      BY <1>1, <1>2, <2>2
    <3> QED BY <1>3, <1>4, <1>5, <2>2, <3>1
  <2> QED BY <2>1, <2>2
<1> QED BY <1>4, <1>5, <1>6 DEF RemoveAt, a, c

LEMMA InsertAtProperties ==
    ASSUME NEW E, NEW q \in Seq(E), NEW i \in 1..Len(q) + 1, NEW e \in E
    PROVE  /\ InsertAt(q, i, e) \in Seq(E)
           /\ Len(InsertAt(q, i, e)) = Len(q) + 1
           /\ \A j \in 1..Len(q) + 1 :
                InsertAt(q, i, e)[j] = IF j < i THEN q[j] ELSE IF j = i THEN e ELSE q[j - 1]
<1> DEFINE a == SubSeq(q, 1, i - 1)
           c == SubSeq(q, i, Len(q))
<1>1. Len(q) \in Nat /\ \A j \in 1..Len(q) : q[j] \in E
  BY LenProperties
<1>2. /\ a \in Seq(E) /\ Len(a) = i - 1
      /\ \A j \in 1..i - 1 : a[j] = q[j]
  BY <1>1, SubSeqProperties
<1>3. /\ c \in Seq(E) /\ Len(c) = Len(q) - i + 1
      /\ \A j \in 1..Len(q) - i + 1 : c[j] = q[i + j - 1]
  BY <1>1, SubSeqProperties
<1>4. <<e>> \in Seq(E) /\ Len(<<e>>) = 1 /\ <<e>>[1] = e
  OBVIOUS
<1> HIDE DEF a, c
<1>5. /\ a \o <<e>> \in Seq(E) /\ Len(a \o <<e>>) = i
      /\ \A j \in 1..i : (a \o <<e>>)[j] = IF j < i THEN q[j] ELSE e
  BY <1>2, <1>4, ConcatProperties
<1> DEFINE f == a \o <<e>>
<1>f. f \in Seq(E) /\ Len(f) = i /\ \A j \in 1..i : f[j] = IF j < i THEN q[j] ELSE e
  BY <1>5
<1> HIDE DEF f
<1>6. /\ f \o c \in Seq(E)
      /\ Len(f \o c) = Len(f) + Len(c)
      /\ \A j \in 1..Len(f) + Len(c) : (f \o c)[j] = IF j <= Len(f) THEN f[j] ELSE c[j - Len(f)]
  BY <1>3, <1>f, ConcatProperties, Zenon
<1>7. Len(f) = i /\ Len(f) + Len(c) = Len(q) + 1
  BY <1>3, <1>f
<1>8. ASSUME NEW j \in 1..(Len(q) + 1)
      PROVE  (f \o c)[j] = IF j < i THEN q[j] ELSE IF j = i THEN e ELSE q[j - 1]
  <2>1. j <= i => (f \o c)[j] = IF j < i THEN q[j] ELSE e
    BY <1>1, <1>f, <1>6, <1>7
  <2>2. ASSUME j > i PROVE (f \o c)[j] = q[j - 1]
    <3>1. j - i \in 1..Len(q) - i + 1 /\ i + (j - i) - 1 = j - 1
      BY <2>2
    <3>2. c[j - i] = q[j - 1]
      BY <1>3, <3>1
    <3>3. (f \o c)[j] = c[j - i]
      BY <1>6, <1>7, <2>2
    <3> QED BY <1>1, <2>2, <3>2, <3>3
  <2>3. j <= i \/ j > i
    OBVIOUS
  <2>4. j <= i => (j < i \/ j = i)
    OBVIOUS
  <2>5. j > i => ~(j < i) /\ ~(j = i)
    OBVIOUS
  <2> QED BY <2>1, <2>2, <2>3, <2>4, <2>5, Zenon
<1> QED BY <1>6, <1>7, <1>8 DEF InsertAt, a, c, f


-----------------------------------------------------------------------------
(* Folds.  The library's folds are recursive functions on the subsets of a *)
(* finite set.  That there is such a function is shown by induction on the *)
(* size of the subsets, and induction from the least number of a set of    *)
(* numbers.                                                                *)

(* A set of natural numbers has a least one. *)
LEMMA NatLeast ==
    ASSUME NEW T \in SUBSET Nat, T # {}
    PROVE  \E n \in T : \A m \in T : n <= m
<1> DEFINE R == OpToRel(<, Nat)
<1>1. IsWellFoundedOn(R, Nat)
  BY NatLessThanWellFounded
<1>2. \A x, y \in Nat : x < y => <<x, y>> \in R
  BY DEF OpToRel
<1> HIDE DEF R
<1>3. \E n \in T : \A m \in T : <<m, n>> \notin R
  BY <1>1, WFMin
<1>4. \E n \in T : \A m \in T : ~(m < n)
  BY <1>2, <1>3
<1>5. \A m, n \in Nat : ~(m < n) => n <= m
  OBVIOUS
<1> QED BY <1>4, <1>5

(* A set of numbers that has 0 and, with each number, the next has all. *)
LEMMA NatAll ==
    ASSUME NEW T \in SUBSET Nat, 0 \in T, \A n \in T : n + 1 \in T
    PROVE  T = Nat
<1> SUFFICES ASSUME Nat \ T # {} PROVE FALSE
  OBVIOUS
<1>1. PICK n \in Nat \ T : \A m \in Nat \ T : n <= m
  BY NatLeast
<1>2. n # 0 /\ n - 1 \in Nat /\ ~(n <= n - 1)
  BY <1>1
<1>3. n - 1 \in T
  BY <1>1, <1>2
<1>4. (n - 1) + 1 = n
  BY <1>2
<1> QED BY <1>1, <1>3, <1>4

(* The fold of G from base over the subsets of D, taking pick[u] from u. *)
Picks(pick, D) == \A u \in SUBSET D : u # {} => pick[u] \in u
IsFold(f, base, D, pick, G, V) ==
    /\ f \in [SUBSET D -> V]
    /\ \A u \in SUBSET D : f[u] = IF u = {} THEN base ELSE G[pick[u]][f[u \ {pick[u]}]]

LEMMA FoldExists ==
    ASSUME NEW V, NEW base \in V, NEW D, IsFiniteSet(D), NEW pick, Picks(pick, D),
           NEW G \in [D -> [V -> V]]
    PROVE  \E f : IsFold(f, base, D, pick, G, V)
<1> DEFINE Sub(n) == {u \in SUBSET D : Cardinality(u) <= n}
           Folds(f, n) == /\ f \in [Sub(n) -> V]
                          /\ \A u \in Sub(n) :
                               f[u] = IF u = {} THEN base ELSE G[pick[u]][f[u \ {pick[u]}]]
           T == {n \in Nat : \E f : Folds(f, n)}
<1>0. \A u \in SUBSET D : u # {} => pick[u] \in u
  BY DEF Picks
<1>1. \A u \in SUBSET D : IsFiniteSet(u) /\ Cardinality(u) \in Nat
  BY FS_Subset, FS_CardinalityType
<1>2. \A u \in SUBSET D : u # {} =>
        /\ u \ {pick[u]} \in SUBSET D
        /\ Cardinality(u \ {pick[u]}) = Cardinality(u) - 1
  BY <1>0, <1>1, FS_RemoveElement
<1>3. 0 \in T
  <2> DEFINE f == [u \in Sub(0) |-> base]
  <2>1. \A u \in Sub(0) : u = {}
    BY <1>1, FS_EmptySet
  <2>2. Folds(f, 0)
    BY <2>1
  <2> QED BY <2>2
<1>4. ASSUME NEW n \in T PROVE n + 1 \in T
  <2>1. n \in Nat
    OBVIOUS
  <2>0. PICK f : Folds(f, n)
    OBVIOUS
  <2> DEFINE g == [u \in Sub(n + 1) |->
                     IF u = {} THEN base ELSE G[pick[u]][f[u \ {pick[u]}]]]
  <2>2. ASSUME NEW u \in Sub(n + 1), u # {} PROVE u \ {pick[u]} \in Sub(n)
    <3>1. u \in SUBSET D /\ Cardinality(u) <= n + 1
      BY <2>2
    <3>2. Cardinality(u) - 1 <= n
      BY <1>1, <2>1, <3>1
    <3> QED BY <1>2, <2>2, <3>1, <3>2
  <2>3. Sub(n) \subseteq Sub(n + 1)
    BY <1>1, <2>1
  <2>4. \A u \in Sub(n) : g[u] = f[u]
    BY <2>0, <2>3
  <2>5. g \in [Sub(n + 1) -> V]
    <3> SUFFICES ASSUME NEW u \in Sub(n + 1), u # {}
                 PROVE  G[pick[u]][f[u \ {pick[u]}]] \in V
      OBVIOUS
    <3>1. f[u \ {pick[u]}] \in V
      BY <2>0, <2>2
    <3>2. pick[u] \in D
      BY <1>0
    <3>3. G[pick[u]] \in [V -> V]
      BY <3>2
    <3> QED BY <3>1, <3>3
  <2>6. \A u \in Sub(n + 1) : g[u] = IF u = {} THEN base ELSE G[pick[u]][g[u \ {pick[u]}]]
    BY <2>2, <2>4
  <2>7. Folds(g, n + 1)
    BY <2>5, <2>6
  <2> HIDE DEF Folds, g
  <2> QED BY <2>1, <2>7
<1> HIDE DEF T
<1>5. T \in SUBSET Nat
  BY DEF T
<1>6. Cardinality(D) \in T
  BY <1>1, <1>3, <1>4, <1>5, NatAll
<1> USE DEF T
<1>7. PICK f : Folds(f, Cardinality(D))
  BY <1>6
<1>8. Sub(Cardinality(D)) = SUBSET D
  BY FS_Subset
<1> QED BY <1>7, <1>8 DEF IsFold

(* The greatest of the first k numbers. *)
LEMMA MaxOfFirst ==
    ASSUME NEW k \in Nat \ {0}
    PROVE  Max(1..k) = k
<1>1. k \in 1..k /\ \A y \in 1..k : k >= y
  OBVIOUS
<1>2. Max(1..k) \in 1..k /\ \A y \in 1..k : Max(1..k) >= y
  BY <1>1 DEF Max
<1>3. Max(1..k) >= k /\ k >= Max(1..k)
  BY <1>1, <1>2
<1> QED BY <1>2, <1>3

(* The greatest of some of the first n numbers. *)
LEMMA MaxOfSome ==
    ASSUME NEW n \in Int, NEW u \in SUBSET (1..n), u # {}
    PROVE  Max(u) \in u
<1> DEFINE T == {d \in Nat : \E x \in u : d = n - x}
<1>1. PICK x0 \in u : TRUE
  OBVIOUS
<1>2. n - x0 \in T
  BY <1>1
<1>3. T \in SUBSET Nat /\ T # {}
  BY <1>2
<1>4. PICK d \in T : \A m \in T : d <= m
  BY <1>3, NatLeast
<1>5. PICK x \in u : d = n - x
  BY <1>4
<1>6. ASSUME NEW y \in u PROVE x >= y
  <2>1. n - y \in T
    OBVIOUS
  <2>2. d <= n - y
    BY <1>4, <2>1
  <2> QED BY <1>5, <2>2
<1>7. \E z \in u : \A y \in u : z >= y
  BY <1>6
<1> QED BY <1>7 DEF Max

(* The same, for a fold from the left over n elements. *)
IsLeftFold(f, base, n, G, V) ==
    /\ f \in [SUBSET (1..n) -> V]
    /\ \A u \in SUBSET (1..n) : f[u] = IF u = {} THEN base ELSE G[Max(u)][f[u \ {Max(u)}]]

LEMMA FoldLeftExists ==
    ASSUME NEW V, NEW base \in V, NEW n \in Int, NEW G \in [1..n -> [V -> V]]
    PROVE  \E f : IsLeftFold(f, base, n, G, V)
<1> DEFINE D == 1..n
           pick == [u \in SUBSET D |-> Max(u)]
<1>1. IsFiniteSet(D)
  BY FS_Interval
<1>2. Picks(pick, D)
  BY MaxOfSome DEF Picks
<1>3. \A u \in SUBSET D : pick[u] = Max(u)
  OBVIOUS
<1>4. G \in [D -> [V -> V]]
  OBVIOUS
<1>5. SUBSET (1..n) = SUBSET D
  OBVIOUS
<1> HIDE DEF pick, D
<1>6. PICK f : IsFold(f, base, D, pick, G, V)
  BY <1>1, <1>2, <1>4, FoldExists
<1>7. /\ f \in [SUBSET D -> V]
      /\ \A u \in SUBSET D : f[u] = IF u = {} THEN base ELSE G[Max(u)][f[u \ {Max(u)}]]
  BY <1>3, <1>6 DEF IsFold
<1> QED BY <1>5, <1>7 DEF IsLeftFold

(* What is so at 0, and at k + 1 if it is at k, is so up to n. *)
LEMMA UpTo ==
    ASSUME NEW n \in Nat, NEW T, 0 \in T, \A k \in 0..n - 1 : k \in T => k + 1 \in T
    PROVE  \A k \in 0..n : k \in T
<1> DEFINE U == {k \in Nat : k <= n => k \in T}
<1>1. U \in SUBSET Nat /\ 0 \in U
  OBVIOUS
<1>2. ASSUME NEW k \in U PROVE k + 1 \in U
  <2>1. k \in Nat /\ (k <= n => k \in T)
    OBVIOUS
  <2>2. k + 1 <= n => k \in 0..n - 1 /\ k <= n
    BY <2>1
  <2> QED BY <2>1, <2>2
<1> HIDE DEF U
<1>3. U = Nat
  BY <1>1, <1>2, NatAll
<1> QED BY <1>3 DEF U

(* A function that satisfies the equation of a fold from the left gives    *)
(* the results of the fold for the first k elements.                       *)
LEMMA FirstOf ==
    ASSUME NEW n \in Int, NEW k \in 1..n
    PROVE  /\ 1..k \in SUBSET (1..n) /\ 1..k # {} /\ Max(1..k) = k
           /\ (1..k) \ {k} = 1..k - 1
           /\ 1..0 = {} /\ 1..n \in SUBSET (1..n)
<1>1. Max(1..k) = k
  BY MaxOfFirst
<1>2. k \in 1..k
  OBVIOUS
<1> QED BY <1>1, <1>2

(* A function on the sets of the first n numbers that follows G from base, *)
(* as a fold does, follows it number by number.                            *)
Follows(iter, base, n, G, V) ==
    /\ iter[{}] = base
    /\ \A u \in SUBSET (1..n) :
         u # {} /\ iter[u \ {Max(u)}] \in V => iter[u] = G[Max(u)][iter[u \ {Max(u)}]]

FollowsBy(f, iter, base, n, G, V) ==
    /\ f \in [0..n -> V]
    /\ f[0] = base /\ f[n] = iter[1..n]
    /\ \A k \in 1..n : f[k] = G[k][f[k - 1]]

LEMMA FollowsUp ==
    ASSUME NEW V, NEW base \in V, NEW n \in Nat, NEW G \in [1..n -> [V -> V]], NEW iter,
           Follows(iter, base, n, G, V)
    PROVE  \E f : FollowsBy(f, iter, base, n, G, V)
<1> DEFINE g == [k \in 0..n |-> iter[1..k]]
           T == {k \in 0..n : g[k] \in V}
<1>1. g[0] = base /\ g[n] = iter[1..n]
  <2>1. 1..0 = {} /\ {} \in SUBSET (1..n) /\ 0 \in 0..n /\ n \in 0..n
    OBVIOUS
  <2> QED BY <2>1 DEF Follows
<1>2. ASSUME NEW k \in 1..n, g[k - 1] \in V PROVE g[k] = G[k][g[k - 1]]
  <2>1. k \in 0..n /\ k - 1 \in 0..n
    OBVIOUS
  <2>2. iter[1..k] = G[k][iter[1..k - 1]]
    <3> DEFINE u == 1..k
    <3>1. u \in SUBSET (1..n) /\ u # {} /\ Max(u) = k /\ u \ {k} = 1..k - 1
      BY FirstOf
    <3>0. iter[1..k - 1] \in V
      BY <1>2, <2>1
    <3> HIDE DEF u
    <3>2. iter[u] = G[k][iter[u \ {k}]]
      BY <3>0, <3>1 DEF Follows
    <3>3. iter[u] = G[k][iter[1..k - 1]]
      BY <3>1, <3>2
    <3> QED BY <3>3 DEF u
  <2> QED BY <2>1, <2>2
<1>0. DOMAIN g = 0..n /\ g = [k \in 0..n |-> g[k]]
  OBVIOUS
<1> HIDE DEF g
<1>3. 0 \in T
  BY <1>1
<1>4. ASSUME NEW k \in 0..n - 1, k \in T PROVE k + 1 \in T
  <2>1. k + 1 \in 1..n /\ (k + 1) - 1 = k /\ k + 1 \in 0..n /\ g[k] \in V
    BY <1>4
  <2>2. g[k + 1] = G[k + 1][g[k]]
    BY <1>2, <2>1
  <2>3. G[k + 1] \in [V -> V]
    BY <2>1
  <2>4. G[k + 1][g[k]] \in V
    BY <2>1, <2>3
  <2> QED BY <2>1, <2>2, <2>4
<1> HIDE DEF T
<1>5. \A k \in 0..n : k \in T
  BY <1>3, <1>4, UpTo
<1>6. \A k \in 0..n : g[k] \in V
  BY <1>5 DEF T
<1>7. g \in [0..n -> V]
  BY <1>0, <1>6
<1>8. \A k \in 1..n : k - 1 \in 0..n
  OBVIOUS
<1>9. \A k \in 1..n : g[k] = G[k][g[k - 1]]
  BY <1>2, <1>6, <1>8
<1> QED BY <1>1, <1>7, <1>9 DEF FollowsBy

LEMMA FollowsStays ==
    ASSUME NEW V, NEW base \in V, NEW n \in Int, NEW G \in [1..n -> [V -> V]], NEW iter,
           Follows(iter, base, n, G, V)
    PROVE  iter[1..n] \in V
<1>1. CASE n < 0
  <2>1. 1..n = {}
    BY <1>1
  <2> QED BY <2>1 DEF Follows
<1>2. CASE ~(n < 0)
  <2>1. n \in Nat
    BY <1>2
  <2>2. PICK f : FollowsBy(f, iter, base, n, G, V)
    BY <2>1, FollowsUp
  <2>3. n \in 0..n
    BY <2>1
  <2> QED BY <2>2, <2>3 DEF FollowsBy
<1> QED BY <1>1, <1>2

(* The equation of a fold has a solution in V. *)
Solves(f, base, n, G, V) ==
    /\ f \in [SUBSET (1..n) -> V]
    /\ f[{}] = base
    /\ \A u \in SUBSET (1..n) : u # {} =>
         /\ Max(u) \in 1..n /\ f[u \ {Max(u)}] \in V
         /\ f[u] = G[Max(u)][f[u \ {Max(u)}]]

LEMMA LeftFoldEquation ==
    ASSUME NEW V, NEW base \in V, NEW n \in Int, NEW G \in [1..n -> [V -> V]]
    PROVE  \E f : Solves(f, base, n, G, V)
<1>1. PICK f : IsLeftFold(f, base, n, G, V)
  BY FoldLeftExists
<1>2. ASSUME NEW u \in SUBSET (1..n), u # {}
      PROVE  /\ Max(u) \in 1..n /\ f[u \ {Max(u)}] \in V
             /\ f[u] = G[Max(u)][f[u \ {Max(u)}]]
  <2>1. Max(u) \in 1..n /\ u \ {Max(u)} \in SUBSET (1..n)
    BY <1>2, MaxOfSome
  <2> QED BY <1>1, <1>2, <2>1 DEF IsLeftFold
<1> QED BY <1>1, <1>2 DEF IsLeftFold, Solves
-----------------------------------------------------------------------------
(* Stacks: lists in which no window is twice, which are given by their     *)
(* windows and the order of them.                                          *)
Stacks(E) == {s \in Seq(E) : IsInjective(s)}
Before(s, x, y) == \E i, j \in 1..Len(s) : i < j /\ s[i] = x /\ s[j] = y

LEMMA InStack ==
    ASSUME NEW E, NEW s \in Stacks(E)
    PROVE  /\ s \in Seq(E) /\ Len(s) \in Nat /\ DOMAIN s = 1..Len(s) /\ ToSet(s) \subseteq E
           /\ \A x : x \in ToSet(s) <=> \E i \in 1..Len(s) : x = s[i]
           /\ \A i \in 1..Len(s) : s[i] \in E /\ s[i] \in ToSet(s)
           /\ \A i, j \in 1..Len(s) : s[i] = s[j] => i = j
<1>1. s \in Seq(E) /\ IsInjective(s)
  BY DEF Stacks
<1> QED BY <1>1, InList DEF IsInjective

LEMMA IsStack ==
    ASSUME NEW E, NEW s \in Seq(E), \A i, j \in 1..Len(s) : s[i] = s[j] => i = j
    PROVE  s \in Stacks(E)
BY InList DEF Stacks, IsInjective

(* Of two different windows one is before the other. *)
LEMMA BeforeIs ==
    ASSUME NEW E, NEW s \in Stacks(E)
    PROVE  /\ \A i, j \in 1..Len(s) : Before(s, s[i], s[j]) <=> i < j
           /\ \A x, y : Before(s, x, y) => x \in ToSet(s) /\ y \in ToSet(s) /\ x # y /\ ~Before(s, y, x)
           /\ \A x, y \in ToSet(s) : x # y => Before(s, x, y) \/ Before(s, y, x)
<1>1. /\ Len(s) \in Nat
      /\ \A x : x \in ToSet(s) <=> \E i \in 1..Len(s) : x = s[i]
      /\ \A i, j \in 1..Len(s) : s[i] = s[j] => i = j
  BY InStack
<1>2. ASSUME NEW i \in 1..Len(s), NEW j \in 1..Len(s) PROVE Before(s, s[i], s[j]) <=> i < j
  <2>1. i < j => Before(s, s[i], s[j])
    BY DEF Before
  <2>2. Before(s, s[i], s[j]) => i < j
    BY <1>1 DEF Before
  <2> QED BY <2>1, <2>2
<1>3. ASSUME NEW x, NEW y, Before(s, x, y)
      PROVE  x \in ToSet(s) /\ y \in ToSet(s) /\ x # y /\ ~Before(s, y, x)
  <2>1. PICK i, j \in 1..Len(s) : i < j /\ s[i] = x /\ s[j] = y
    BY <1>3 DEF Before
  <2>2. ~(j < i) /\ i # j
    BY <2>1
  <2>3. ~Before(s, s[j], s[i])
    BY <1>2, <2>2
  <2>4. s[i] # s[j]
    BY <1>1, <2>2
  <2> QED BY <1>1, <2>1, <2>3, <2>4
<1>4. ASSUME NEW x \in ToSet(s), NEW y \in ToSet(s), x # y PROVE Before(s, x, y) \/ Before(s, y, x)
  <2>1. PICK i \in 1..Len(s) : x = s[i]
    BY <1>1
  <2>2. PICK j \in 1..Len(s) : y = s[j]
    BY <1>1
  <2>3. i # j
    BY <1>4, <2>1, <2>2
  <2>4. i < j \/ j < i
    BY <2>3
  <2> QED BY <1>2, <2>1, <2>2, <2>4
<1> QED BY <1>2, <1>3, <1>4

LEMMA SameUpTo ==
    ASSUME NEW E, NEW u \in Stacks(E), NEW T, NEW v \in Stacks(T), ToSet(u) = ToSet(v),
           \A x, y : Before(u, x, y) => Before(v, x, y),
           NEW k \in Nat, k \in 1..Len(u), k \in 1..Len(v), \A i \in 1..k - 1 : u[i] = v[i]
    PROVE  u[k] = v[k]
<1> SUFFICES ASSUME u[k] # v[k] PROVE FALSE
  OBVIOUS
<1>0. v[k] \in ToSet(u)
  BY InStack
<1>1. PICK i \in 1..Len(u) : v[k] = u[i]
  BY <1>0, InStack
<1>2. CASE i < k
  <2>1. i \in 1..k - 1 /\ i \in 1..Len(v) /\ i # k
    BY <1>2, InStack
  <2>2. v[i] = v[k]
    BY <1>1, <2>1
  <2> QED BY <2>1, <2>2, InStack
<1>3. CASE i > k
  <2>1. Before(u, u[k], v[k])
    BY <1>1, <1>3 DEF Before
  <2>2. PICK g, h \in 1..Len(v) : g < h /\ v[g] = u[k] /\ v[h] = v[k]
    BY <2>1 DEF Before
  <2>3. h = k
    BY <2>2, InStack
  <2>4. g \in 1..k - 1 /\ g # k /\ g \in 1..Len(u)
    BY <2>2, <2>3, InStack
  <2>5. u[g] = u[k]
    BY <2>2, <2>4
  <2> QED BY <2>4, <2>5, InStack
<1>4. i \in Nat /\ i # k
  BY <1>1
<1> QED BY <1>2, <1>3, <1>4

(* Stacks of the same windows in the same order are the same. *)
LEMMA SameStack ==
    ASSUME NEW E, NEW u \in Stacks(E), NEW T, NEW v \in Stacks(T), ToSet(u) = ToSet(v),
           \A x, y : Before(u, x, y) => Before(v, x, y)
    PROVE  u = v
<1>1. u \in Seq(E) /\ v \in Seq(T) /\ Len(u) \in Nat /\ Len(v) \in Nat
  BY InStack
<1> DEFINE D == {k \in Nat : k \in 1..Len(u) /\ k \in 1..Len(v) /\ u[k] # v[k]}
<1>2. D = {}
  <2> SUFFICES ASSUME D # {} PROVE FALSE
    OBVIOUS
  <2>1. PICK k \in D : \A m \in D : k <= m
    <3> HIDE DEF D
    <3>1. D \in SUBSET Nat
      BY DEF D
    <3> QED BY <3>1, NatLeast
  <2>2. \A i \in 1..k - 1 : i \in Nat /\ i \in 1..Len(u) /\ i \in 1..Len(v) /\ ~(k <= i)
    BY <1>1, <2>1
  <2>3. \A i \in 1..k - 1 : u[i] = v[i]
    BY <2>1, <2>2
  <2>4. k \in Nat /\ k \in 1..Len(u) /\ k \in 1..Len(v) /\ u[k] # v[k]
    BY <2>1
  <2> HIDE DEF D
  <2> QED BY <2>3, <2>4, SameUpTo
<1>3. \A k \in 1..Len(u) : k \in 1..Len(v) => u[k] = v[k]
  BY <1>2
<1> HIDE DEF D
<1>4. Len(u) <= Len(v)
  <2> SUFFICES ASSUME Len(v) < Len(u) PROVE FALSE
    BY <1>1
  <2>1. Len(v) + 1 \in 1..Len(u)
    BY <1>1
  <2>0. u[Len(v) + 1] \in ToSet(v)
    BY <2>1, InStack
  <2>2. PICK i \in 1..Len(v) : u[Len(v) + 1] = v[i]
    BY <2>0, InStack
  <2>3. i \in 1..Len(u) /\ i # Len(v) + 1
    BY <1>1
  <2>4. u[i] = u[Len(v) + 1]
    BY <1>3, <2>2, <2>3
  <2> QED BY <2>1, <2>3, <2>4, InStack
<1>5. Len(v) <= Len(u)
  <2> SUFFICES ASSUME Len(u) < Len(v) PROVE FALSE
    BY <1>1
  <2>1. Len(u) + 1 \in 1..Len(v)
    BY <1>1
  <2>2. PICK i \in 1..Len(u) : v[Len(u) + 1] = u[i]
    BY <2>1, InStack
  <2>3. i \in 1..Len(v) /\ i # Len(u) + 1
    BY <1>1
  <2>4. v[i] = v[Len(u) + 1]
    BY <1>3, <2>2, <2>3
  <2> QED BY <2>1, <2>3, <2>4, InStack
<1>6. Len(u) = Len(v)
  BY <1>1, <1>4, <1>5
<1>7. DOMAIN u = 1..Len(u) /\ DOMAIN v = 1..Len(v)
  BY InStack
<1> QED BY <1>1, <1>3, <1>6, <1>7

(* The same windows in the same order, as far as X windows go *)
KeepsX(s, r) ==
    /\ ToSet(r) \cap XWindows = ToSet(s) \cap XWindows
    /\ \A x, y \in XWindows : Before(s, x, y) <=> Before(r, x, y)

(* Where a window is *)
LEMMA PosIs ==
    ASSUME NEW E, NEW s \in Stacks(E), NEW x
    PROVE  /\ Pos(s, x) \in 0..Len(s)
           /\ Pos(s, x) = 0 <=> x \notin ToSet(s)
           /\ Pos(s, x) # 0 => Pos(s, x) \in 1..Len(s) /\ s[Pos(s, x)] = x
<1> DEFINE I == {i \in 1..Len(s) : s[i] = x}
<1>1. Pos(s, x) = IF I # {} THEN Min(I) ELSE 0
  BY DEF Pos, SelectInSeq
<1>2. Len(s) \in Nat /\ (x \in ToSet(s) <=> I # {})
  BY InStack
<1>3. CASE I = {}
  BY <1>1, <1>2, <1>3
<1>4. CASE I # {}
  <2>1. I \in SUBSET Nat
    BY <1>2
  <2> HIDE DEF I
  <2>2. Min(I) \in I
    BY <1>4, <2>1, NatLeast DEF Min
  <2> QED BY <1>1, <1>2, <1>4, <2>2 DEF I
<1> QED BY <1>3, <1>4

-----------------------------------------------------------------------------
(* What adding, removing and inserting a window does to the windows of a   *)
(* stack and their order.                                                  *)
OnTop(s, r, e) ==
    /\ ToSet(r) = ToSet(s) \cup {e}
    /\ \A x, y : Before(r, x, y) <=> Before(s, x, y) \/ (x \in ToSet(s) /\ y = e)

LEMMA AppendIs ==
    ASSUME NEW E, NEW s \in Stacks(E), NEW e \in E, e \notin ToSet(s)
    PROVE  Append(s, e) \in Stacks(E) /\ OnTop(s, Append(s, e), e)
<1> DEFINE r == Append(s, e)
           n == Len(s)
<1>1. /\ s \in Seq(E) /\ n \in Nat
      /\ \A x : x \in ToSet(s) <=> \E i \in 1..n : x = s[i]
      /\ \A i, j \in 1..n : s[i] = s[j] => i = j
  BY InStack
<1>2. /\ r \in Seq(E) /\ Len(r) = n + 1 /\ r[n + 1] = e
      /\ \A i \in 1..n : r[i] = s[i]
  BY <1>1, AppendProperties
<1>3. \A i \in 1..n : r[i] # e
  BY <1>1, <1>2
<1> HIDE DEF r, n
<1>4. \A i \in 1..Len(r) : i \in 1..n \/ i = n + 1
  BY <1>1, <1>2
<1>0. 1..n \subseteq 1..Len(r) /\ n + 1 \in 1..Len(r)
  BY <1>1, <1>2
<1>5. \A i, j \in 1..Len(r) : r[i] = r[j] => i = j
  BY <1>1, <1>2, <1>3, <1>4
<1>6. r \in Stacks(E)
  BY <1>2, <1>5, IsStack
<1>7. ToSet(r) = ToSet(s) \cup {e}
  <2>1. \A x : x \in ToSet(r) <=> \E i \in 1..Len(r) : x = r[i]
    BY <1>6, InStack
  <2>2. \A x : x \in ToSet(r) <=> x \in ToSet(s) \/ x = e
    BY <1>0, <1>1, <1>2, <1>4, <2>1
  <2> QED BY <2>2
<1>8. ASSUME NEW x, NEW y PROVE Before(r, x, y) <=> Before(s, x, y) \/ (x \in ToSet(s) /\ y = e)
  <2>1. ASSUME Before(r, x, y) PROVE Before(s, x, y) \/ (x \in ToSet(s) /\ y = e)
    <3>1. PICK i, j \in 1..Len(r) : i < j /\ r[i] = x /\ r[j] = y
      BY <2>1 DEF Before
    <3>2. i \in 1..n
      BY <1>1, <1>2, <3>1
    <3>3. CASE j = n + 1
      BY <1>1, <1>2, <3>1, <3>2, <3>3
    <3>4. CASE j \in 1..n
      BY <1>2, <3>1, <3>2, <3>4 DEF Before, n
    <3> QED BY <1>4, <3>3, <3>4
  <2>2. ASSUME Before(s, x, y) PROVE Before(r, x, y)
    <3>1. PICK i, j \in 1..n : i < j /\ s[i] = x /\ s[j] = y
      BY <2>2 DEF Before, n
    <3> QED BY <1>0, <1>2, <3>1 DEF Before
  <2>3. ASSUME x \in ToSet(s), y = e PROVE Before(r, x, y)
    <3>1. PICK i \in 1..n : x = s[i]
      BY <1>1, <2>3
    <3>2. i < n + 1
      BY <1>1
    <3> QED BY <1>0, <1>2, <2>3, <3>1, <3>2 DEF Before
  <2> QED BY <2>1, <2>2, <2>3
<1> QED BY <1>6, <1>7, <1>8 DEF r, OnTop

Without(s, r, e) ==
    /\ ToSet(r) = ToSet(s) \ {e}
    /\ \A x, y : Before(r, x, y) <=> Before(s, x, y) /\ x # e /\ y # e

LEMMA RemoveIs ==
    ASSUME NEW E, NEW s \in Stacks(E), NEW k \in 1..Len(s)
    PROVE  /\ RemoveAt(s, k) \in Stacks(E) /\ Len(RemoveAt(s, k)) = Len(s) - 1
           /\ \A i \in 1..Len(s) : i < k => RemoveAt(s, k)[i] = s[i]
           /\ \A i \in 1..Len(s) : i > k => RemoveAt(s, k)[i - 1] = s[i]
           /\ Without(s, RemoveAt(s, k), s[k])
<1> DEFINE r == RemoveAt(s, k)
           n == Len(s)
           from == [j \in 1..n - 1 |-> IF j < k THEN j ELSE j + 1]
           to == [i \in 1..n |-> IF i < k THEN i ELSE i - 1]
<1>1. /\ s \in Seq(E) /\ n \in Nat
      /\ \A x : x \in ToSet(s) <=> \E i \in 1..n : x = s[i]
      /\ \A i, j \in 1..n : s[i] = s[j] => i = j
  BY InStack
<1>2. /\ r \in Seq(E) /\ Len(r) = n - 1
      /\ \A j \in 1..n - 1 : r[j] = IF j < k THEN s[j] ELSE s[j + 1]
  BY <1>1, RemoveAtProperties
<1>3. \A j \in 1..n - 1 : from[j] \in 1..n /\ from[j] # k /\ r[j] = s[from[j]]
  BY <1>1, <1>2
<1>4. \A i \in 1..n : i # k => to[i] \in 1..n - 1 /\ from[to[i]] = i
  BY <1>1
<1>5. \A i, j \in 1..n - 1 : i < j <=> from[i] < from[j]
  BY <1>1
<1>6. \A i \in 1..n : i < k => r[i] = s[i]
  BY <1>1, <1>2
<1>7. \A i \in 1..n : i > k => r[i - 1] = s[i]
  BY <1>1, <1>2
<1> HIDE DEF r, from, to
<1>8. \A i, j \in 1..n - 1 : from[i] = from[j] => i = j
  <2>1. \A i, j \in 1..n - 1 : i < j \/ i = j \/ j < i
    BY <1>1
  <2>2. \A i \in 1..n - 1 : ~(from[i] < from[i])
    BY <1>5
  <2> QED BY <1>3, <1>5, <2>1, <2>2
<1>9. r \in Stacks(E)
  <2>1. \A i, j \in 1..Len(r) : r[i] = r[j] => i = j
    BY <1>1, <1>2, <1>3, <1>8
  <2> QED BY <1>2, <2>1, IsStack
<1>10. ToSet(r) = ToSet(s) \ {s[k]}
  <2>1. \A x : x \in ToSet(r) <=> \E j \in 1..n - 1 : x = r[j]
    BY <1>2, <1>9, InStack
  <2>2. \A x : x \in ToSet(r) => x \in ToSet(s) /\ x # s[k]
    BY <1>1, <1>3, <2>1
  <2>3. ASSUME NEW x \in ToSet(s), x # s[k] PROVE x \in ToSet(r)
    <3>1. PICK i \in 1..n : x = s[i]
      BY <1>1
    <3>2. to[i] \in 1..n - 1 /\ from[to[i]] = i
      BY <1>4, <2>3, <3>1
    <3>3. r[to[i]] = x
      BY <1>3, <3>1, <3>2
    <3> QED BY <2>1, <3>2, <3>3
  <2> QED BY <2>2, <2>3
<1>11. ASSUME NEW x, NEW y PROVE Before(r, x, y) <=> Before(s, x, y) /\ x # s[k] /\ y # s[k]
  <2>1. ASSUME Before(r, x, y) PROVE Before(s, x, y) /\ x # s[k] /\ y # s[k]
    <3>1. PICK i, j \in 1..n - 1 : i < j /\ r[i] = x /\ r[j] = y
      BY <1>2, <2>1 DEF Before
    <3>2. from[i] < from[j] /\ from[i] \in 1..n /\ from[j] \in 1..n
          /\ s[from[i]] = x /\ s[from[j]] = y /\ from[i] # k /\ from[j] # k
      BY <1>3, <1>5, <3>1
    <3>3. Before(s, x, y)
      BY <3>2 DEF Before
    <3> QED BY <1>1, <3>2, <3>3
  <2>2. ASSUME Before(s, x, y), x # s[k], y # s[k] PROVE Before(r, x, y)
    <3>1. PICK i, j \in 1..n : i < j /\ s[i] = x /\ s[j] = y
      BY <2>2 DEF Before
    <3>2. /\ to[i] \in 1..n - 1 /\ from[to[i]] = i
          /\ to[j] \in 1..n - 1 /\ from[to[j]] = j
      BY <1>4, <2>2, <3>1
    <3>3. to[i] < to[j] /\ r[to[i]] = x /\ r[to[j]] = y
      BY <1>3, <1>5, <3>1, <3>2
    <3> QED BY <1>2, <3>2, <3>3 DEF Before
  <2> QED BY <2>1, <2>2
<1> QED BY <1>2, <1>6, <1>7, <1>9, <1>10, <1>11 DEF r, Without

LEMMA InsertIs ==
    ASSUME NEW E, NEW s \in Stacks(E), NEW k \in 1..Len(s) + 1, NEW e \in E, e \notin ToSet(s)
    PROVE  /\ InsertAt(s, k, e) \in Stacks(E)
           /\ ToSet(InsertAt(s, k, e)) = ToSet(s) \cup {e}
           /\ \A x, y : x # e /\ y # e => (Before(InsertAt(s, k, e), x, y) <=> Before(s, x, y))
           /\ \A i \in 1..Len(s) : Before(InsertAt(s, k, e), e, s[i]) <=> i >= k
<1> DEFINE r == InsertAt(s, k, e)
           n == Len(s)
           from == [j \in 1..n + 1 |-> IF j < k THEN j ELSE j - 1]
           to == [i \in 1..n |-> IF i < k THEN i ELSE i + 1]
<1>1. /\ s \in Seq(E) /\ n \in Nat
      /\ \A x : x \in ToSet(s) <=> \E i \in 1..n : x = s[i]
      /\ \A i, j \in 1..n : s[i] = s[j] => i = j
  BY InStack
<1>2. /\ r \in Seq(E) /\ Len(r) = n + 1
      /\ \A j \in 1..n + 1 : r[j] = IF j < k THEN s[j] ELSE IF j = k THEN e ELSE s[j - 1]
  BY <1>1, InsertAtProperties
<1>3. \A j \in 1..n + 1 : j # k => from[j] \in 1..n /\ to[from[j]] = j
  BY <1>1
<1>4. \A i \in 1..n : to[i] \in 1..n + 1 /\ to[i] # k /\ r[to[i]] = s[i]
  BY <1>1, <1>2
<1>5. \A i, j \in 1..n : i < j <=> to[i] < to[j]
  BY <1>1
<1>6. \A i \in 1..n : k < to[i] <=> i >= k
  BY <1>1
<1>7. k \in 1..n + 1 /\ r[k] = e
  BY <1>1, <1>2
<1> HIDE DEF r, from, to, n
<1>8. \A j \in 1..n + 1 : j # k => r[j] = s[from[j]] /\ from[j] \in 1..n /\ r[j] # e
  BY <1>1, <1>3, <1>4
<1>9. \A i, j \in 1..n + 1 : r[i] = r[j] => i = j
  <2> SUFFICES ASSUME NEW i \in 1..n + 1, NEW j \in 1..n + 1, r[i] = r[j] PROVE i = j
    OBVIOUS
  <2>1. CASE i = k \/ j = k
    BY <1>7, <1>8, <2>1
  <2>2. CASE i # k /\ j # k
    <3>1. from[i] = from[j]
      BY <1>1, <1>8, <2>2
    <3> QED BY <1>3, <2>2, <3>1
  <2> QED BY <2>1, <2>2
<1>10. r \in Stacks(E)
  BY <1>2, <1>9, IsStack
<1>11. ToSet(r) = ToSet(s) \cup {e}
  <2>1. \A x : x \in ToSet(r) <=> \E j \in 1..n + 1 : x = r[j]
    BY <1>2, <1>10, InStack
  <2>2. \A x \in ToSet(r) : x \in ToSet(s) \/ x = e
    BY <1>1, <1>7, <1>8, <2>1
  <2>3. \A x : x \in ToSet(s) \/ x = e => x \in ToSet(r)
    BY <1>1, <1>4, <1>7, <2>1
  <2> QED BY <2>2, <2>3
<1>12. ASSUME NEW i \in 1..n, NEW j \in 1..n PROVE Before(r, s[i], s[j]) <=> i < j
  <2>1. to[i] \in 1..Len(r) /\ to[j] \in 1..Len(r) /\ r[to[i]] = s[i] /\ r[to[j]] = s[j]
    BY <1>2, <1>4
  <2>2. Before(r, r[to[i]], r[to[j]]) <=> to[i] < to[j]
    BY <1>10, <2>1, BeforeIs
  <2> QED BY <1>5, <2>1, <2>2
<1>13. ASSUME NEW x, NEW y, x # e, y # e PROVE Before(r, x, y) <=> Before(s, x, y)
  <2>1. ASSUME x \in ToSet(s), y \in ToSet(s) PROVE Before(r, x, y) <=> Before(s, x, y)
    <3>1. PICK i \in 1..n : x = s[i]
      BY <1>1, <2>1
    <3>2. PICK j \in 1..n : y = s[j]
      BY <1>1, <2>1
    <3>3. Before(s, s[i], s[j]) <=> i < j
      BY BeforeIs DEF n
    <3> QED BY <1>12, <3>1, <3>2, <3>3
  <2>2. Before(r, x, y) => x \in ToSet(s) /\ y \in ToSet(s)
    BY <1>10, <1>11, <1>13, BeforeIs
  <2>3. Before(s, x, y) => x \in ToSet(s) /\ y \in ToSet(s)
    BY BeforeIs
  <2> QED BY <2>1, <2>2, <2>3
<1>14. ASSUME NEW i \in 1..n PROVE Before(r, e, s[i]) <=> i >= k
  <2>1. to[i] \in 1..Len(r) /\ k \in 1..Len(r) /\ r[to[i]] = s[i] /\ r[k] = e
    BY <1>2, <1>4, <1>7
  <2>2. Before(r, r[k], r[to[i]]) <=> k < to[i]
    BY <1>10, <2>1, BeforeIs
  <2> QED BY <1>6, <2>1, <2>2
<1> QED BY <1>10, <1>11, <1>13, <1>14 DEF r, n

(* r is s with window m at another place *)
Moved(s, r, m) ==
    /\ ToSet(r) = ToSet(s)
    /\ \A x, y : x # m /\ y # m => (Before(r, x, y) <=> Before(s, x, y))

LEMMA MoveToIs ==
    ASSUME NEW E, NEW s \in Stacks(E), NEW old \in 1..Len(s), NEW new \in 1..Len(s)
    PROVE  /\ MoveTo(s, old, new) \in Stacks(E)
           /\ Moved(s, MoveTo(s, old, new), s[old])
           /\ \A i \in 1..Len(s) : i # old =>
                (Before(MoveTo(s, old, new), s[old], s[i]) <=> IF i < old THEN i >= new ELSE i > new)
<1> DEFINE q == RemoveAt(s, old)
           r == InsertAt(q, new, s[old])
           n == Len(s)
<1>1. /\ n \in Nat /\ \A i \in 1..n : s[i] \in E
      /\ s[old] \in ToSet(s)
  BY InStack
<1>2. /\ q \in Stacks(E) /\ Len(q) = n - 1
      /\ \A i \in 1..n : i < old => q[i] = s[i]
      /\ \A i \in 1..n : i > old => q[i - 1] = s[i]
      /\ ToSet(q) = ToSet(s) \ {s[old]}
      /\ \A x, y : Before(q, x, y) <=> Before(s, x, y) /\ x # s[old] /\ y # s[old]
  BY RemoveIs DEF Without
<1> HIDE DEF q
<1>3. new \in 1..Len(q) + 1
  BY <1>1, <1>2
<1>4. /\ r \in Stacks(E)
      /\ ToSet(r) = ToSet(q) \cup {s[old]}
      /\ \A x, y : x # s[old] /\ y # s[old] => (Before(r, x, y) <=> Before(q, x, y))
      /\ \A i \in 1..Len(q) : Before(r, s[old], q[i]) <=> i >= new
  BY <1>1, <1>2, <1>3, InsertIs
<1>5. MoveTo(s, old, new) = r
  BY DEF MoveTo, q
<1> HIDE DEF r
<1>6. Moved(s, r, s[old])
  BY <1>1, <1>2, <1>4 DEF Moved
<1>7. ASSUME NEW i \in 1..n, i # old
      PROVE  Before(r, s[old], s[i]) <=> IF i < old THEN i >= new ELSE i > new
  <2>1. CASE i < old
    <3>1. i \in 1..Len(q)
      BY <1>1, <1>2, <2>1
    <3> QED BY <1>2, <1>4, <2>1, <3>1
  <2>2. CASE i > old
    <3>1. i - 1 \in 1..Len(q) /\ (i - 1 >= new <=> i > new) /\ ~(i < old)
      BY <1>1, <1>2, <2>2
    <3> QED BY <1>2, <1>4, <2>2, <3>1
  <2> QED BY <1>1, <1>7, <2>1, <2>2
<1> QED BY <1>4, <1>5, <1>6, <1>7

-----------------------------------------------------------------------------
(* The elements of a list that are in a set *)
OnlyUpTo(f, q, X, E) ==
    /\ f \in [0..Len(q) -> Seq(E \cap X)]
    /\ f[0] = << >> /\ f[Len(q)] = Only(q, X)
    /\ \A k \in 1..Len(q) :
         f[k] = IF q[k] \in X THEN Append(f[k - 1], q[k]) ELSE f[k - 1]

LEMMA OnlyFolds ==
    ASSUME NEW E, NEW q \in Seq(E), NEW X
    PROVE  \E f : OnlyUpTo(f, q, X, E)
<1> DEFINE n == Len(q)
           V == Seq(E \cap X)
           Step(k, l) == IF q[k] \in X THEN Append(l, q[k]) ELSE l
           G == [k \in 1..n |-> [l \in V |-> Step(k, l)]]
           Is(f) == f = [u \in SUBSET (1..n) |->
                           IF u = {} THEN << >> ELSE Step(Max(u), f[u \ {Max(u)}])]
           iter == CHOOSE f : Is(f)
<1>1. n \in Nat /\ n \in Int /\ DOMAIN q = 1..n /\ \A k \in 1..n : q[k] \in E
  BY LenProperties
<1>2. Only(q, X) = iter[1..n]
  BY <1>1 DEF Only, FoldLeft, MapThenFoldSet
<1>3. \A k \in 1..n, l \in V : Step(k, l) \in V
  BY <1>1
<1>4. G \in [1..n -> [V -> V]]
  BY <1>3
<1>5. \A k \in 1..n, l \in V : G[k][l] = Step(k, l)
  OBVIOUS
<1>6. << >> \in V
  OBVIOUS
<1> HIDE DEF G, Step, n, V
<1>7. PICK f : Solves(f, << >>, n, G, V)
  BY <1>1, <1>4, <1>6, LeftFoldEquation
<1>8. \A u \in SUBSET (1..n) :
        f[u] = IF u = {} THEN << >> ELSE Step(Max(u), f[u \ {Max(u)}])
  BY <1>5, <1>7 DEF Solves
<1>9. Is(iter)
  <2>1. Is(f)
    BY <1>7, <1>8 DEF Solves
  <2> QED BY <2>1
<1>10. \A u \in SUBSET (1..n) :
        iter[u] = IF u = {} THEN << >> ELSE Step(Max(u), iter[u \ {Max(u)}])
  BY <1>9
<1> HIDE DEF iter
<1>11. Follows(iter, << >>, n, G, V)
  <2>1. iter[{}] = << >>
    BY <1>10
  <2>2. ASSUME NEW u \in SUBSET (1..n), u # {}, iter[u \ {Max(u)}] \in V
        PROVE  iter[u] = G[Max(u)][iter[u \ {Max(u)}]]
    <3>1. Max(u) \in 1..n
      BY <1>1, <2>2, MaxOfSome
    <3> QED BY <1>5, <1>10, <2>2, <3>1
  <2> QED BY <2>1, <2>2 DEF Follows
<1>12. PICK g : FollowsBy(g, iter, << >>, n, G, V)
  BY <1>1, <1>4, <1>6, <1>11, FollowsUp
<1>13. \A k \in 1..n : g[k - 1] \in V
  BY <1>1, <1>12 DEF FollowsBy
<1>14. \A k \in 1..n : g[k] = Step(k, g[k - 1])
  BY <1>5, <1>12, <1>13 DEF FollowsBy
<1>15. g \in [0..n -> V] /\ g[0] = << >> /\ g[n] = Only(q, X)
  BY <1>2, <1>12 DEF FollowsBy
<1> QED BY <1>14, <1>15 DEF Step, n, V, OnlyUpTo

LEMMA OnlyList ==
    ASSUME NEW E, NEW q \in Seq(E), NEW X
    PROVE  Only(q, X) \in Seq(E \cap X)
<1>1. Len(q) \in 0..Len(q)
  BY LenProperties
<1>2. PICK f : OnlyUpTo(f, q, X, E)
  BY OnlyFolds
<1> QED BY <1>1, <1>2 DEF OnlyUpTo

(* What is left of a stack is a stack in the same order. *)
LEMMA OnlyIs ==
    ASSUME NEW E, NEW s \in Stacks(E), NEW X
    PROVE  /\ Only(s, X) \in Stacks(E \cap X)
           /\ ToSet(Only(s, X)) = ToSet(s) \cap X
           /\ \A x, y : Before(Only(s, X), x, y) <=> Before(s, x, y) /\ x \in X /\ y \in X
<1> DEFINE n == Len(s)
           D == E \cap X
<1>1. /\ s \in Seq(E) /\ n \in Nat
      /\ \A x : x \in ToSet(s) <=> \E i \in 1..n : x = s[i]
      /\ \A i \in 1..n : s[i] \in E
      /\ \A i, j \in 1..n : s[i] = s[j] => i = j
  BY InStack
<1>0. PICK f : OnlyUpTo(f, s, X, E)
  BY <1>1, OnlyFolds
<1>2. /\ f \in [0..n -> Seq(D)] /\ f[0] = << >> /\ f[n] = Only(s, X)
      /\ \A k \in 1..n : f[k] = IF s[k] \in X THEN Append(f[k - 1], s[k]) ELSE f[k - 1]
  BY <1>0 DEF OnlyUpTo
<1> DEFINE First(k) == {x \in D : \E i \in 1..k : x = s[i]}
           P(k) == /\ f[k] \in Stacks(D) /\ ToSet(f[k]) = First(k)
                   /\ \A x, y : Before(f[k], x, y)
                        <=> \E i, j \in 1..k : i < j /\ s[i] = x /\ s[j] = y /\ x \in X /\ y \in X
           T == {k \in 0..n : P(k)}
<1>3. 0 \in T
  <2>1. << >> \in Stacks(D)
    BY DEF Stacks, IsInjective
  <2>2. ToSet(<< >>) = {} /\ \A x, y : ~Before(<< >>, x, y)
    BY DEF ToSet, Before
  <2>3. First(0) = {}
    OBVIOUS
  <2> QED BY <1>1, <1>2, <2>1, <2>2, <2>3
<1>4. ASSUME NEW k \in 0..n - 1, k \in T PROVE k + 1 \in T
  <2>1. k + 1 \in 1..n /\ (k + 1) - 1 = k /\ k + 1 \in 0..n /\ k \in Nat
    BY <1>1
  <2>2. f[k + 1] = IF s[k + 1] \in X THEN Append(f[k], s[k + 1]) ELSE f[k]
    BY <1>2, <2>1
  <2>3. P(k)
    BY <1>4
  <2>4. \A i \in 1..k + 1 : i \in 1..k \/ i = k + 1
    BY <2>1
  <2>5. \A i \in 1..k : i \in 1..k + 1 /\ i < k + 1 /\ i \in 1..n /\ i # k + 1
    BY <1>1, <2>1
  <2>6. \A i \in 1..k : s[i] # s[k + 1]
    BY <1>1, <2>1, <2>5
  <2>7. k + 1 \in 1..k + 1 /\ ~(k + 1 < k + 1) /\ \A i \in 1..k : ~(k + 1 < i)
    BY <2>1
  <2>8. CASE s[k + 1] \notin X
    <3>1. First(k + 1) = First(k)
      BY <2>4, <2>5, <2>8
    <3>2. ASSUME NEW x, NEW y
          PROVE  Before(f[k + 1], x, y)
                   <=> \E i, j \in 1..k + 1 : i < j /\ s[i] = x /\ s[j] = y /\ x \in X /\ y \in X
      BY <2>2, <2>3, <2>4, <2>5, <2>8
    <3> HIDE DEF First
    <3>3. P(k + 1)
      BY <2>2, <2>3, <2>8, <3>1, <3>2
    <3> QED BY <2>1, <3>3
  <2>9. CASE s[k + 1] \in X
    <3> DEFINE e == s[k + 1]
    <3>1. e \in D /\ e \notin First(k)
      BY <1>1, <2>1, <2>6, <2>9
    <3>2. First(k + 1) = First(k) \cup {e}
      BY <2>4, <2>5, <2>7, <3>1
    <3>3. f[k + 1] = Append(f[k], e) /\ f[k] \in Stacks(D) /\ ToSet(f[k]) = First(k)
      BY <2>2, <2>3, <2>9
    <3>4. \A x : x \in First(k) <=> x \in D /\ \E i \in 1..k : x = s[i]
      OBVIOUS
    <3>5. \A i \in 1..k : s[i] \in X => s[i] \in First(k)
      BY <1>1, <2>5
    <3> HIDE DEF First, D
    <3>a. f[k + 1] \in Stacks(D) /\ OnTop(f[k], f[k + 1], e)
      <4> HIDE DEF e
      <4> QED BY <3>1, <3>3, AppendIs
    <3>6. /\ f[k + 1] \in Stacks(D)
          /\ ToSet(f[k + 1]) = First(k + 1)
          /\ \A x, y : Before(f[k + 1], x, y) <=> Before(f[k], x, y) \/ (x \in First(k) /\ y = e)
      BY <3>2, <3>3, <3>a DEF OnTop
    <3>7. ASSUME NEW x, NEW y
          PROVE  Before(f[k + 1], x, y)
                   <=> \E i, j \in 1..k + 1 : i < j /\ s[i] = x /\ s[j] = y /\ x \in X /\ y \in X
      <4>1. ASSUME Before(f[k], x, y)
            PROVE  \E i, j \in 1..k + 1 : i < j /\ s[i] = x /\ s[j] = y /\ x \in X /\ y \in X
        BY <2>3, <2>5, <4>1
      <4>2. ASSUME x \in First(k), y = e
            PROVE  \E i, j \in 1..k + 1 : i < j /\ s[i] = x /\ s[j] = y /\ x \in X /\ y \in X
        <5>1. PICK i \in 1..k : x = s[i]
          BY <3>4, <4>2
        <5>2. x \in X
          BY <3>4, <4>2 DEF D
        <5> QED BY <2>5, <2>7, <2>9, <4>2, <5>1, <5>2
      <4>3. ASSUME NEW i \in 1..k + 1, NEW j \in 1..k + 1,
                   i < j, s[i] = x, s[j] = y, x \in X, y \in X
            PROVE  Before(f[k], x, y) \/ (x \in First(k) /\ y = e)
        <5>1. i \in 1..k
          BY <2>4, <2>7, <4>3
        <5>2. CASE j \in 1..k
          BY <2>3, <4>3, <5>1, <5>2
        <5>3. CASE j = k + 1
          BY <3>5, <4>3, <5>1, <5>3
        <5> QED BY <2>4, <5>2, <5>3
      <4> QED BY <3>6, <4>1, <4>2, <4>3
    <3>8. P(k + 1)
      BY <3>6, <3>7
    <3> QED BY <2>1, <3>8
  <2> QED BY <2>8, <2>9
<1> HIDE DEF T
<1>5. n \in T
  <2>1. \A k \in 0..n : k \in T
    BY <1>1, <1>3, <1>4, UpTo
  <2> QED BY <1>1, <2>1
<1>6. P(n)
  BY <1>5 DEF T
<1>7. First(n) = ToSet(s) \cap X
  BY <1>1
<1> HIDE DEF First
<1>8. Only(s, X) \in Stacks(D) /\ ToSet(Only(s, X)) = ToSet(s) \cap X
  BY <1>2, <1>6, <1>7
<1>9. \A x, y : Before(Only(s, X), x, y) <=> Before(s, x, y) /\ x \in X /\ y \in X
  <2>1. \A x, y : Before(s, x, y) <=> \E i, j \in 1..n : i < j /\ s[i] = x /\ s[j] = y
    BY DEF Before
  <2> QED BY <1>2, <1>6, <2>1
<1> QED BY <1>8, <1>9

(* The X windows of a stack are determined by what KeepsX keeps. *)
LEMMA SameXPart ==
    ASSUME NEW E, NEW s \in Stacks(E), NEW r \in Stacks(E), KeepsX(s, r)
    PROVE  XPart(r) = XPart(s)
<1> DEFINE u == Only(s, XWindows)
           v == Only(r, XWindows)
           D == E \cap XWindows
<1>1. /\ u \in Stacks(D) /\ ToSet(u) = ToSet(s) \cap XWindows
      /\ \A x, y : Before(u, x, y) <=> Before(s, x, y) /\ x \in XWindows /\ y \in XWindows
  BY OnlyIs
<1>2. /\ v \in Stacks(D) /\ ToSet(v) = ToSet(r) \cap XWindows
      /\ \A x, y : Before(v, x, y) <=> Before(r, x, y) /\ x \in XWindows /\ y \in XWindows
  BY OnlyIs
<1> HIDE DEF u, v, D
<1>3. ToSet(u) = ToSet(v) /\ \A x, y : Before(u, x, y) => Before(v, x, y)
  BY <1>1, <1>2 DEF KeepsX
<1>4. u = v
  BY <1>1, <1>2, <1>3, SameStack
<1> QED BY <1>4 DEF XPart, u, v

-----------------------------------------------------------------------------
(* move_window_above *)
LEMMA HasGreatest ==
    ASSUME NEW n \in Nat, NEW u \in SUBSET (1..n), u # {}
    PROVE  \E i \in u : \A j \in u : j <= i
<1> DEFINE T == {d \in Nat : n - d \in u}
<1>1. PICK i0 \in u : TRUE
  OBVIOUS
<1>2. n - i0 \in Nat /\ n - (n - i0) = i0
  BY <1>1
<1>3. T \in SUBSET Nat /\ T # {}
  BY <1>2
<1>4. PICK d \in T : \A e \in T : d <= e
  BY <1>3, NatLeast
<1>5. ASSUME NEW j \in u PROVE j <= n - d
  <2>1. j \in 1..n /\ n - j \in Nat /\ n - (n - j) = j
    OBVIOUS
  <2>2. n - j \in T
    BY <2>1
  <2>3. d <= n - j
    BY <1>4, <2>2
  <2> QED BY <2>1, <2>3
<1> QED BY <1>4, <1>5

(* A move that takes no X window past another keeps them as they are. *)
LEMMA MovedKeepsX ==
    ASSUME NEW E, NEW s \in Stacks(E), NEW r \in Stacks(E), NEW m \in ToSet(s), Moved(s, r, m),
           \/ m \notin XWindows
           \/ \A x \in ToSet(s) \cap XWindows : x # m => (Before(r, m, x) <=> Before(s, m, x))
    PROVE  KeepsX(s, r)
<1>1. ToSet(r) = ToSet(s)
  BY DEF Moved
<1>2. ASSUME NEW x \in XWindows, NEW y \in XWindows PROVE Before(s, x, y) <=> Before(r, x, y)
  <2>1. Before(s, x, y) \/ Before(r, x, y) => x \in ToSet(s) /\ y \in ToSet(s) /\ x # y
    BY <1>1, BeforeIs
  <2>2. ASSUME x \in ToSet(s), y \in ToSet(s), x # y PROVE Before(s, x, y) <=> Before(r, x, y)
    <3>1. CASE x # m /\ y # m
      BY <3>1 DEF Moved
    <3>2. CASE x = m
      BY <2>2, <3>2
    <3>3. CASE y = m
      <4>1. Before(r, m, x) <=> Before(s, m, x)
        BY <2>2, <3>3
      <4>2. (Before(s, x, m) <=> ~Before(s, m, x)) /\ (Before(r, x, m) <=> ~Before(r, m, x))
        BY <1>1, <2>2, <3>3, BeforeIs
      <4> QED BY <3>3, <4>1, <4>2
    <3> QED BY <3>1, <3>2, <3>3
  <2> QED BY <2>1, <2>2
<1> QED BY <1>1, <1>2 DEF KeepsX

(* The window goes right above the one at above, as far as the flag lets   *)
(* it, or as far as X windows can tell.                                    *)
MovedAbove(s, r, old, above, flag) ==
    /\ Moved(s, r, s[old])
    /\ flag = "NO_RESTACK_X_WINDOWS" => KeepsX(s, r)
    /\ flag # "NO_RESTACK_X_WINDOWS" => \A i \in 1..Len(s) :
         i # old /\ (flag = "DEFAULT" \/ s[i] \in XWindows) =>
            (Before(r, s[old], s[i]) <=> i > above)

LEMMA NotMoved ==
    ASSUME NEW E, NEW s \in Stacks(E), NEW m
    PROVE  Moved(s, s, m) /\ KeepsX(s, s)
BY DEF Moved, KeepsX

LEMMA MoveAboveIs ==
    ASSUME NEW E, NEW s \in Stacks(E), NEW old \in 1..Len(s), NEW above \in 0..Len(s), NEW flag
    PROVE  /\ move_window_above(s, old, above, flag) \in Stacks(E)
           /\ MovedAbove(s, move_window_above(s, old, above, flag), old, above, flag)
<1> DEFINE n == Len(s)
           m == s[old]
           r == move_window_above(s, old, above, flag)
           up == old <= above
           between == IF up THEN old + 1..above ELSE above + 1..old - 1
           isX(i) == s[i] \in XWindows
           fixed == flag = "NO_RESTACK_X_WINDOWS" /\ m \in XWindows
           reach == {i \in between : \A j \in between :
                        (IF up THEN j <= i ELSE j >= i) => ~(fixed /\ isX(j))}
           new == IF reach = {} THEN old
                  ELSE IF up THEN CHOOSE i \in reach : \A j \in reach : j <= i
                  ELSE CHOOSE i \in reach : \A j \in reach : j >= i
           still == between = {} \/ (flag = "IGNORE_NOOP_X_RESTACK" /\ ~\E i \in between : isX(i))
<1>1. /\ n \in Nat /\ m \in ToSet(s)
      /\ \A i \in 1..n : s[i] \in ToSet(s)
      /\ \A x : x \in ToSet(s) <=> \E i \in 1..n : x = s[i]
  BY InStack
<1>2. r = IF still THEN s ELSE MoveTo(s, old, new)
  <2>1. r = IF between = {} THEN s
            ELSE IF flag = "IGNORE_NOOP_X_RESTACK" /\ ~\E i \in between : isX(i) THEN s
            ELSE MoveTo(s, old, new)
    BY Zenon DEF move_window_above
  <2> HIDE DEF r, between, new, isX
  <2> QED BY <2>1
<1>3. \A i \in 1..n : Before(s, m, s[i]) <=> i > old
  BY BeforeIs
<1>4. between \in SUBSET (1..n) /\ \A i \in between : i # old
  BY <1>1
<1>5. reach \in SUBSET between
  OBVIOUS
<1>6. reach # {} => new \in reach /\ \A j \in reach : IF up THEN j <= new ELSE j >= new
  <2> SUFFICES ASSUME reach # {}
               PROVE new \in reach /\ \A j \in reach : IF up THEN j <= new ELSE j >= new
    OBVIOUS
  <2>1. \E i \in reach : \A j \in reach : j <= i
    <3> HIDE DEF reach, between
    <3> QED BY <1>1, <1>4, <1>5, HasGreatest
  <2>2. \E i \in reach : \A j \in reach : j >= i
    <3> HIDE DEF reach, between
    <3>1. reach \in SUBSET Nat
      BY <1>1, <1>4, <1>5
    <3>2. \E i \in reach : \A j \in reach : i <= j
      BY <3>1, NatLeast
    <3> QED BY <3>1, <3>2
  <2> HIDE DEF reach, between
  <2> QED BY <2>1, <2>2
<1>7. \A i \in reach : \A j \in between : (IF up THEN j <= i ELSE j >= i) => ~(fixed /\ isX(j))
  OBVIOUS
<1>8. ~fixed => reach = between
  OBVIOUS
<1>9. new \in 1..n
  <2> HIDE DEF reach, between
  <2> QED BY <1>4, <1>5, <1>6 DEF new
<1> HIDE DEF reach, new
<1>10. CASE still
  <2>1. r = s /\ Moved(s, s, m) /\ KeepsX(s, s)
    BY <1>2, <1>10, NotMoved
  <2>2. ASSUME NEW i \in 1..n, i # old, flag # "NO_RESTACK_X_WINDOWS",
               flag = "DEFAULT" \/ s[i] \in XWindows
        PROVE  Before(s, m, s[i]) <=> i > above
    <3>1. i \notin between
      BY <1>10, <2>2
    <3>2. i > old <=> i > above
      <4>1. CASE up
        BY <1>1, <2>2, <3>1, <4>1
      <4>2. CASE ~up
        BY <1>1, <2>2, <3>1, <4>2
      <4> QED BY <4>1, <4>2
    <3> QED BY <1>3, <3>2
  <2> HIDE DEF r, still, between
  <2>3. r \in Stacks(E) /\ MovedAbove(s, r, old, above, flag)
    BY <2>1, <2>2 DEF MovedAbove
  <2> QED BY <2>3 DEF r
<1>11. CASE ~still
  <2>1. /\ r = MoveTo(s, old, new) /\ r \in Stacks(E) /\ Moved(s, r, m)
        /\ \A i \in 1..n : i # old => (Before(r, m, s[i]) <=> IF i < old THEN i >= new ELSE i > new)
    BY <1>2, <1>9, <1>11, MoveToIs
  <2>2. ASSUME flag # "NO_RESTACK_X_WINDOWS", NEW i \in 1..n, i # old
        PROVE  Before(r, m, s[i]) <=> i > above
    <3>1. reach = between /\ between # {}
      BY <1>8, <1>11, <2>2
    <3>2. new \in between /\ \A j \in between : IF up THEN j <= new ELSE j >= new
      BY <1>6, <3>1
    <3>3. new = IF up THEN above ELSE above + 1
      <4>1. CASE up
        <5>1. new \in old + 1..above /\ \A j \in old + 1..above : j <= new
          BY <3>2, <4>1
        <5>2. above \in old + 1..above
          BY <5>1
        <5> QED BY <4>1, <5>1, <5>2
      <4>2. CASE ~up
        <5>1. new \in above + 1..old - 1 /\ \A j \in above + 1..old - 1 : j >= new
          BY <3>2, <4>2
        <5>2. above + 1 \in above + 1..old - 1
          BY <5>1
        <5> QED BY <4>2, <5>1, <5>2
      <4> QED BY <4>1, <4>2
    <3>4. (IF i < old THEN i >= new ELSE i > new) <=> i > above
      BY <1>1, <2>2, <3>3
    <3> QED BY <2>1, <2>2, <3>4
  <2>3. ASSUME flag = "NO_RESTACK_X_WINDOWS", m \in XWindows,
               NEW x \in ToSet(s) \cap XWindows, x # m
        PROVE  Before(r, m, x) <=> Before(s, m, x)
    <3>1. PICK i \in 1..n : x = s[i]
      BY <1>1
    <3>2. i # old /\ isX(i) /\ fixed
      BY <2>3, <3>1
    <3>3. (IF i < old THEN i >= new ELSE i > new) <=> i > old
      <4>1. CASE reach = {}
        BY <1>1, <3>2, <4>1 DEF new
      <4>2. CASE reach # {}
        <5>1. /\ new \in between
              /\ \A j \in between : (IF up THEN j <= new ELSE j >= new) => ~isX(j)
          <6> HIDE DEF between, isX, fixed
          <6> QED BY <1>5, <1>6, <1>7, <3>2, <4>2
        <5>2. i \in between => ~(IF up THEN i <= new ELSE i >= new)
          BY <3>2, <5>1
        <5>3. CASE up
          BY <1>1, <3>2, <5>1, <5>2, <5>3
        <5>4. CASE ~up
          BY <1>1, <3>2, <5>1, <5>2, <5>4
        <5> QED BY <5>3, <5>4
      <4> QED BY <4>1, <4>2
    <3> QED BY <1>3, <2>1, <3>1, <3>2, <3>3
  <2> HIDE DEF r, still, between, m
  <2>4. flag = "NO_RESTACK_X_WINDOWS" => KeepsX(s, r)
    BY <1>1, <2>1, <2>3, MovedKeepsX
  <2>5. r \in Stacks(E) /\ MovedAbove(s, r, old, above, flag)
    BY <2>1, <2>2, <2>4 DEF MovedAbove, m
  <2> QED BY <2>5 DEF r
<1> QED BY <1>10, <1>11

-----------------------------------------------------------------------------
(* meta_stack_op_apply *)
Windows == XWindows \cup Wayland
OpTypes == {"ADD", "REMOVE", "RAISE_ABOVE", "LOWER_BELOW"}

(* What a list of windows has at an index, which may be beyond its end *)
Siblings == {None} \cup {q[k] : q \in Seq(Windows \cup {None}), k \in Int}

Ops == [type : OpTypes, serial : Nat, window : Windows, sibling : Siblings]

LEMMA NoneIsNoWindow == None \notin Windows /\ XWindows \subseteq Windows /\ Wayland \subseteq Windows
                        /\ XWindows \cap Wayland = {} /\ Windows \ XWindows = Wayland
BY StackAssumption DEF Windows

Moves(s, op) == /\ op.type \in {"RAISE_ABOVE", "LOWER_BELOW"}
                /\ op.window \in ToSet(s)
                /\ op.sibling = None \/ op.sibling \in ToSet(s)
PlaceAbove(s, op) == IF op.type = "RAISE_ABOVE" THEN Pos(s, op.sibling)
                     ELSE IF op.sibling = None THEN Len(s) ELSE Pos(s, op.sibling) - 1

(* The four things that applying an operation may come to *)
Outcome(s, r, op, flag) ==
    LET ignored == op.window \in XWindows /\ flag = "NO_RESTACK_X_WINDOWS"
        old == Pos(s, op.window)
    IN  \/ /\ r = s /\ ~Moves(s, op)
           /\ op.type = "ADD" => ignored \/ op.window \in ToSet(s)
           /\ op.type = "REMOVE" => ignored \/ op.window \notin ToSet(s)
        \/ op.type = "ADD" /\ ~ignored /\ op.window \notin ToSet(s) /\ r = Append(s, op.window)
        \/ /\ op.type = "REMOVE" /\ ~ignored /\ op.window \in ToSet(s) /\ r = RemoveAt(s, old)
           /\ old \in 1..Len(s) /\ s[old] = op.window
        \/ /\ Moves(s, op) /\ r = move_window_above(s, old, PlaceAbove(s, op), flag)
           /\ old \in 1..Len(s) /\ s[old] = op.window /\ PlaceAbove(s, op) \in 0..Len(s)

LEMMA ApplyCases ==
    ASSUME NEW E, NEW s \in Stacks(E), NEW op, op.type \in OpTypes, op.window \in E, NEW flag
    PROVE  Outcome(s, meta_stack_op_apply(s, op, flag), op, flag)
<1> DEFINE old == Pos(s, op.window)
           sibling == Pos(s, op.sibling)
           r == meta_stack_op_apply(s, op, flag)
           ignored == op.window \in XWindows /\ flag = "NO_RESTACK_X_WINDOWS"
<1>1. /\ old = 0 <=> op.window \notin ToSet(s)
      /\ old # 0 => old \in 1..Len(s) /\ s[old] = op.window
  BY PosIs
<1>2. /\ sibling \in 0..Len(s) /\ Len(s) \in Nat
      /\ sibling = 0 <=> op.sibling \notin ToSet(s)
  BY PosIs, InStack
<1>3. CASE op.type = "ADD"
  <2>1. r = IF ignored \/ old # 0 THEN s ELSE Append(s, op.window)
    BY <1>3 DEF meta_stack_op_apply
  <2> HIDE DEF r, old
  <2> QED BY <1>1, <1>3, <2>1 DEF Moves, r, Outcome, old
<1>4. CASE op.type = "REMOVE"
  <2>1. r = IF ignored \/ old = 0 THEN s ELSE RemoveAt(s, old)
    BY <1>4 DEF meta_stack_op_apply
  <2> HIDE DEF r
  <2>2. ~Moves(s, op) /\ op.type # "ADD"
    BY <1>4 DEF Moves
  <2> HIDE DEF old
  <2> QED BY <1>1, <1>4, <2>1, <2>2 DEF r, old, Outcome
<1>5. CASE op.type \in {"RAISE_ABOVE", "LOWER_BELOW"}
  <2>1. r = IF old = 0 \/ (op.sibling # None /\ sibling = 0) THEN s
            ELSE move_window_above(s, old, PlaceAbove(s, op), flag)
    BY <1>5 DEF meta_stack_op_apply, PlaceAbove
  <2>2. Moves(s, op) <=> ~(old = 0 \/ (op.sibling # None /\ sibling = 0))
    BY <1>1, <1>2, <1>5 DEF Moves
  <2>3. Moves(s, op) => PlaceAbove(s, op) \in 0..Len(s)
    BY <1>2, <2>2 DEF PlaceAbove
  <2>4. op.type # "ADD" /\ op.type # "REMOVE"
    BY <1>5
  <2> HIDE DEF r, old, sibling
  <2> QED BY <1>1, <2>1, <2>2, <2>3, <2>4 DEF r, old, Outcome
<1> QED BY <1>3, <1>4, <1>5 DEF OpTypes

LEMMA ApplyStack ==
    ASSUME NEW E, NEW s \in Stacks(E), NEW op, op.type \in OpTypes, op.window \in E, NEW flag
    PROVE  meta_stack_op_apply(s, op, flag) \in Stacks(E)
<1>1. CASE meta_stack_op_apply(s, op, flag) = s
  BY <1>1
<1>2. CASE /\ op.window \notin ToSet(s)
           /\ meta_stack_op_apply(s, op, flag) = Append(s, op.window)
  BY <1>2, AppendIs
<1>3. CASE /\ Pos(s, op.window) \in 1..Len(s)
           /\ meta_stack_op_apply(s, op, flag) = RemoveAt(s, Pos(s, op.window))
  BY <1>3, RemoveIs
<1>4. CASE /\ Pos(s, op.window) \in 1..Len(s)
           /\ meta_stack_op_apply(s, op, flag)
                = move_window_above(s, Pos(s, op.window), PlaceAbove(s, op), flag)
           /\ PlaceAbove(s, op) \in 0..Len(s)
  BY <1>4, MoveAboveIs
<1> QED BY <1>1, <1>2, <1>3, <1>4, ApplyCases DEF Outcome

(* What is not about X windows, or may not restack them, leaves them. *)
LEMMA ApplyKeepsX ==
    ASSUME NEW E, NEW s \in Stacks(E), NEW op, op.type \in OpTypes, op.window \in E, NEW flag,
           op.window \notin XWindows \/ flag = "NO_RESTACK_X_WINDOWS"
    PROVE  KeepsX(s, meta_stack_op_apply(s, op, flag))
<1> DEFINE r == meta_stack_op_apply(s, op, flag)
           old == Pos(s, op.window)
<1>1. CASE r = s
  <2>1. KeepsX(s, s)
    BY NotMoved
  <2> QED BY <1>1, <2>1
<1>2. CASE op.window \notin ToSet(s) /\ op.window \notin XWindows /\ r = Append(s, op.window)
  <2>1. OnTop(s, r, op.window)
    BY <1>2, AppendIs
  <2> HIDE DEF r
  <2>2. KeepsX(s, r)
    BY <1>2, <2>1 DEF OnTop, KeepsX
  <2> QED BY <2>2 DEF r
<1>3. CASE old \in 1..Len(s) /\ s[old] = op.window /\ op.window \notin XWindows
           /\ r = RemoveAt(s, old)
  <2>1. Without(s, r, s[old])
    BY <1>3, RemoveIs
  <2> HIDE DEF r, old
  <2>2. KeepsX(s, r)
    BY <1>3, <2>1 DEF KeepsX, Without
  <2> QED BY <2>2 DEF r
<1>4. CASE /\ old \in 1..Len(s) /\ s[old] = op.window
           /\ r = move_window_above(s, old, PlaceAbove(s, op), flag)
           /\ PlaceAbove(s, op) \in 0..Len(s)
  <2>1. r \in Stacks(E) /\ MovedAbove(s, r, old, PlaceAbove(s, op), flag)
    BY <1>4, MoveAboveIs
  <2>2. op.window \in ToSet(s)
    BY <1>4, InStack
  <2> HIDE DEF r, old
  <2>3. KeepsX(s, r)
    <3>1. CASE flag = "NO_RESTACK_X_WINDOWS"
      BY <2>1, <3>1 DEF MovedAbove
    <3>2. CASE op.window \notin XWindows
      <4>1. Moved(s, r, op.window)
        BY <1>4, <2>1 DEF MovedAbove
      <4> QED BY <2>1, <2>2, <3>2, <4>1, MovedKeepsX
    <3> QED BY <3>1, <3>2
  <2> QED BY <2>3 DEF r
<1> QED BY <1>1, <1>2, <1>3, <1>4, ApplyCases DEF Outcome

(* Raising a window above a sibling, or above none *)
RaisedTo(s, r, w, sibling, flag) ==
    /\ Moved(s, r, w)
    /\ \A x \in ToSet(s) : x # w /\ (flag = "DEFAULT" \/ x \in XWindows) =>
         (Before(r, w, x) <=> sibling = None \/ Before(s, sibling, x))

LEMMA RaiseIs ==
    ASSUME NEW E, None \notin E, NEW s \in Stacks(E), NEW op, op.type = "RAISE_ABOVE",
           op.window \in ToSet(s), op.sibling = None \/ op.sibling \in ToSet(s),
           NEW flag, flag # "NO_RESTACK_X_WINDOWS"
    PROVE  LET r == meta_stack_op_apply(s, op, flag)
           IN  r \in Stacks(E) /\ RaisedTo(s, r, op.window, op.sibling, flag)
<1> DEFINE r == meta_stack_op_apply(s, op, flag)
           old == Pos(s, op.window)
           above == Pos(s, op.sibling)
<1>1. /\ Len(s) \in Nat /\ ToSet(s) \subseteq E
      /\ \A x : x \in ToSet(s) <=> \E i \in 1..Len(s) : x = s[i]
  BY InStack
<1>2. Moves(s, op) /\ op.type \in OpTypes /\ op.type # "ADD" /\ op.type # "REMOVE" /\ op.window \in E
  BY <1>1 DEF Moves, OpTypes
<1>3. PlaceAbove(s, op) = above
  BY DEF PlaceAbove
<1>4. r = move_window_above(s, old, above, flag) /\ old \in 1..Len(s) /\ s[old] = op.window
      /\ above \in 0..Len(s)
  BY <1>2, <1>3, ApplyCases DEF Outcome
<1>5. r \in Stacks(E) /\ MovedAbove(s, r, old, above, flag)
  BY <1>4, MoveAboveIs
<1>6. IF op.sibling = None THEN above = 0 ELSE above \in 1..Len(s) /\ s[above] = op.sibling
  BY <1>1, PosIs
<1>7. \A i, j \in 1..Len(s) : Before(s, s[i], s[j]) <=> i < j
  BY BeforeIs
<1> HIDE DEF r, old, above
<1>8. ASSUME NEW x \in ToSet(s), x # op.window, flag = "DEFAULT" \/ x \in XWindows
      PROVE  Before(r, op.window, x) <=> op.sibling = None \/ Before(s, op.sibling, x)
  <2>1. PICK i \in 1..Len(s) : x = s[i]
    BY <1>1
  <2>2. i # old
    BY <1>4, <1>8, <2>1
  <2>3. Before(r, op.window, x) <=> i > above
    BY <1>4, <1>5, <1>8, <2>1, <2>2 DEF MovedAbove
  <2>4. CASE op.sibling = None
    <3>1. i > above
      BY <1>6, <2>4
    <3> QED BY <2>3, <2>4, <3>1
  <2>5. CASE op.sibling # None
    <3>1. Before(s, op.sibling, x) <=> above < i
      BY <1>6, <1>7, <2>1, <2>5
    <3>2. above < i <=> i > above
      BY <1>4
    <3> QED BY <2>3, <2>5, <3>1, <3>2
  <2> QED BY <2>4, <2>5
<1>9. Moved(s, r, op.window)
  BY <1>4, <1>5 DEF MovedAbove
<1>10. r \in Stacks(E) /\ RaisedTo(s, r, op.window, op.sibling, flag)
  BY <1>5, <1>8, <1>9 DEF RaisedTo
<1> QED BY <1>10 DEF r

(* A window is put at one place of a stack in one way. *)
LEMMA SameMove ==
    ASSUME NEW E, NEW p, NEW u \in Stacks(E), NEW v \in Stacks(E), NEW m,
           Moved(p, u, m), Moved(p, v, m), m \in ToSet(p),
           \A x \in ToSet(p) : x # m => (Before(u, m, x) <=> Before(v, m, x))
    PROVE  u = v
<1>1. ToSet(u) = ToSet(p) /\ ToSet(v) = ToSet(p)
  BY DEF Moved
<1>2. ASSUME NEW x, NEW y, Before(u, x, y) PROVE Before(v, x, y)
  <2>1. x \in ToSet(p) /\ y \in ToSet(p) /\ x # y /\ ~Before(u, y, x)
    BY <1>1, <1>2, BeforeIs
  <2>2. CASE x # m /\ y # m
    BY <1>2, <2>2 DEF Moved
  <2>3. CASE x = m
    BY <1>2, <2>1, <2>3
  <2>4. CASE y = m
    <3>1. ~Before(v, m, x)
      BY <2>1, <2>4
    <3> QED BY <1>1, <2>1, <2>4, <3>1, BeforeIs
  <2> QED BY <2>2, <2>3, <2>4
<1> QED BY <1>1, <1>2, SameStack

-----------------------------------------------------------------------------
(* An event of the server does to the X windows of a stack what it does to *)
(* the server's stack.                                                     *)
IsEvent(ev) == /\ ev.type \in {"ADD", "REMOVE", "RAISE_ABOVE"}
               /\ ev.window \in XWindows
               /\ ev.sibling \in XWindows \cup {None}

LEMMA XPartIs ==
    ASSUME NEW s \in Stacks(Windows)
    PROVE  /\ XPart(s) \in Stacks(XWindows)
           /\ ToSet(XPart(s)) = ToSet(s) \cap XWindows
           /\ \A x, y : Before(XPart(s), x, y) <=> Before(s, x, y) /\ x \in XWindows /\ y \in XWindows
<1>1. Windows \cap XWindows = XWindows
  BY DEF Windows
<1>2. /\ Only(s, XWindows) \in Stacks(Windows \cap XWindows)
      /\ ToSet(Only(s, XWindows)) = ToSet(s) \cap XWindows
      /\ \A x, y : Before(Only(s, XWindows), x, y)
                     <=> Before(s, x, y) /\ x \in XWindows /\ y \in XWindows
  BY OnlyIs
<1> QED BY <1>1, <1>2 DEF XPart

LEMMA XStacks == Stacks(XWindows) \subseteq Stacks(Windows)
<1>1. \A s \in Seq(XWindows) : s \in Seq(Windows)
  BY DEF Windows
<1> QED BY <1>1 DEF Stacks

LEMMA ApplyEvent ==
    ASSUME NEW s \in Stacks(Windows), NEW ev, IsEvent(ev)
    PROVE  XPart(meta_stack_op_apply(s, ev, "IGNORE_NOOP_X_RESTACK"))
             = meta_stack_op_apply(XPart(s), ev, "DEFAULT")
<1> DEFINE w == ev.window
           p == XPart(s)
           r == meta_stack_op_apply(s, ev, "IGNORE_NOOP_X_RESTACK")
           u == XPart(r)
           q == meta_stack_op_apply(p, ev, "DEFAULT")
<1>1. /\ w \in Windows /\ w \in XWindows /\ ev.type \in OpTypes
      /\ ev.sibling \in XWindows \cup {None}
      /\ None \notin Windows /\ None \notin XWindows
  BY NoneIsNoWindow DEF IsEvent, OpTypes
<1>2. /\ p \in Stacks(XWindows) /\ ToSet(p) = ToSet(s) \cap XWindows
      /\ \A x, y : Before(p, x, y) <=> Before(s, x, y) /\ x \in XWindows /\ y \in XWindows
  BY XPartIs
<1>3. r \in Stacks(Windows)
  BY <1>1, ApplyStack
<1>4. /\ u \in Stacks(XWindows) /\ ToSet(u) = ToSet(r) \cap XWindows
      /\ \A x, y : Before(u, x, y) <=> Before(r, x, y) /\ x \in XWindows /\ y \in XWindows
  BY <1>3, XPartIs
<1> HIDE DEF p
<1>5. q \in Stacks(XWindows)
  BY <1>1, <1>2, ApplyStack
<1>6. w \in ToSet(p) <=> w \in ToSet(s)
  BY <1>1, <1>2
<1>7. CASE ev.type = "ADD"
  <2>0. ~Moves(s, ev) /\ ~Moves(p, ev) /\ ev.type # "REMOVE"
    BY <1>7 DEF Moves
  <2>1. CASE w \in ToSet(s)
    <3>1. r = s
      BY <1>1, <1>7, <2>0, <2>1, ApplyCases DEF Outcome
    <3>2. q = p
      BY <1>1, <1>2, <1>6, <1>7, <2>0, <2>1, ApplyCases DEF Outcome
    <3> QED BY <3>1, <3>2 DEF p
  <2>2. CASE w \notin ToSet(s)
    <3>1. r = Append(s, w)
      BY <1>1, <1>7, <2>0, <2>2, ApplyCases DEF Outcome
    <3>2. q = Append(p, w)
      BY <1>1, <1>2, <1>6, <1>7, <2>0, <2>2, ApplyCases DEF Outcome
    <3>3. OnTop(s, r, w)
      BY <1>1, <2>2, <3>1, AppendIs
    <3>4. OnTop(p, q, w)
      <4>1. w \in XWindows /\ w \notin ToSet(p)
        BY <1>1, <1>6, <2>2
      <4> HIDE DEF q, w
      <4> QED BY <1>2, <3>2, <4>1, AppendIs
    <3> HIDE DEF r, u, q
    <3>5. ToSet(u) = ToSet(q) /\ \A x, y : Before(u, x, y) => Before(q, x, y)
      BY <1>1, <1>2, <1>4, <3>3, <3>4 DEF OnTop
    <3>6. u = q
      BY <1>4, <1>5, <3>5, SameStack
    <3> QED BY <3>6 DEF u, r, q, p
  <2> QED BY <2>1, <2>2
<1>8. CASE ev.type = "REMOVE"
  <2>0. ~Moves(s, ev) /\ ~Moves(p, ev) /\ ev.type # "ADD"
    BY <1>8 DEF Moves
  <2>1. CASE w \notin ToSet(s)
    <3>1. r = s
      BY <1>1, <1>8, <2>0, <2>1, ApplyCases DEF Outcome
    <3>2. q = p
      BY <1>1, <1>2, <1>6, <1>8, <2>0, <2>1, ApplyCases DEF Outcome
    <3> QED BY <3>1, <3>2 DEF p
  <2>2. CASE w \in ToSet(s)
    <3> DEFINE i == Pos(s, w)
               j == Pos(p, w)
    <3>1. r = RemoveAt(s, i) /\ i \in 1..Len(s) /\ s[i] = w
      BY <1>1, <1>8, <2>0, <2>2, ApplyCases DEF Outcome
    <3>2. q = RemoveAt(p, j) /\ j \in 1..Len(p) /\ p[j] = w
      <4>1. Outcome(p, q, ev, "DEFAULT")
        BY <1>1, <1>2, ApplyCases
      <4> HIDE DEF q
      <4> QED BY <1>6, <1>8, <2>0, <2>2, <4>1 DEF Outcome
    <3>3. Without(s, r, w)
      BY <3>1, RemoveIs
    <3>4. Without(p, q, w)
      <4> HIDE DEF q, j
      <4> QED BY <1>2, <3>2, RemoveIs
    <3> HIDE DEF r, u, q, i, j
    <3>5. ToSet(u) = ToSet(q) /\ \A x, y : Before(u, x, y) => Before(q, x, y)
      BY <1>2, <1>4, <3>3, <3>4 DEF Without
    <3>6. u = q
      BY <1>4, <1>5, <3>5, SameStack
    <3> QED BY <3>6 DEF u, r, q, p
  <2> QED BY <2>1, <2>2
<1>9. CASE ev.type = "RAISE_ABOVE"
  <2>0. ev.type # "REMOVE" /\ ev.type # "ADD"
    BY <1>9
  <2>1. Moves(s, ev) <=> Moves(p, ev)
    BY <1>1, <1>2 DEF Moves
  <2>2. CASE ~Moves(s, ev)
    <3>1. r = s
      BY <1>1, <2>0, <2>2, ApplyCases DEF Outcome
    <3>2. q = p
      BY <1>1, <1>2, <2>0, <2>1, <2>2, ApplyCases DEF Outcome
    <3> QED BY <3>1, <3>2 DEF p
  <2>3. CASE Moves(s, ev)
    <3>1. /\ w \in ToSet(s) /\ (ev.sibling = None \/ ev.sibling \in ToSet(s))
          /\ w \in ToSet(p) /\ (ev.sibling = None \/ ev.sibling \in ToSet(p))
      BY <2>1, <2>3 DEF Moves
    <3>2. RaisedTo(s, r, w, ev.sibling, "IGNORE_NOOP_X_RESTACK")
      BY <1>1, <1>9, <3>1, RaiseIs
    <3>3. RaisedTo(p, q, w, ev.sibling, "DEFAULT")
      BY <1>1, <1>2, <1>9, <3>1, RaiseIs
    <3> HIDE DEF r, u, q
    <3>4. Moved(p, q, w)
      BY <3>3 DEF RaisedTo
    <3>5. Moved(p, u, w)
      BY <1>2, <1>4, <3>2 DEF RaisedTo, Moved
    <3>6. ASSUME NEW x \in ToSet(p), x # w PROVE Before(u, w, x) <=> Before(q, w, x)
      <4>1. x \in ToSet(s) /\ x \in XWindows
        BY <1>2
      <4>2. Before(r, w, x) <=> ev.sibling = None \/ Before(s, ev.sibling, x)
        BY <3>2, <3>6, <4>1 DEF RaisedTo
      <4>3. Before(q, w, x) <=> ev.sibling = None \/ Before(p, ev.sibling, x)
        BY <3>3, <3>6 DEF RaisedTo
      <4> QED BY <1>1, <1>2, <1>4, <4>1, <4>2, <4>3
    <3>7. u = q
      BY <1>4, <1>5, <3>1, <3>4, <3>5, <3>6, SameMove
    <3> QED BY <3>7 DEF u, r, q, p
  <2> QED BY <2>2, <2>3
<1> QED BY <1>7, <1>8, <1>9 DEF IsEvent

(* ConfigureNotify tells what became of the server's stack. *)
LEMMA NotifyIs ==
    ASSUME NEW E, None \notin E, NEW s \in Stacks(E), NEW r \in Stacks(E), NEW w \in ToSet(s),
           Moved(s, r, w), NEW serial
    PROVE  /\ meta_stack_op_apply(s, ConfigureNotify(r, w, serial), "DEFAULT") = r
           /\ ConfigureNotify(r, w, serial).sibling \in E \cup {None}
<1> DEFINE ev == ConfigureNotify(r, w, serial)
           p == Pos(r, w)
           v == meta_stack_op_apply(s, ev, "DEFAULT")
<1>1. /\ Len(r) \in Nat /\ ToSet(r) \subseteq E /\ ToSet(r) = ToSet(s)
      /\ \A x : x \in ToSet(r) <=> \E i \in 1..Len(r) : x = r[i]
      /\ \A i \in 1..Len(r) : r[i] \in E
      /\ \A i, j \in 1..Len(r) : r[i] = r[j] => i = j
  BY InStack DEF Moved
<1>2. p \in 1..Len(r) /\ r[p] = w
  BY <1>1, PosIs
<1>3. /\ ev.type = "RAISE_ABOVE" /\ ev.window = w
      /\ ev.sibling = IF p = 1 THEN None ELSE r[p - 1]
  BY DEF ConfigureNotify
<1> HIDE DEF ev, p
<1>4. p # 1 => p - 1 \in 1..Len(r) /\ p - 1 # p
  BY <1>1, <1>2
<1>5. p # 1 => r[p - 1] \in ToSet(s) /\ r[p - 1] # w /\ r[p - 1] \in E /\ r[p - 1] # None
  BY <1>1, <1>2, <1>4
<1>6. ev.sibling = None \/ ev.sibling \in ToSet(s)
  BY <1>3, <1>5
<1>7. v \in Stacks(E) /\ RaisedTo(s, v, w, ev.sibling, "DEFAULT")
  BY <1>3, <1>6, RaiseIs
<1> HIDE DEF v
<1>8. \A i, j \in 1..Len(r) : Before(r, r[i], r[j]) <=> i < j
  BY BeforeIs
<1>9. ASSUME NEW x \in ToSet(s), x # w PROVE Before(v, w, x) <=> Before(r, w, x)
  <2>1. PICK i \in 1..Len(r) : x = r[i]
    BY <1>1
  <2>2. i # p
    BY <1>2, <1>9, <2>1
  <2>3. Before(v, w, x) <=> ev.sibling = None \/ Before(s, ev.sibling, x)
    BY <1>7, <1>9 DEF RaisedTo
  <2>4. Before(r, w, x) <=> p < i
    BY <1>2, <1>8, <2>1
  <2>5. CASE p = 1
    <3>1. p < i
      BY <2>2, <2>5
    <3> QED BY <1>3, <2>3, <2>4, <2>5, <3>1
  <2>6. CASE p # 1
    <3>1. Before(s, r[p - 1], x) <=> Before(r, r[p - 1], x)
      BY <1>5, <1>9, <2>6 DEF Moved
    <3>2. Before(r, r[p - 1], x) <=> p - 1 < i
      BY <1>4, <1>8, <2>1, <2>6
    <3>3. p - 1 < i <=> p < i
      BY <1>2, <2>2
    <3> QED BY <1>3, <1>5, <2>3, <2>4, <2>6, <3>1, <3>2, <3>3
  <2> QED BY <2>5, <2>6
<1>10. Moved(s, v, w)
  BY <1>7 DEF RaisedTo
<1>11. v = r
  BY <1>7, <1>9, <1>10, SameMove
<1>12. ev.sibling \in E \cup {None}
  BY <1>3, <1>5
<1> QED BY <1>11, <1>12 DEF v, ev

(* A request that is not made, as it would stack an X window against       *)
(* itself, changes nothing among X windows.                                *)
LEMMA NotAskedKeepsX ==
    ASSUME NEW s \in Stacks(Windows), NEW op, NEW down \in BOOLEAN,
           op.type = (IF down THEN "RAISE_ABOVE" ELSE "LOWER_BELOW"),
           op.window \in XWindows, op.sibling # None,
           NearestX(s, op.sibling, down) = op.window
    PROVE  KeepsX(s, meta_stack_op_apply(s, op, "DEFAULT"))
<1> DEFINE r == meta_stack_op_apply(s, op, "DEFAULT")
           w == op.window
           old == Pos(s, w)
           p == Pos(s, op.sibling)
           above == IF down THEN p ELSE p - 1
           I == {i \in DOMAIN s : s[i] \in XWindows /\ IF down THEN i <= p ELSE i >= p}
<1>0. op.type \in OpTypes /\ op.type # "ADD" /\ op.type # "REMOVE" /\ w \in Windows /\ w # None
  BY NoneIsNoWindow DEF OpTypes
<1>1. CASE ~Moves(s, op)
  <2>1. r = s
    BY <1>0, <1>1, ApplyCases DEF Outcome
  <2> QED BY <2>1, NotMoved
<1>2. CASE Moves(s, op)
  <2>1. PlaceAbove(s, op) = above
    BY DEF PlaceAbove
  <2>2. /\ r = move_window_above(s, old, above, "DEFAULT")
        /\ old \in 1..Len(s) /\ s[old] = w /\ above \in 0..Len(s)
    BY <1>0, <1>2, <2>1, ApplyCases DEF Outcome
  <2>3. r \in Stacks(Windows) /\ MovedAbove(s, r, old, above, "DEFAULT")
    BY <2>2, MoveAboveIs
  <2>4. /\ Len(s) \in Nat /\ DOMAIN s = 1..Len(s)
        /\ \A x : x \in ToSet(s) <=> \E i \in 1..Len(s) : x = s[i]
        /\ \A i, j \in 1..Len(s) : s[i] = s[j] => i = j
    BY InStack
  <2>5. p \in 1..Len(s) /\ s[p] = op.sibling
    BY <1>2, PosIs DEF Moves
  <2>6. old \in I /\ \A i \in I : i # old => ~(IF down THEN i > old ELSE i < old)
    <3>1. CASE op.sibling \in XWindows
      <4>1. op.sibling = w
        BY <3>1 DEF NearestX
      <4>2. p = old
        BY <4>1
      <4>3. s[old] \in XWindows
        BY <2>2
      <4> HIDE DEF old, p
      <4> QED BY <2>2, <2>4, <4>2, <4>3
    <3>2. CASE op.sibling \notin XWindows
      <4>1. w = IF p = 0 \/ I = {} THEN None
                ELSE s[IF down THEN CHOOSE i \in I : \A j \in I : j <= i
                               ELSE CHOOSE i \in I : \A j \in I : j >= i]
        BY <3>2 DEF NearestX
      <4>2. I # {} /\ I \in SUBSET (1..Len(s))
        BY <1>0, <2>4, <4>1
      <4> DEFINE c == IF down THEN CHOOSE i \in I : \A j \in I : j <= i
                              ELSE CHOOSE i \in I : \A j \in I : j >= i
      <4>3. w = s[c]
        <5> HIDE DEF I
        <5> QED BY <1>0, <4>1
      <4> HIDE DEF I
      <4>4. \E i \in I : \A j \in I : j <= i
        BY <2>4, <4>2, HasGreatest
      <4>5. \E i \in I : \A j \in I : j >= i
        <5>1. I \in SUBSET Nat
          BY <2>4, <4>2
        <5>2. \E i \in I : \A j \in I : i <= j
          BY <4>2, <5>1, NatLeast
        <5> QED BY <5>1, <5>2
      <4>6. c \in I /\ \A j \in I : IF down THEN j <= c ELSE j >= c
        BY <4>4, <4>5
      <4> HIDE DEF c
      <4>7. c = old
        BY <2>2, <2>4, <4>2, <4>3, <4>6
      <4>8. \A j \in I : j \in Nat /\ old \in Nat
        BY <2>2, <2>4, <4>2
      <4> QED BY <4>6, <4>7, <4>8
    <3> QED BY <3>1, <3>2
  <2>7. IF down THEN old <= p ELSE old >= p
    BY <2>6
  <2> HIDE DEF r, old, p
  <2>8. ASSUME NEW x \in ToSet(s) \cap XWindows, x # w
        PROVE  Before(r, w, x) <=> Before(s, w, x)
    <3>1. PICK i \in 1..Len(s) : x = s[i]
      BY <2>4
    <3>2. i # old
      BY <2>2, <2>8, <3>1
    <3>3. Before(r, w, x) <=> i > above
      BY <2>2, <2>3, <3>1, <3>2 DEF MovedAbove
    <3>4. Before(s, w, x) <=> i > old
      BY <2>2, <3>1, BeforeIs
    <3>5. i \in I <=> IF down THEN i <= p ELSE i >= p
      BY <2>4, <2>8, <3>1
    <3>6. i > above <=> i > old
      <4>1. CASE down
        BY <2>2, <2>4, <2>5, <2>6, <2>7, <3>2, <3>5, <4>1
      <4>2. CASE ~down
        BY <2>2, <2>4, <2>5, <2>6, <2>7, <3>2, <3>5, <4>2
      <4> QED BY <4>1, <4>2
    <3> QED BY <3>3, <3>4, <3>6
  <2>9. w \in ToSet(s) /\ Moved(s, r, w)
    BY <2>2, <2>3, <2>4 DEF MovedAbove
  <2>10. KeepsX(s, r)
    BY <2>3, <2>8, <2>9, MovedKeepsX
  <2> QED BY <2>10 DEF r
<1> QED BY <1>1, <1>2

-----------------------------------------------------------------------------
(* Applying a list of operations, one after the other *)
AppliedBy(f, s, ops, flag) ==
    /\ f \in [0..Len(ops) -> Stacks(Windows)]
    /\ f[0] = s /\ f[Len(ops)] = ApplyAll(s, ops, flag)
    /\ \A k \in 1..Len(ops) : f[k] = meta_stack_op_apply(f[k - 1], ops[k], flag)

LEMMA OpFacts ==
    ASSUME NEW ops \in Seq(Ops)
    PROVE  /\ Len(ops) \in Nat /\ DOMAIN ops = 1..Len(ops)
           /\ \A k \in 1..Len(ops) : ops[k] \in Ops /\ ops[k].type \in OpTypes
                                     /\ ops[k].window \in Windows /\ ops[k].serial \in Nat
<1>1. Len(ops) \in Nat /\ DOMAIN ops = 1..Len(ops) /\ \A k \in 1..Len(ops) : ops[k] \in Ops
  BY LenProperties
<1>2. \A op \in Ops : op.type \in OpTypes /\ op.window \in Windows /\ op.serial \in Nat
  BY DEF Ops
<1> QED BY <1>1, <1>2

LEMMA ApplyAllFolds ==
    ASSUME NEW s \in Stacks(Windows), NEW ops \in Seq(Ops), NEW flag
    PROVE  \E f : AppliedBy(f, s, ops, flag)
<1> DEFINE n == Len(ops)
           V == Stacks(Windows)
           Step(k, v) == meta_stack_op_apply(v, ops[k], flag)
           G == [k \in 1..n |-> [v \in V |-> Step(k, v)]]
           Is(f) == f = [u \in SUBSET (1..n) |->
                           IF u = {} THEN s ELSE Step(Max(u), f[u \ {Max(u)}])]
           iter == CHOOSE f : Is(f)
<1>1. n \in Nat /\ n \in Int /\ DOMAIN ops = 1..n
      /\ \A k \in 1..n : ops[k].type \in OpTypes /\ ops[k].window \in Windows
  BY OpFacts
<1>2. ApplyAll(s, ops, flag) = iter[1..n]
  BY <1>1 DEF ApplyAll, FoldLeft, MapThenFoldSet
<1>3. \A k \in 1..n, v \in V : Step(k, v) \in V
  BY <1>1, ApplyStack
<1>4. G \in [1..n -> [V -> V]]
  BY <1>3
<1>5. \A k \in 1..n, v \in V : G[k][v] = Step(k, v)
  OBVIOUS
<1>6. s \in V
  OBVIOUS
<1> HIDE DEF G, Step, n, V
<1>7. PICK f : Solves(f, s, n, G, V)
  BY <1>1, <1>4, <1>6, LeftFoldEquation
<1>8. \A u \in SUBSET (1..n) :
        f[u] = IF u = {} THEN s ELSE Step(Max(u), f[u \ {Max(u)}])
  BY <1>5, <1>7 DEF Solves
<1>9. Is(iter)
  <2>1. Is(f)
    BY <1>7, <1>8 DEF Solves
  <2> QED BY <2>1
<1>10. \A u \in SUBSET (1..n) :
        iter[u] = IF u = {} THEN s ELSE Step(Max(u), iter[u \ {Max(u)}])
  BY <1>9
<1> HIDE DEF iter
<1>11. Follows(iter, s, n, G, V)
  <2>1. iter[{}] = s
    BY <1>10
  <2>2. ASSUME NEW u \in SUBSET (1..n), u # {}, iter[u \ {Max(u)}] \in V
        PROVE  iter[u] = G[Max(u)][iter[u \ {Max(u)}]]
    <3>1. Max(u) \in 1..n
      BY <1>1, <2>2, MaxOfSome
    <3> QED BY <1>5, <1>10, <2>2, <3>1
  <2> QED BY <2>1, <2>2 DEF Follows
<1>12. PICK g : FollowsBy(g, iter, s, n, G, V)
  BY <1>1, <1>4, <1>6, <1>11, FollowsUp
<1>13. \A k \in 1..n : g[k - 1] \in V
  BY <1>1, <1>12 DEF FollowsBy
<1>14. \A k \in 1..n : g[k] = Step(k, g[k - 1])
  BY <1>5, <1>12, <1>13 DEF FollowsBy
<1>15. g \in [0..n -> V] /\ g[0] = s /\ g[n] = ApplyAll(s, ops, flag)
  BY <1>2, <1>12 DEF FollowsBy
<1> QED BY <1>14, <1>15 DEF Step, n, V, AppliedBy

LEMMA ApplyAllStack ==
    ASSUME NEW s \in Stacks(Windows), NEW ops \in Seq(Ops), NEW flag
    PROVE  ApplyAll(s, ops, flag) \in Stacks(Windows)
<1>1. PICK f : AppliedBy(f, s, ops, flag)
  BY ApplyAllFolds
<1>2. Len(ops) \in 0..Len(ops)
  BY OpFacts
<1> QED BY <1>1, <1>2 DEF AppliedBy

LEMMA ApplyAllEmpty ==
    ASSUME NEW s \in Stacks(Windows), NEW flag
    PROVE  ApplyAll(s, << >>, flag) = s
<1>1. << >> \in Seq(Ops) /\ Len(<< >>) = 0
  OBVIOUS
<1>2. PICK f : AppliedBy(f, s, << >>, flag)
  BY <1>1, ApplyAllFolds
<1> QED BY <1>1, <1>2 DEF AppliedBy

LEMMA ApplyAllAppend ==
    ASSUME NEW s \in Stacks(Windows), NEW ops \in Seq(Ops), NEW op \in Ops, NEW flag
    PROVE  ApplyAll(s, Append(ops, op), flag)
             = meta_stack_op_apply(ApplyAll(s, ops, flag), op, flag)
<1> DEFINE n == Len(ops)
           more == Append(ops, op)
<1>1. /\ more \in Seq(Ops) /\ Len(more) = n + 1 /\ more[n + 1] = op /\ n \in Nat
      /\ \A k \in 1..n : more[k] = ops[k]
  BY AppendProperties, OpFacts
<1> HIDE DEF more
<1>2. PICK f : AppliedBy(f, s, more, flag)
  BY <1>1, ApplyAllFolds
<1>3. PICK g : AppliedBy(g, s, ops, flag)
  BY ApplyAllFolds
<1>4. /\ f[0] = s /\ f[n + 1] = ApplyAll(s, more, flag)
      /\ \A k \in 1..n + 1 : f[k] = meta_stack_op_apply(f[k - 1], more[k], flag)
  BY <1>1, <1>2 DEF AppliedBy
<1>5. /\ g[0] = s /\ g[n] = ApplyAll(s, ops, flag)
      /\ \A k \in 1..n : g[k] = meta_stack_op_apply(g[k - 1], ops[k], flag)
  BY <1>3 DEF AppliedBy
<1> DEFINE T == {k \in 0..n : f[k] = g[k]}
<1>6. 0 \in T
  BY <1>1, <1>4, <1>5
<1>7. ASSUME NEW k \in 0..n - 1, k \in T PROVE k + 1 \in T
  <2>1. k + 1 \in 1..n /\ k + 1 \in 1..n + 1 /\ (k + 1) - 1 = k /\ k + 1 \in 0..n
    BY <1>1
  <2> QED BY <1>1, <1>4, <1>5, <1>7, <2>1
<1> HIDE DEF T
<1>8. n \in T
  <2>1. \A k \in 0..n : k \in T
    BY <1>1, <1>6, <1>7, UpTo
  <2> QED BY <1>1, <2>1
<1>9. f[n] = g[n]
  BY <1>8 DEF T
<1>10. n + 1 \in 1..n + 1 /\ (n + 1) - 1 = n
  BY <1>1
<1>11. f[n + 1] = meta_stack_op_apply(f[n], op, flag)
  BY <1>1, <1>4, <1>10
<1> QED BY <1>4, <1>5, <1>9, <1>11 DEF more

LEMMA ApplyAllHead ==
    ASSUME NEW s \in Stacks(Windows), NEW ops \in Seq(Ops), ops # << >>, NEW flag
    PROVE  ApplyAll(s, ops, flag)
             = ApplyAll(meta_stack_op_apply(s, Head(ops), flag), Tail(ops), flag)
<1> DEFINE rest == Tail(ops)
           n == Len(rest)
           r == meta_stack_op_apply(s, Head(ops), flag)
<1>1. /\ rest \in Seq(Ops) /\ Len(ops) = n + 1 /\ n \in Nat /\ Head(ops) = ops[1]
      /\ \A k \in 1..n : rest[k] = ops[k + 1]
  BY HeadTailProperties, OpFacts
<1>2. r \in Stacks(Windows)
  BY <1>1, OpFacts, ApplyStack
<1> HIDE DEF rest, n, r
<1>3. PICK f : AppliedBy(f, s, ops, flag)
  BY ApplyAllFolds
<1>4. PICK g : AppliedBy(g, r, rest, flag)
  BY <1>1, <1>2, ApplyAllFolds
<1>5. /\ f[0] = s /\ f[n + 1] = ApplyAll(s, ops, flag)
      /\ \A k \in 1..n + 1 : f[k] = meta_stack_op_apply(f[k - 1], ops[k], flag)
  BY <1>1, <1>3 DEF AppliedBy
<1>6. /\ g[0] = r /\ g[n] = ApplyAll(r, rest, flag)
      /\ \A k \in 1..n : g[k] = meta_stack_op_apply(g[k - 1], rest[k], flag)
  BY <1>4 DEF AppliedBy, n
<1> DEFINE T == {k \in 0..n : f[k + 1] = g[k]}
<1>7. 0 \in T
  <2>1. 1 \in 1..n + 1 /\ 1 - 1 = 0 /\ 0 + 1 = 1
    BY <1>1
  <2>2. f[1] = r
    BY <1>1, <1>5, <2>1 DEF r
  <2> QED BY <1>1, <1>6, <2>1, <2>2
<1>8. ASSUME NEW k \in 0..n - 1, k \in T PROVE k + 1 \in T
  <2>1. /\ k + 1 \in 1..n /\ (k + 1) + 1 \in 1..n + 1 /\ (k + 1) - 1 = k
        /\ ((k + 1) + 1) - 1 = k + 1 /\ k + 1 \in 0..n
    BY <1>1
  <2>2. f[(k + 1) + 1] = meta_stack_op_apply(f[k + 1], ops[(k + 1) + 1], flag)
    BY <1>5, <2>1
  <2>3. g[k + 1] = meta_stack_op_apply(g[k], ops[(k + 1) + 1], flag)
    BY <1>1, <1>6, <2>1
  <2> QED BY <1>8, <2>1, <2>2, <2>3
<1> HIDE DEF T
<1>9. n \in T
  <2>1. \A k \in 0..n : k \in T
    BY <1>1, <1>7, <1>8, UpTo
  <2> QED BY <1>1, <2>1
<1>10. f[n + 1] = g[n]
  BY <1>9 DEF T
<1> QED BY <1>5, <1>6, <1>10 DEF rest, r

(* Older predictions that may not restack X windows leave them. *)
LEMMA ApplyAllKeepsX ==
    ASSUME NEW s \in Stacks(Windows), NEW ops \in Seq(Ops)
    PROVE  XPart(ApplyAll(s, ops, "NO_RESTACK_X_WINDOWS")) = XPart(s)
<1> DEFINE n == Len(ops)
           flag == "NO_RESTACK_X_WINDOWS"
<1>1. n \in Nat /\ \A k \in 1..n : ops[k].type \in OpTypes /\ ops[k].window \in Windows
  BY OpFacts
<1>2. PICK f : AppliedBy(f, s, ops, flag)
  BY ApplyAllFolds
<1>3. /\ f \in [0..n -> Stacks(Windows)] /\ f[0] = s /\ f[n] = ApplyAll(s, ops, flag)
      /\ \A k \in 1..n : f[k] = meta_stack_op_apply(f[k - 1], ops[k], flag)
  BY <1>2 DEF AppliedBy
<1> DEFINE T == {k \in 0..n : XPart(f[k]) = XPart(s)}
<1> HIDE DEF n
<1>4. 0 \in T
  BY <1>1, <1>3
<1>5. ASSUME NEW k \in 0..n - 1, k \in T PROVE k + 1 \in T
  <2>1. k + 1 \in 1..n /\ (k + 1) - 1 = k /\ k + 1 \in 0..n /\ k \in 0..n
    BY <1>1
  <2>2. f[k] \in Stacks(Windows) /\ f[k + 1] = meta_stack_op_apply(f[k], ops[k + 1], flag)
        /\ f[k + 1] \in Stacks(Windows)
    BY <1>3, <2>1
  <2>3. KeepsX(f[k], f[k + 1])
    BY <1>1, <2>1, <2>2, ApplyKeepsX
  <2>4. XPart(f[k + 1]) = XPart(f[k])
    BY <2>2, <2>3, SameXPart
  <2> QED BY <1>5, <2>1, <2>4
<1> HIDE DEF T
<1>6. n \in T
  <2>1. \A k \in 0..n : k \in T
    BY <1>1, <1>4, <1>5, UpTo
  <2> QED BY <1>1, <2>1
<1> QED BY <1>3, <1>6 DEF T

-----------------------------------------------------------------------------
(* What there is of the tracker and the wire, and which of it is sound     *)
(* while the server, its events and what is left of the bounds stay.       *)
Trackers == [verified : Stacks(Windows), predictions : Seq(Ops),
             predicted : Stacks(Windows) \cup {NoStack}, sync : BOOLEAN, serial : {0, 1}]
Requests == [serial : Nat \ {0}, window : XWindows, sibling : XWindows \cup {None},
             mode : {"Above", "Below"}]
Wires == [next : Nat \ {0}, requests : Seq(Requests)]

Derived(s) == s.predicted # NoStack =>
                 s.predicted = ApplyAll(s.verified, s.predictions, "DEFAULT")

(* The windows that there may be requests for *)
Askable == IF server.up THEN Windows ELSE Wayland

OpsBelow(next) == {op \in Ops : /\ op.serial < next
                                /\ op.serial # 0 => op.window \in XWindows
                                /\ op.window \in Askable}

Sound(x) == /\ XPart(x.t.verified) = XPart(t.verified)
            /\ x.t.serial = t.serial
            /\ x.t.predictions \in Seq(OpsBelow(x.wire.next))
            /\ ~server.up => x.wire.requests = << >>
            /\ left.restarts = MaxRestarts => Derived(x.t)
Sounds == {x \in [t : Trackers, wire : Wires] : Sound(x)}

LEMMA NoStackIsNone == NoStack \notin Stacks(Windows) /\ NoStack \in Seq(Windows \cup {None})
<1>1. NoStack = <<None>> /\ Len(NoStack) = 1 /\ NoStack[1] = None
  BY DEF NoStack
<1>2. NoStack \in Seq(Windows) => None \in Windows
  BY <1>1
<1> QED BY <1>1, <1>2, NoneIsNoWindow DEF Stacks

LEMMA StackOfTyped ==
    ASSUME NEW s \in Trackers
    PROVE  StackOf(s) \in Seq(Windows \cup {None})
<1>1. \A u \in Stacks(Windows) : u \in Seq(Windows \cup {None})
  BY DEF Stacks
<1>2. s.verified \in Stacks(Windows) /\ s.predicted \in Stacks(Windows) \cup {NoStack}
  BY DEF Trackers
<1> QED BY <1>1, <1>2, NoStackIsNone DEF StackOf

LEMMA IsSibling ==
    /\ None \in Siblings
    /\ \A q \in Seq(Windows \cup {None}), k \in Int : q[k] \in Siblings
    /\ \A q \in Seq(Windows), k \in Int : q[k] \in Siblings
    /\ Windows \subseteq Siblings
<1>1. \A q \in Seq(Windows) : q \in Seq(Windows \cup {None})
  OBVIOUS
<1>2. \A q \in Seq(Windows \cup {None}), k \in Int : q[k] \in Siblings
  BY DEF Siblings
<1>3. ASSUME NEW w \in Windows PROVE w \in Siblings
  <2>1. <<w>> \in Seq(Windows \cup {None}) /\ <<w>>[1] = w /\ 1 \in Int
    OBVIOUS
  <2>2. <<w>>[1] \in Siblings
    BY <1>2, <2>1
  <2> QED BY <2>1, <2>2
<1> QED BY <1>1, <1>2, <1>3 DEF Siblings

(* stack_tracker_apply_prediction *)
Foreseen(s, r, op) ==
    /\ r \in Trackers /\ r.serial = s.serial
    /\ r.predictions = s.predictions \/ r.predictions = Append(s.predictions, op)
    /\ XPart(r.verified) = XPart(s.verified)
    /\ Derived(s) => Derived(r)

LEMMA PredictionSound ==
    ASSUME NEW s \in Trackers, NEW op \in Ops,
           op.serial = 0 /\ s.predictions = << >> =>
              KeepsX(s.verified, meta_stack_op_apply(s.verified, op, "DEFAULT"))
    PROVE  Foreseen(s, stack_tracker_apply_prediction(s, op), op)
<1> DEFINE r == stack_tracker_apply_prediction(s, op)
           verifies == op.serial = 0 /\ s.predictions = << >>
           Applied(stack) == meta_stack_op_apply(stack, op, "DEFAULT")
           verified == IF verifies THEN Applied(s.verified) ELSE s.verified
           predicted == IF s.predicted = NoStack THEN NoStack ELSE Applied(s.predicted)
           sync == s.sync \/ predicted = NoStack \/ <<verified, predicted>> # <<s.verified, s.predicted>>
<1>1. /\ s.verified \in Stacks(Windows) /\ s.predictions \in Seq(Ops)
      /\ s.predicted \in Stacks(Windows) \cup {NoStack} /\ s.serial \in {0, 1}
  BY DEF Trackers
<1>2. op.type \in OpTypes /\ op.window \in Windows
  BY DEF Ops
<1>3. \A v \in Stacks(Windows) : Applied(v) \in Stacks(Windows)
  BY <1>2, ApplyStack
<1> HIDE DEF Applied
<1>4. verified \in Stacks(Windows) /\ predicted \in Stacks(Windows) \cup {NoStack}
  BY <1>1, <1>3
<1>5. r = [verified |-> verified, predictions |-> IF verifies THEN s.predictions ELSE Append(s.predictions, op),
           predicted |-> predicted, sync |-> sync, serial |-> s.serial]
  <2> USE DEF Applied
  <2>1. r = [s EXCEPT !.verified = verified, !.predicted = predicted,
              !.predictions = IF verifies THEN s.predictions ELSE Append(s.predictions, op),
              !.sync = sync]
    BY Zenon DEF stack_tracker_apply_prediction, Predicted
  <2> HIDE DEF r, verified, predicted, verifies, sync
  <2> QED BY <2>1 DEF Trackers
<1>6. sync \in BOOLEAN
  OBVIOUS
<1> HIDE DEF r, sync
<1>7. /\ r.verified = verified /\ r.predicted = predicted /\ r.serial = s.serial
      /\ r.predictions = IF verifies THEN s.predictions ELSE Append(s.predictions, op)
  BY <1>5
<1>8. r.predictions \in Seq(Ops)
  BY <1>1, <1>7, AppendProperties
<1>9. r \in Trackers
  <2>1. /\ r = [verified |-> r.verified, predictions |-> r.predictions,
                predicted |-> r.predicted, sync |-> sync, serial |-> r.serial]
    BY <1>5, <1>7
  <2> HIDE DEF verified, predicted, verifies
  <2> QED BY <1>1, <1>4, <1>6, <1>7, <1>8, <2>1 DEF Trackers
<1>10. XPart(r.verified) = XPart(s.verified)
  <2>1. CASE verifies
    <3>1. r.verified = Applied(s.verified) /\ Applied(s.verified) \in Stacks(Windows)
      BY <1>1, <1>3, <1>7, <2>1
    <3>2. KeepsX(s.verified, Applied(s.verified))
      BY <2>1 DEF Applied
    <3> QED BY <1>1, <3>1, <3>2, SameXPart
  <2>2. CASE ~verifies
    BY <1>7, <2>2
  <2> QED BY <2>1, <2>2
<1>11. ASSUME Derived(s), r.predicted # NoStack
       PROVE  r.predicted = ApplyAll(r.verified, r.predictions, "DEFAULT")
  <2>1. s.predicted # NoStack /\ r.predicted = Applied(s.predicted)
    BY <1>7, <1>11
  <2>2. s.predicted = ApplyAll(s.verified, s.predictions, "DEFAULT")
    BY <1>11, <2>1 DEF Derived
  <2>3. CASE verifies
    <3>1. s.predicted = s.verified
      BY <1>1, <2>2, <2>3, ApplyAllEmpty
    <3>2. r.predictions = << >> /\ r.verified = Applied(s.verified)
      BY <1>7, <2>3
    <3>3. ApplyAll(r.verified, << >>, "DEFAULT") = r.verified
      BY <1>4, <1>7, ApplyAllEmpty
    <3> QED BY <2>1, <3>1, <3>2, <3>3
  <2>4. CASE ~verifies
    <3>1. r.verified = s.verified /\ r.predictions = Append(s.predictions, op)
      BY <1>7, <2>4
    <3>2. ApplyAll(s.verified, Append(s.predictions, op), "DEFAULT")
            = Applied(ApplyAll(s.verified, s.predictions, "DEFAULT"))
      BY <1>1, ApplyAllAppend DEF Applied
    <3> QED BY <2>1, <2>2, <3>1, <3>2
  <2> QED BY <2>3, <2>4
<1>12. Derived(s) => Derived(r)
  BY <1>11 DEF Derived
<1> HIDE DEF verified, predicted
<1>13. Foreseen(s, r, op)
  BY <1>7, <1>9, <1>10, <1>12 DEF Foreseen
<1> QED BY <1>13 DEF r

(* meta_stack_tracker_get_stack *)
LEMMA RememberedSound ==
    ASSUME NEW s \in Trackers
    PROVE  /\ Remembered(s) \in Trackers /\ Remembered(s).serial = s.serial
           /\ Remembered(s).predictions = s.predictions
           /\ Remembered(s).verified = s.verified
           /\ Derived(s) => Derived(Remembered(s))
<1> DEFINE p == ApplyAll(s.verified, s.predictions, "DEFAULT")
           r == [s EXCEPT !.predicted = p]
<1>1. s.verified \in Stacks(Windows) /\ s.predictions \in Seq(Ops)
  BY DEF Trackers
<1>2. p \in Stacks(Windows)
  BY <1>1, ApplyAllStack
<1> HIDE DEF p
<1>3. /\ r \in Trackers /\ r.serial = s.serial /\ r.predictions = s.predictions
      /\ r.verified = s.verified /\ r.predicted = p
  BY <1>2 DEF Trackers
<1>4. Remembered(s) = s \/ Remembered(s) = r
  BY DEF Remembered, p
<1> HIDE DEF r
<1>5. Derived(r)
  BY <1>3 DEF Derived, p
<1> QED BY <1>3, <1>4, <1>5

LEMMA LookedSound ==
    ASSUME NEW x \in Sounds
    PROVE  Looked(x) \in Sounds
<1>1. x \in [t : Trackers, wire : Wires] /\ Sound(x)
  BY DEF Sounds
<1>2. Looked(x) = [t |-> Remembered(x.t), wire |-> x.wire]
  BY <1>1 DEF Looked
<1>3. x.t \in Trackers /\ x.wire \in Wires
  BY <1>1
<1> DEFINE y == Looked(x)
<1>4. /\ y.t \in Trackers /\ y.t.serial = x.t.serial /\ y.wire = x.wire
      /\ y.t.predictions = x.t.predictions
      /\ y.t.verified = x.t.verified /\ (Derived(x.t) => Derived(y.t))
  BY <1>2, <1>3, RememberedSound
<1>5. y \in [t : Trackers, wire : Wires]
  BY <1>2, <1>3, RememberedSound
<1> HIDE DEF y
<1>6. Sound(y)
  BY <1>1, <1>4 DEF Sound
<1> QED BY <1>5, <1>6 DEF Sounds, y

-----------------------------------------------------------------------------
(* meta_stack_tracker_raise_above and meta_stack_tracker_lower_below *)
LEMMA NearestXTyped ==
    ASSUME NEW q \in Seq(Windows \cup {None}), NEW sibling, NEW down \in BOOLEAN
    PROVE  NearestX(q, sibling, down) \in XWindows \cup {None}
<1> DEFINE p == Pos(q, sibling)
           I == {i \in DOMAIN q : q[i] \in XWindows /\ IF down THEN i <= p ELSE i >= p}
           n == Len(q)
<1>0. n \in Nat /\ DOMAIN q = 1..n
  BY LenProperties
<1>1. I \in SUBSET (1..n) /\ \A i \in I : q[i] \in XWindows
  BY <1>0
<1>2. NearestX(q, sibling, down) =
        IF sibling \in XWindows THEN sibling
        ELSE IF p = 0 \/ I = {} THEN None
        ELSE q[IF down THEN CHOOSE i \in I : \A j \in I : j <= i
                       ELSE CHOOSE i \in I : \A j \in I : j >= i]
  BY DEF NearestX
<1> HIDE DEF I, n, p
<1>3. ASSUME I # {}
      PROVE  (IF down THEN CHOOSE i \in I : \A j \in I : j <= i
                      ELSE CHOOSE i \in I : \A j \in I : j >= i) \in I
  <2>1. \E i \in I : \A j \in I : j <= i
    BY <1>0, <1>1, <1>3, HasGreatest
  <2>2. I \in SUBSET Nat
    BY <1>0, <1>1
  <2>3. \E i \in I : \A j \in I : i <= j
    BY <1>3, <2>2, NatLeast
  <2>4. \E i \in I : \A j \in I : j >= i
    BY <2>2, <2>3
  <2> QED BY <2>1, <2>4
<1> QED BY <1>1, <1>2, <1>3

LEMMA OpsBelowGrows ==
    ASSUME NEW m \in Nat, NEW n \in Nat, m <= n
    PROVE  Seq(OpsBelow(m)) \subseteq Seq(OpsBelow(n)) /\ Seq(OpsBelow(m)) \subseteq Seq(Ops)
<1>1. \A op \in Ops : op.serial \in Nat
  BY DEF Ops
<1>2. OpsBelow(m) \subseteq OpsBelow(n) /\ OpsBelow(m) \subseteq Ops
  BY <1>1 DEF OpsBelow
<1> QED BY <1>2

LEMMA SoundFacts ==
    ASSUME NEW x \in Sounds
    PROVE  /\ x.t \in Trackers /\ x.wire \in Wires /\ Sound(x)
           /\ x.t.verified \in Stacks(Windows) /\ x.t.predictions \in Seq(Ops)
           /\ x.wire.next \in Nat \ {0} /\ x.wire.requests \in Seq(Requests)
           /\ x = [t |-> x.t, wire |-> x.wire]
           /\ x.wire = [next |-> x.wire.next, requests |-> x.wire.requests]
<1>1. x \in [t : Trackers, wire : Wires] /\ Sound(x)
  BY DEF Sounds
<1>2. x.t \in Trackers /\ x.wire \in Wires
  BY <1>1
<1> QED BY <1>1, <1>2 DEF Trackers, Wires

LEMMA AskableWindow == Askable \subseteq Windows /\ (~server.up => Askable \cap XWindows = {})
BY NoneIsNoWindow DEF Askable

Nearest(x, sibling, down) ==
    IF sibling = None THEN None ELSE NearestX(StackOf(x.t), sibling, down)

LEMMA RequestSound ==
    ASSUME NEW x \in Sounds, NEW window \in Askable, NEW sibling \in Siblings,
           NEW down \in BOOLEAN, NEW mode \in {"Above", "Below"}
    PROVE  Request(x, window, sibling, Nearest(x, sibling, down), mode,
                   IF down THEN "RAISE_ABOVE" ELSE "LOWER_BELOW") \in Sounds
<1> DEFINE xsibling == Nearest(x, sibling, down)
           type == IF down THEN "RAISE_ABOVE" ELSE "LOWER_BELOW"
           asks == window \in XWindows /\ xsibling # window
           op == [type |-> type, serial |-> IF asks THEN x.wire.next ELSE 0,
                  window |-> window, sibling |-> sibling]
           s == stack_tracker_apply_prediction(x.t, op)
           more == Append(x.wire.requests, [serial |-> x.wire.next, window |-> window,
                                            sibling |-> xsibling, mode |-> mode])
           next == IF asks THEN x.wire.next + 1 ELSE x.wire.next
           requests == IF asks THEN more ELSE x.wire.requests
           y == [t |-> s, wire |-> [next |-> next, requests |-> requests]]
<1>1. /\ x.t \in Trackers /\ x.wire \in Wires /\ Sound(x)
      /\ x.t.verified \in Stacks(Windows) /\ x.t.predictions \in Seq(Ops)
      /\ x.wire.next \in Nat \ {0} /\ x.wire.requests \in Seq(Requests)
      /\ x.wire = [next |-> x.wire.next, requests |-> x.wire.requests]
  BY SoundFacts
<1>2. window \in Windows /\ (~server.up => ~asks)
  BY AskableWindow
<1>3. Request(x, window, sibling, xsibling, mode, type) = y
  <2>1. Request(x, window, sibling, xsibling, mode, type)
          = [t |-> s, wire |-> IF ~asks THEN x.wire ELSE [next |-> x.wire.next + 1, requests |-> more]]
    BY Zenon DEF Request
  <2> HIDE DEF s, asks, more
  <2>2. (IF ~asks THEN x.wire ELSE [next |-> x.wire.next + 1, requests |-> more])
          = [next |-> next, requests |-> requests]
    BY <1>1
  <2> QED BY <2>1, <2>2
<1>4. xsibling \in XWindows \cup {None}
  <2>1. StackOf(x.t) \in Seq(Windows \cup {None})
    BY <1>1, StackOfTyped
  <2> QED BY <2>1, NearestXTyped DEF Nearest
<1>5. type \in OpTypes /\ type # "ADD" /\ type # "REMOVE"
  BY DEF OpTypes
<1> HIDE DEF type, xsibling
<1>6. op \in Ops /\ op.window = window /\ op.sibling = sibling /\ op.type = type
      /\ op.serial = IF asks THEN x.wire.next ELSE 0
  BY <1>1, <1>2, <1>5 DEF Ops
<1>7. ASSUME op.serial = 0, x.t.predictions = << >>
      PROVE  KeepsX(x.t.verified, meta_stack_op_apply(x.t.verified, op, "DEFAULT"))
  <2>1. ~asks
    BY <1>1, <1>6, <1>7
  <2> HIDE DEF op
  <2>2. CASE window \notin XWindows
    BY <1>1, <1>2, <1>5, <1>6, <2>2, ApplyKeepsX
  <2>3. CASE window \in XWindows /\ xsibling = window
    <3>1. window # None
      BY <1>2, NoneIsNoWindow
    <3>2. sibling # None /\ NearestX(x.t.verified, sibling, down) = window
      BY <1>7, <2>3, <3>1 DEF Nearest, StackOf, xsibling
    <3> QED BY <1>1, <1>6, <2>3, <3>2, NotAskedKeepsX DEF type
  <2> QED BY <2>1, <2>2, <2>3
<1>8. Foreseen(x.t, s, op)
  <2> HIDE DEF op
  <2> QED BY <1>1, <1>6, <1>7, PredictionSound
<1>9. next \in Nat \ {0} /\ x.wire.next <= next /\ op.serial < next
  BY <1>1, <1>6
<1>10. requests \in Seq(Requests) /\ (~server.up => requests = x.wire.requests)
  <2>1. asks => [serial |-> x.wire.next, window |-> window, sibling |-> xsibling, mode |-> mode]
                  \in Requests
    BY <1>1, <1>4 DEF Requests
  <2>2. asks => more \in Seq(Requests)
    BY <1>1, <2>1, AppendProperties
  <2> HIDE DEF more, asks
  <2> QED BY <1>1, <1>2, <2>2
<1>11. op \in OpsBelow(next)
  <2>1. op.serial # 0 => op.window \in XWindows
    BY <1>6
  <2> HIDE DEF op, next
  <2> QED BY <1>6, <1>9, <2>1 DEF OpsBelow
<1> HIDE DEF op, s, next, requests, asks, more
<1>12. s.predictions \in Seq(OpsBelow(next))
  <2>1. x.t.predictions \in Seq(OpsBelow(next))
    <3>1. x.t.predictions \in Seq(OpsBelow(x.wire.next))
      BY <1>1 DEF Sound
    <3> QED BY <1>1, <1>9, <3>1, OpsBelowGrows
  <2>2. Append(x.t.predictions, op) \in Seq(OpsBelow(next))
    BY <1>11, <2>1, AppendProperties
  <2> QED BY <1>8, <2>1, <2>2 DEF Foreseen
<1>13. y \in [t : Trackers, wire : Wires] /\ y.t = s /\ y.wire.next = next
       /\ y.wire.requests = requests
  BY <1>8, <1>9, <1>10 DEF Foreseen, Wires
<1> HIDE DEF y
<1>14. Sound(y)
  BY <1>1, <1>8, <1>10, <1>12, <1>13 DEF Sound, Foreseen
<1>15. y \in Sounds
  BY <1>13, <1>14 DEF Sounds
<1> QED BY <1>3, <1>15 DEF xsibling, type

LEMMA RaiseSound ==
    ASSUME NEW x \in Sounds, NEW window \in Askable, NEW sibling \in Siblings
    PROVE  meta_stack_tracker_raise_above(x, window, sibling) \in Sounds
<1> DEFINE y == IF window \in XWindows THEN Looked(x) ELSE x
<1>1. y \in Sounds
  BY LookedSound
<1>2. meta_stack_tracker_raise_above(x, window, sibling) = RaiseAbove(y, window, sibling)
  BY DEF meta_stack_tracker_raise_above
<1> HIDE DEF y
<1> DEFINE mode == IF Nearest(y, sibling, TRUE) = None THEN "Below" ELSE "Above"
<1>3. RaiseAbove(y, window, sibling)
        = Request(y, window, sibling, Nearest(y, sibling, TRUE), mode, "RAISE_ABOVE")
  BY DEF RaiseAbove, Nearest
<1>4. mode \in {"Above", "Below"} /\ TRUE \in BOOLEAN
      /\ (IF TRUE THEN "RAISE_ABOVE" ELSE "LOWER_BELOW") = "RAISE_ABOVE"
  OBVIOUS
<1> HIDE DEF mode
<1>5. Request(y, window, sibling, Nearest(y, sibling, TRUE), mode,
              IF TRUE THEN "RAISE_ABOVE" ELSE "LOWER_BELOW") \in Sounds
  BY <1>1, <1>4, RequestSound
<1> QED BY <1>2, <1>3, <1>4, <1>5

LEMMA LowerSound ==
    ASSUME NEW x \in Sounds, NEW window \in Askable, NEW sibling \in Siblings
    PROVE  meta_stack_tracker_lower_below(x, window, sibling) \in Sounds
<1> DEFINE y == IF window \in XWindows THEN Looked(x) ELSE x
<1>1. y \in Sounds
  BY LookedSound
<1>2. meta_stack_tracker_lower_below(x, window, sibling) = LowerBelow(y, window, sibling)
  BY DEF meta_stack_tracker_lower_below
<1> HIDE DEF y
<1> DEFINE mode == IF Nearest(y, sibling, FALSE) = None THEN "Above" ELSE "Below"
<1>3. LowerBelow(y, window, sibling)
        = Request(y, window, sibling, Nearest(y, sibling, FALSE), mode, "LOWER_BELOW")
  BY DEF LowerBelow, Nearest
<1>4. mode \in {"Above", "Below"} /\ FALSE \in BOOLEAN
      /\ (IF FALSE THEN "RAISE_ABOVE" ELSE "LOWER_BELOW") = "LOWER_BELOW"
  OBVIOUS
<1> HIDE DEF mode
<1>5. Request(y, window, sibling, Nearest(y, sibling, FALSE), mode,
              IF FALSE THEN "RAISE_ABOVE" ELSE "LOWER_BELOW") \in Sounds
  BY <1>1, <1>4, RequestSound
<1> QED BY <1>2, <1>3, <1>4, <1>5

-----------------------------------------------------------------------------
(* The loops that make requests: each of their steps leaves what is sound  *)
(* sound, and so does the loop.                                            *)
Matches(m) == [s : Sounds, new : 0..m, stop : BOOLEAN]
Raises == [s : Sounds, topmost : Int, stop : BOOLEAN]

LEMMA MatchSound ==
    ASSUME NEW managed \in Seq(Askable), NEW old \in Int, NEW a \in Matches(Len(managed))
    PROVE  Match(managed, old, a) \in Matches(Len(managed))
<1> DEFINE n == Len(managed)
           w == StackOf(a.s.t)[old]
           lowered == Looked(meta_stack_tracker_lower_below(a.s, managed[a.new], managed[a.new + 1]))
<1>1. n \in Nat /\ (\A k \in 1..n : managed[k] \in Askable) /\ managed \in Seq(Windows)
  BY LenProperties, AskableWindow
<1>2. a.s \in Sounds /\ a.new \in 0..n /\ a.stop \in BOOLEAN
      /\ a = [s |-> a.s, new |-> a.new, stop |-> a.stop]
  BY DEF Matches
<1>3. Match(managed, old, a) =
        IF a.stop \/ a.new = 0 THEN a
        ELSE IF meta_stack_tracker_is_guard_window(w) THEN [a EXCEPT !.stop = TRUE]
        ELSE IF w = managed[a.new] THEN [a EXCEPT !.new = a.new - 1]
        ELSE IF w \notin Managed THEN a
        ELSE [a EXCEPT !.new = a.new - 1, !.s = lowered]
  BY Zenon DEF Match
<1>4. ASSUME a.new # 0 PROVE lowered \in Sounds
  <2>1. a.new \in 1..n /\ a.new + 1 \in Int
    BY <1>1, <1>2, <1>4
  <2>2. managed[a.new] \in Askable /\ managed[a.new + 1] \in Siblings
    BY <1>1, <2>1, IsSibling
  <2> QED BY <1>2, <2>2, LowerSound, LookedSound
<1> HIDE DEF lowered, w
<1>5. [a EXCEPT !.stop = TRUE] \in Matches(n)
  BY <1>2 DEF Matches
<1>6. ASSUME a.new # 0
      PROVE  [a EXCEPT !.new = a.new - 1] \in Matches(n)
             /\ [a EXCEPT !.new = a.new - 1, !.s = lowered] \in Matches(n)
  <2>1. a.new - 1 \in 0..n
    BY <1>1, <1>2, <1>6
  <2> QED BY <1>2, <1>4, <1>6, <2>1 DEF Matches
<1>7. CASE a.stop \/ a.new = 0
  BY <1>3, <1>7
<1>8. CASE ~(a.stop \/ a.new = 0)
  BY <1>3, <1>5, <1>6, <1>8
<1> QED BY <1>7, <1>8

LEMMA LowerStepSound ==
    ASSUME NEW managed \in Seq(Askable), NEW new \in 1..Len(managed), NEW u \in Sounds
    PROVE  Lower(managed, new, u) \in Sounds
<1>1. managed[new] \in Askable /\ managed \in Seq(Windows) /\ new - 1 \in Int
  BY LenProperties, AskableWindow
<1>2. managed[new - 1] \in Siblings
  BY <1>1, IsSibling
<1>3. meta_stack_tracker_lower_below(u, managed[new], managed[new - 1]) \in Sounds
  BY <1>1, <1>2, LowerSound
<1> QED BY <1>3 DEF Lower

LEMMA RaiseInOrderSound ==
    ASSUME NEW order \in Seq(Askable), NEW u \in Sounds, NEW pos \in 1..Len(order)
    PROVE  RaiseInOrder(order, u, pos) \in Sounds
<1> DEFINE below == IF pos = 1 THEN None ELSE order[pos - 1]
<1>1. order[pos] \in Askable /\ order \in Seq(Windows) /\ pos - 1 \in Int
  BY LenProperties, AskableWindow
<1>2. below \in Siblings
  BY <1>1, IsSibling
<1> HIDE DEF below
<1>3. Looked(meta_stack_tracker_raise_above(u, order[pos], below)) \in Sounds
  BY <1>1, <1>2, RaiseSound, LookedSound
<1> QED BY <1>3 DEF RaiseInOrder, below

LEMMA RaiseOverrideSound ==
    ASSUME NEW i \in Int, NEW a \in Raises, XOverride \cap ToSet(t.verified) \subseteq Askable
    PROVE  RaiseOverride(i, a) \in Raises
<1> DEFINE stack == StackOf(a.s.t)
           raised == Looked(meta_stack_tracker_raise_above(a.s, stack[i], stack[a.topmost]))
<1>1. a.s \in Sounds /\ a.topmost \in Int /\ a.stop \in BOOLEAN
      /\ a = [s |-> a.s, topmost |-> a.topmost, stop |-> a.stop]
  BY DEF Raises
<1>2. RaiseOverride(i, a) =
        IF a.stop \/ meta_stack_tracker_is_guard_window(stack[i]) THEN [a EXCEPT !.stop = TRUE]
        ELSE IF stack[i] \notin XOverride \cap ToSet(t.verified) THEN a
        ELSE [a EXCEPT !.topmost = a.topmost - 1, !.s = raised]
  BY Zenon DEF RaiseOverride
<1>3. stack \in Seq(Windows \cup {None})
  BY <1>1, SoundFacts, StackOfTyped
<1>4. ASSUME stack[i] \in XOverride \cap ToSet(t.verified) PROVE raised \in Sounds
  <2>1. stack[i] \in Askable /\ stack[a.topmost] \in Siblings
    BY <1>1, <1>3, <1>4, IsSibling
  <2> HIDE DEF stack
  <2> QED BY <1>1, <2>1, RaiseSound, LookedSound
<1> HIDE DEF raised, stack
<1>5. [a EXCEPT !.stop = TRUE] \in Raises
  BY <1>1 DEF Raises
<1>6. ASSUME stack[i] \in XOverride \cap ToSet(t.verified)
      PROVE  [a EXCEPT !.topmost = a.topmost - 1, !.s = raised] \in Raises
  <2>1. a.topmost - 1 \in Int
    BY <1>1
  <2> QED BY <1>1, <1>4, <1>6, <2>1 DEF Raises
<1> QED BY <1>2, <1>5, <1>6

LEMMA MatchDownSound ==
    ASSUME NEW managed \in Seq(Askable), NEW n \in Int, NEW a \in Matches(Len(managed))
    PROVE  MatchDown(managed, n, a) \in Matches(Len(managed))
<1> DEFINE idx == [k \in 1..n |-> k]
           V == Matches(Len(managed))
           Step(k, v) == Match(managed, n + 1 - idx[k], v)
           G == [k \in 1..n |-> [v \in V |-> Step(k, v)]]
           Is(f) == f = [u \in SUBSET (DOMAIN idx) |->
                           IF u = {} THEN a ELSE Step(Max(u), f[u \ {Max(u)}])]
           iter == CHOOSE f : Is(f)
<1>0. n \in Int
  OBVIOUS
<1>1. DOMAIN idx = 1..n /\ \A k \in 1..n : idx[k] = k
  OBVIOUS
<1>2. MatchDown(managed, n, a) = iter[DOMAIN idx]
  BY DEF MatchDown, Downwards, FoldLeft, MapThenFoldSet
<1>3. ASSUME NEW k \in 1..n, NEW v \in V PROVE Step(k, v) \in V
  <2>1. n + 1 - idx[k] \in 1..n
    BY <1>1
  <2> HIDE DEF idx
  <2> QED BY <2>1, MatchSound
<1> HIDE DEF Step, idx
<1>4. G \in [1..n -> [V -> V]]
  BY <1>3
<1>5. \A k \in 1..n, v \in V : G[k][v] = Step(k, v)
  OBVIOUS
<1>6. a \in V
  OBVIOUS
<1> HIDE DEF G, V
<1>7. PICK f : Solves(f, a, n, G, V)
  BY <1>4, <1>6, LeftFoldEquation
<1>8. \A u \in SUBSET (1..n) :
        f[u] = IF u = {} THEN a ELSE Step(Max(u), f[u \ {Max(u)}])
  BY <1>5, <1>7 DEF Solves
<1>9. Is(iter)
  <2>1. Is(f)
    BY <1>1, <1>7, <1>8 DEF Solves
  <2> QED BY <2>1
<1>10. \A u \in SUBSET (1..n) :
        iter[u] = IF u = {} THEN a ELSE Step(Max(u), iter[u \ {Max(u)}])
  BY <1>1, <1>9
<1> HIDE DEF iter
<1>11. Follows(iter, a, n, G, V)
  <2>1. iter[{}] = a
    BY <1>10
  <2>2. ASSUME NEW u \in SUBSET (1..n), u # {}, iter[u \ {Max(u)}] \in V
        PROVE  iter[u] = G[Max(u)][iter[u \ {Max(u)}]]
    <3>1. Max(u) \in 1..n
      BY <1>0, <2>2, MaxOfSome
    <3> QED BY <1>5, <1>10, <2>2, <3>1
  <2> QED BY <2>1, <2>2 DEF Follows
<1>12. iter[1..n] \in V
  BY <1>4, <1>6, <1>11, FollowsStays
<1> QED BY <1>1, <1>2, <1>12 DEF V

LEMMA LowerDownSound ==
    ASSUME NEW managed \in Seq(Askable), NEW n \in 0..Len(managed), NEW s \in Sounds
    PROVE  LowerDown(managed, n, s) \in Sounds
<1> DEFINE idx == [k \in 1..n |-> k]
           V == Sounds
           Step(k, v) == Lower(managed, n + 1 - idx[k], v)
           G == [k \in 1..n |-> [v \in V |-> Step(k, v)]]
           Is(f) == f = [u \in SUBSET (DOMAIN idx) |->
                           IF u = {} THEN s ELSE Step(Max(u), f[u \ {Max(u)}])]
           iter == CHOOSE f : Is(f)
<1>0. n \in Int
  OBVIOUS
<1>1. DOMAIN idx = 1..n /\ \A k \in 1..n : idx[k] = k
  OBVIOUS
<1>2. LowerDown(managed, n, s) = iter[DOMAIN idx]
  BY DEF LowerDown, Downwards, FoldLeft, MapThenFoldSet
<1>3. ASSUME NEW k \in 1..n, NEW v \in V PROVE Step(k, v) \in V
  <2>1. n + 1 - idx[k] \in 1..n
    BY <1>1
  <2> HIDE DEF idx
  <2> QED BY <2>1, LowerStepSound
<1> HIDE DEF Step, idx
<1>4. G \in [1..n -> [V -> V]]
  BY <1>3
<1>5. \A k \in 1..n, v \in V : G[k][v] = Step(k, v)
  OBVIOUS
<1>6. s \in V
  OBVIOUS
<1> HIDE DEF G, V
<1>7. PICK f : Solves(f, s, n, G, V)
  BY <1>4, <1>6, LeftFoldEquation
<1>8. \A u \in SUBSET (1..n) :
        f[u] = IF u = {} THEN s ELSE Step(Max(u), f[u \ {Max(u)}])
  BY <1>5, <1>7 DEF Solves
<1>9. Is(iter)
  <2>1. Is(f)
    BY <1>1, <1>7, <1>8 DEF Solves
  <2> QED BY <2>1
<1>10. \A u \in SUBSET (1..n) :
        iter[u] = IF u = {} THEN s ELSE Step(Max(u), iter[u \ {Max(u)}])
  BY <1>1, <1>9
<1> HIDE DEF iter
<1>11. Follows(iter, s, n, G, V)
  <2>1. iter[{}] = s
    BY <1>10
  <2>2. ASSUME NEW u \in SUBSET (1..n), u # {}, iter[u \ {Max(u)}] \in V
        PROVE  iter[u] = G[Max(u)][iter[u \ {Max(u)}]]
    <3>1. Max(u) \in 1..n
      BY <1>0, <2>2, MaxOfSome
    <3> QED BY <1>5, <1>10, <2>2, <3>1
  <2> QED BY <2>1, <2>2 DEF Follows
<1>12. iter[1..n] \in V
  BY <1>4, <1>6, <1>11, FollowsStays
<1> QED BY <1>1, <1>2, <1>12 DEF V

LEMMA RestackAtBottomSound ==
    ASSUME NEW order \in Seq(Askable), NEW n \in 0..Len(order), NEW s \in Sounds
    PROVE  RaiseUp(order, n, s) \in Sounds
<1> DEFINE idx == [k \in 1..n |-> k]
           V == Sounds
           Step(k, v) == RaiseInOrder(order, v, idx[k])
           G == [k \in 1..n |-> [v \in V |-> Step(k, v)]]
           Is(f) == f = [u \in SUBSET (DOMAIN idx) |->
                           IF u = {} THEN s ELSE Step(Max(u), f[u \ {Max(u)}])]
           iter == CHOOSE f : Is(f)
<1>0. n \in Int
  OBVIOUS
<1>1. DOMAIN idx = 1..n /\ \A k \in 1..n : idx[k] = k
  OBVIOUS
<1>2. RaiseUp(order, n, s) = iter[DOMAIN idx]
  BY DEF RaiseUp, Upwards, FoldLeft, MapThenFoldSet
<1>3. ASSUME NEW k \in 1..n, NEW v \in V PROVE Step(k, v) \in V
  <2>1. idx[k] \in 1..n
    BY <1>1
  <2> HIDE DEF idx
  <2> QED BY <2>1, RaiseInOrderSound
<1> HIDE DEF Step, idx
<1>4. G \in [1..n -> [V -> V]]
  BY <1>3
<1>5. \A k \in 1..n, v \in V : G[k][v] = Step(k, v)
  OBVIOUS
<1>6. s \in V
  OBVIOUS
<1> HIDE DEF G, V
<1>7. PICK f : Solves(f, s, n, G, V)
  BY <1>4, <1>6, LeftFoldEquation
<1>8. \A u \in SUBSET (1..n) :
        f[u] = IF u = {} THEN s ELSE Step(Max(u), f[u \ {Max(u)}])
  BY <1>5, <1>7 DEF Solves
<1>9. Is(iter)
  <2>1. Is(f)
    BY <1>1, <1>7, <1>8 DEF Solves
  <2> QED BY <2>1
<1>10. \A u \in SUBSET (1..n) :
        iter[u] = IF u = {} THEN s ELSE Step(Max(u), iter[u \ {Max(u)}])
  BY <1>1, <1>9
<1> HIDE DEF iter
<1>11. Follows(iter, s, n, G, V)
  <2>1. iter[{}] = s
    BY <1>10
  <2>2. ASSUME NEW u \in SUBSET (1..n), u # {}, iter[u \ {Max(u)}] \in V
        PROVE  iter[u] = G[Max(u)][iter[u \ {Max(u)}]]
    <3>1. Max(u) \in 1..n
      BY <1>0, <2>2, MaxOfSome
    <3> QED BY <1>5, <1>10, <2>2, <3>1
  <2> QED BY <2>1, <2>2 DEF Follows
<1>12. iter[1..n] \in V
  BY <1>4, <1>6, <1>11, FollowsStays
<1> QED BY <1>1, <1>2, <1>12 DEF V

LEMMA RaiseOverridesSound ==
    ASSUME NEW n \in Int, NEW a \in Raises, XOverride \cap ToSet(t.verified) \subseteq Askable
    PROVE  RaiseOverrides(n, a) \in Raises
<1> DEFINE idx == [k \in 1..n |-> k]
           V == Raises
           Step(k, v) == RaiseOverride(n + 1 - idx[k], v)
           G == [k \in 1..n |-> [v \in V |-> Step(k, v)]]
           Is(f) == f = [u \in SUBSET (DOMAIN idx) |->
                           IF u = {} THEN a ELSE Step(Max(u), f[u \ {Max(u)}])]
           iter == CHOOSE f : Is(f)
<1>0. n \in Int
  OBVIOUS
<1>1. DOMAIN idx = 1..n /\ \A k \in 1..n : idx[k] = k
  OBVIOUS
<1>2. RaiseOverrides(n, a) = iter[DOMAIN idx]
  BY DEF RaiseOverrides, Downwards, FoldLeft, MapThenFoldSet
<1>3. ASSUME NEW k \in 1..n, NEW v \in V PROVE Step(k, v) \in V
  <2>1. n + 1 - idx[k] \in 1..n
    BY <1>1
  <2> HIDE DEF idx
  <2> QED BY <2>1, RaiseOverrideSound
<1> HIDE DEF Step, idx
<1>4. G \in [1..n -> [V -> V]]
  BY <1>3
<1>5. \A k \in 1..n, v \in V : G[k][v] = Step(k, v)
  OBVIOUS
<1>6. a \in V
  OBVIOUS
<1> HIDE DEF G, V
<1>7. PICK f : Solves(f, a, n, G, V)
  BY <1>4, <1>6, LeftFoldEquation
<1>8. \A u \in SUBSET (1..n) :
        f[u] = IF u = {} THEN a ELSE Step(Max(u), f[u \ {Max(u)}])
  BY <1>5, <1>7 DEF Solves
<1>9. Is(iter)
  <2>1. Is(f)
    BY <1>1, <1>7, <1>8 DEF Solves
  <2> QED BY <2>1
<1>10. \A u \in SUBSET (1..n) :
        iter[u] = IF u = {} THEN a ELSE Step(Max(u), iter[u \ {Max(u)}])
  BY <1>1, <1>9
<1> HIDE DEF iter
<1>11. Follows(iter, a, n, G, V)
  <2>1. iter[{}] = a
    BY <1>10
  <2>2. ASSUME NEW u \in SUBSET (1..n), u # {}, iter[u \ {Max(u)}] \in V
        PROVE  iter[u] = G[Max(u)][iter[u \ {Max(u)}]]
    <3>1. Max(u) \in 1..n
      BY <1>0, <2>2, MaxOfSome
    <3> QED BY <1>5, <1>10, <2>2, <3>1
  <2> QED BY <2>1, <2>2 DEF Follows
<1>12. iter[1..n] \in V
  BY <1>4, <1>6, <1>11, FollowsStays
<1> QED BY <1>1, <1>2, <1>12 DEF V

-----------------------------------------------------------------------------
(* The X server *)
LEMMA ContainsIs ==
    ASSUME NEW E, NEW s \in Stacks(E), NEW w
    PROVE  Contains(s, w) <=> w \in ToSet(s)
BY InStack DEF Contains

LEMMA RemoveFirstIs ==
    ASSUME NEW E, NEW s \in Stacks(E), NEW w \in ToSet(s)
    PROVE  /\ RemoveFirst(s, w) = RemoveAt(s, Pos(s, w))
           /\ Pos(s, w) \in 1..Len(s) /\ s[Pos(s, w)] = w
<1>1. \E i \in 1..Len(s) : s[i] = w
  BY InStack
<1>2. Pos(s, w) \in 1..Len(s) /\ s[Pos(s, w)] = w
  BY PosIs
<1>3. RemoveFirst(s, w) = RemoveAt(s, SelectInSeq(s, LAMBDA v : v = w))
  BY <1>1 DEF RemoveFirst, SelectInSeq
<1> QED BY <1>2, <1>3 DEF Pos, SelectInSeq

LEMMA RestackIs ==
    ASSUME NEW E, NEW s \in Stacks(E), NEW w, NEW sibling, NEW mode
    PROVE  LET r == Restack(s, w, sibling, mode)
           IN  r = s \/ (r \in Stacks(E) /\ w \in ToSet(s) /\ Moved(s, r, w))
<1> DEFINE r == Restack(s, w, sibling, mode)
           without == RemoveFirst(s, w)
           p == Pos(without, sibling)
           at == IF mode = "Above" THEN (IF sibling = None THEN Len(without) ELSE p) + 1
                                   ELSE IF sibling = None THEN 1 ELSE p
<1>1. r = IF ~Contains(s, w) \/ (sibling # None /\ p = 0) THEN s ELSE InsertAt(without, at, w)
  BY Zenon DEF Restack
<1>2. CASE ~Contains(s, w) \/ (sibling # None /\ p = 0)
  BY <1>1, <1>2
<1>3. CASE ~(~Contains(s, w) \/ (sibling # None /\ p = 0))
  <2>1. w \in ToSet(s) /\ w \in E
    BY <1>3, ContainsIs, InStack
  <2>2. /\ without \in Stacks(E) /\ Without(s, without, w)
    BY <2>1, RemoveFirstIs, RemoveIs
  <2>3. r = InsertAt(without, at, w)
    BY <1>1, <1>3
  <2> HIDE DEF without, r
  <2>4. p \in 0..Len(without) /\ Len(without) \in Nat
    BY <2>2, PosIs, InStack
  <2>5. at \in 1..Len(without) + 1
    BY <1>3, <2>4
  <2>6. w \notin ToSet(without)
    BY <2>2 DEF Without
  <2> HIDE DEF at, p
  <2>7. /\ r \in Stacks(E) /\ ToSet(r) = ToSet(without) \cup {w}
        /\ \A x, y : x # w /\ y # w => (Before(r, x, y) <=> Before(without, x, y))
    BY <2>1, <2>2, <2>3, <2>5, <2>6, InsertIs
  <2>8. Moved(s, r, w)
    BY <2>1, <2>2, <2>7 DEF Without, Moved
  <2> QED BY <2>1, <2>7, <2>8 DEF r
<1> QED BY <1>2, <1>3

-----------------------------------------------------------------------------
(* The inductive invariant.  An event older than the query can only be the *)
(* first, and adds a window that the query returned.                       *)
Events == [type : {"ADD", "REMOVE", "RAISE_ABOVE"}, serial : Nat,
           window : XWindows, sibling : XWindows \cup {None}]
Servers == [stack : Stacks(XWindows), processed : Nat \ {0},
            managed : SUBSET XManaged, up : BOOLEAN]
Lefts == [changes : Nat, wayland : Nat, client : Nat, restarts : 0..MaxRestarts]

OldOnlyFirst ==
    \A i \in 1..Len(events) : events[i].serial < t.serial =>
        i = 1 /\ events[i].type = "ADD" /\ events[i].window \in ToSet(XPart(t.verified))

DownIsEmpty ==
    ~server.up => /\ wire.requests = << >> /\ events = << >>
                  /\ server.stack = << >> /\ server.managed = {}
                  /\ left.restarts # MaxRestarts

StackInv ==
    /\ t \in Trackers /\ wire \in Wires /\ server \in Servers
    /\ events \in Seq(Events) /\ left \in Lefts
    /\ t.predictions \in Seq(OpsBelow(wire.next))
    /\ left.restarts = MaxRestarts => Derived(t)
    /\ DownIsEmpty
    /\ OldOnlyFirst
    /\ VerifiedFollowsServer

LEMMA EventIsOp ==
    /\ Events \subseteq Ops
    /\ \A q \in Seq(Events) : q \in Seq(Ops)
    /\ \A ev \in Events : IsEvent(ev) /\ ev.serial \in Nat
<1>1. XWindows \cup {None} \subseteq Siblings /\ XWindows \subseteq Windows
  BY IsSibling, NoneIsNoWindow
<1>2. Events \subseteq Ops
  BY <1>1 DEF Events, Ops, OpTypes
<1>3. \A ev \in Events : IsEvent(ev) /\ ev.serial \in Nat
  BY DEF Events, IsEvent
<1> QED BY <1>2, <1>3

LEMMA BothSound ==
    ASSUME StackInv
    PROVE  Both \in Sounds /\ Both.t = t /\ Both.wire = wire
<1>1. Both \in [t : Trackers, wire : Wires] /\ Both.t = t /\ Both.wire = wire
  BY DEF StackInv, Both
<1>2. Sound(Both)
  BY <1>1 DEF Sound, StackInv, DownIsEmpty
<1> QED BY <1>1, <1>2 DEF Sounds

(* A step that leaves what is sound, and the server and its events alone *)
LEMMA SoundStep ==
    ASSUME StackInv, NEW x \in Sounds, t' = x.t, wire' = x.wire, UNCHANGED <<server, events>>,
           left' \in Lefts, left'.restarts = left.restarts
    PROVE  StackInv'
<1>1. x.t \in Trackers /\ x.wire \in Wires /\ Sound(x)
  BY SoundFacts
<1>2. t' \in Trackers' /\ wire' \in Wires' /\ server' \in Servers' /\ events' \in Seq(Events)'
  BY <1>1 DEF StackInv, Trackers, Wires, Servers, Events, Ops, Requests, Siblings,
       Windows, NoStack, OpTypes, Stacks
<1>3. Askable' = Askable
  BY DEF Askable, Windows
<1>4. OpsBelow(wire.next)' = OpsBelow(x.wire.next)
  BY <1>3 DEF OpsBelow, Ops, OpTypes, Windows, Siblings
<1>5. t'.predictions \in Seq(OpsBelow(wire.next)')
  BY <1>1, <1>4 DEF Sound
<1>6. (left.restarts = MaxRestarts => Derived(t))'
  BY <1>1 DEF Sound, Derived
<1>7. DownIsEmpty'
  BY <1>1 DEF DownIsEmpty, StackInv, Sound
<1>8. XPart(t.verified)' = XPart(t.verified) /\ t'.serial = t.serial
  BY <1>1 DEF Sound
<1>9. OldOnlyFirst'
  BY <1>8 DEF OldOnlyFirst, StackInv
<1>10. VerifiedFollowsServer'
  BY <1>8 DEF VerifiedFollowsServer, StackInv
<1>11. left' \in Lefts'
  BY DEF Lefts
<1> QED BY <1>2, <1>5, <1>6, <1>7, <1>9, <1>10, <1>11 DEF StackInv

-----------------------------------------------------------------------------
LEMMA OrderTyped ==
    ASSUME NEW E, IsFiniteSet(E), NEW q \in SetToSeqs(E)
    PROVE  q \in Seq(E) /\ q \in Stacks(E) /\ ToSet(q) \subseteq E
           /\ Len(q) = Cardinality(E) /\ Cardinality(E) \in Nat
<1> DEFINE n == Cardinality(E)
<1>1. n \in Nat
  BY FS_CardinalityType
<1>2. q \in [1..n -> E] /\ \A i, j \in 1..n : i # j => q[i] # q[j]
  BY DEF SetToSeqs
<1> HIDE DEF n
<1>3. q \in Seq(E) /\ Len(q) = n
  BY <1>1, <1>2
<1>4. q \in Stacks(E)
  BY <1>2, <1>3, IsStack
<1> QED BY <1>1, <1>3, <1>4, InStack DEF n

LEMMA EmptyStack ==
    ASSUME NEW E, NEW s \in Stacks(E), ToSet(s) = {}
    PROVE  s = << >>
<1>1. Len(s) \in Nat /\ s \in Seq(E) /\ \A i \in 1..Len(s) : s[i] \in ToSet(s)
  BY InStack
<1>2. Len(s) = 0
  <2> SUFFICES ASSUME Len(s) # 0 PROVE FALSE
    OBVIOUS
  <2>1. 1 \in 1..Len(s)
    BY <1>1
  <2> QED BY <1>1, <2>1
<1> QED BY <1>1, <1>2

LEMMA EmptyFacts ==
    /\ \A E : << >> \in Stacks(E)
    /\ ToSet(<< >>) = {}
    /\ \A E : << >> \in Seq(E)
    /\ Len(<< >>) = 0
<1>1. \A E : << >> \in Seq(E)
  OBVIOUS
<1>2. IsInjective(<< >>)
  BY DEF IsInjective
<1> QED BY <1>1, <1>2 DEF Stacks, ToSet

StartsWith(stack) ==
    /\ t = [verified |-> stack, predictions |-> <<>>, predicted |-> NoStack,
            sync |-> FALSE, serial |-> 1]
    /\ server = [stack |-> XPart(stack), processed |-> 1,
                 managed |-> XManaged, up |-> TRUE]
    /\ wire = [next |-> 2, requests |-> <<>>]
    /\ events = <<>>
    /\ left = [changes |-> MaxChanges, wayland |-> MaxWaylandOps,
               client |-> MaxClientOps, restarts |-> MaxRestarts]

LEMMA InitInv == Init => StackInv
<1> SUFFICES ASSUME Init PROVE StackInv
  OBVIOUS
<1>0. PICK W \in SUBSET Wayland : \E stack \in SetToSeqs(XManaged \cup {Guard} \cup W) : StartsWith(stack)
  BY DEF Init, StartsWith
<1>1. PICK stack \in SetToSeqs(XManaged \cup {Guard} \cup W) : StartsWith(stack)
  BY <1>0
<1> DEFINE E == XManaged \cup {Guard} \cup W
<1>2. E \subseteq Windows /\ IsFiniteSet(E)
  <2>1. E \subseteq XWindows \cup Wayland
    BY DEF XWindows
  <2>2. IsFiniteSet(XWindows \cup Wayland)
    BY StackAssumption, FS_Union
  <2> QED BY <2>1, <2>2, FS_Subset DEF Windows
<1>3. stack \in Stacks(Windows)
  <2>1. stack \in Stacks(E)
    BY <1>2, OrderTyped
  <2> HIDE DEF E
  <2>2. \A q \in Seq(E) : q \in Seq(Windows)
    BY <1>2
  <2> QED BY <2>1, <2>2 DEF Stacks
<1>4. XPart(stack) \in Stacks(XWindows) /\ XPart(stack) \in Stacks(Windows)
  BY <1>3, XPartIs, XStacks
<1>5. t \in Trackers
  <2>1. << >> \in Seq(Ops)
    OBVIOUS
  <2> QED BY <1>1, <1>3, <2>1 DEF Trackers, StartsWith
<1>6. wire \in Wires /\ server \in Servers /\ events \in Seq(Events) /\ left \in Lefts
  BY <1>1, <1>4, StackAssumption DEF Wires, Servers, Lefts, StartsWith
<1>7. t.predictions \in Seq(OpsBelow(wire.next))
  BY <1>1 DEF StartsWith
<1>8. Derived(t)
  BY <1>1 DEF Derived, StartsWith
<1>9. DownIsEmpty /\ OldOnlyFirst
  BY <1>1 DEF DownIsEmpty, OldOnlyFirst, StartsWith
<1>10. VerifiedFollowsServer
  BY <1>1, <1>4, ApplyAllEmpty DEF VerifiedFollowsServer, StartsWith
<1> QED BY <1>5, <1>6, <1>7, <1>8, <1>9, <1>10 DEF StackInv

-----------------------------------------------------------------------------
(* on_stack_changed *)
LEMMA SelectLastInt ==
    ASSUME NEW q, Len(q) \in Nat
    PROVE  TopManaged(q) \in Int /\ TopOrGuard(q) \in Int
<1>1. ASSUME NEW u \in SUBSET (1..Len(q)), u # {} PROVE Max(u) \in Int
  <2> DEFINE n == Len(q)
  <2>1. n \in Int /\ u \in SUBSET (1..n)
    OBVIOUS
  <2> HIDE DEF n
  <2>2. Max(u) \in u
    BY <1>1, <2>1, MaxOfSome
  <2>3. \A i \in u : i \in Int
    BY <2>1
  <2> QED BY <2>2, <2>3
<1>2. TopManaged(q) \in Int
  BY <1>1 DEF TopManaged, SelectLastInSeq
<1>3. TopOrGuard(q) \in Int
  BY <1>1 DEF TopOrGuard, SelectLastInSeq
<1> QED BY <1>2, <1>3

LEMMA RestackManagedSound ==
    ASSUME NEW s0 \in Sounds, NEW managed \in Seq(Askable)
    PROVE  meta_stack_tracker_restack_managed(s0, managed) \in Sounds
<1> DEFINE s == Looked(s0)
           stack == StackOf(s.t)
           n == Len(managed)
           top == TopOrGuard(stack)
           raised == IF managed[n] = stack[top] THEN s
                     ELSE Looked(meta_stack_tracker_raise_above(s, managed[n], stack[top]))
           start == [s |-> raised, new |-> n - 1, stop |-> FALSE]
           matched == MatchDown(managed, top - 1, start)
<1>1. n \in Nat /\ \A k \in 1..n : managed[k] \in Askable
  BY LenProperties
<1>2. meta_stack_tracker_restack_managed(s0, managed)
        = IF n = 0 THEN s0 ELSE LowerDown(managed, matched.new, matched.s)
  BY Zenon DEF meta_stack_tracker_restack_managed
<1>3. s \in Sounds
  BY LookedSound
<1>4. stack \in Seq(Windows \cup {None}) /\ Len(stack) \in Nat
  BY <1>3, SoundFacts, StackOfTyped, LenProperties
<1> HIDE DEF s, stack
<1>5. top \in Int /\ top - 1 \in Int
  BY <1>4, SelectLastInt
<1> HIDE DEF top
<1>6. CASE n = 0
  BY <1>2, <1>6
<1>7. CASE n # 0
  <2>1. managed[n] \in Askable /\ stack[top] \in Siblings
    BY <1>1, <1>4, <1>5, <1>7, IsSibling
  <2>2. raised \in Sounds
    BY <1>3, <2>1, RaiseSound, LookedSound
  <2> HIDE DEF raised
  <2>3. start \in Matches(n)
    BY <1>1, <1>7, <2>2 DEF Matches
  <2> HIDE DEF start
  <2>4. matched \in Matches(n)
    BY <1>5, <2>3, MatchDownSound
  <2> HIDE DEF matched
  <2>5. matched.new \in 0..n /\ matched.s \in Sounds
    BY <2>4 DEF Matches
  <2>6. LowerDown(managed, matched.new, matched.s) \in Sounds
    BY <2>5, LowerDownSound
  <2> QED BY <1>2, <1>7, <2>6
<1> QED BY <1>6, <1>7

LEMMA StackChangedSound ==
    ASSUME NEW s \in Sounds, NEW order \in Seq(Askable), NEW hidden
    PROVE  on_stack_changed(s, order, hidden) \in Sounds
<1> DEFINE shownOrder == Only(order, ToSet(order) \ hidden)
           others == Only(order, hidden) \o IF server.up THEN <<Guard>> ELSE <<>>
           u == meta_stack_tracker_restack_managed(s, shownOrder)
<1>1. /\ shownOrder \in Seq(Askable \cap (ToSet(order) \ hidden))
      /\ Only(order, hidden) \in Seq(Askable \cap hidden)
  BY OnlyList
<1>2. shownOrder \in Seq(Askable) /\ Only(order, hidden) \in Seq(Askable)
  BY <1>1
<1>3. (IF server.up THEN <<Guard>> ELSE <<>>) \in Seq(Askable)
  <2>1. server.up => Guard \in Askable
    BY DEF Askable, Windows, XWindows
  <2>2. server.up => <<Guard>> \in Seq(Askable)
    BY <2>1
  <2> QED BY <2>2
<1>4. others \in Seq(Askable)
  BY <1>2, <1>3, ConcatProperties
<1>5. on_stack_changed(s, order, hidden) = RaiseUp(others, Len(others), Looked(u))
  BY DEF on_stack_changed, meta_stack_tracker_restack_at_bottom
<1> HIDE DEF others, shownOrder
<1>6. Looked(u) \in Sounds
  BY <1>2, RestackManagedSound, LookedSound
<1>7. Len(others) \in 0..Len(others)
  BY <1>4, LenProperties
<1>8. RaiseUp(others, Len(others), Looked(u)) \in Sounds
  <2> HIDE DEF u
  <2> QED BY <1>4, <1>6, <1>7, RestackAtBottomSound
<1> QED BY <1>5, <1>8

LEMMA ManagedAskable ==
    ASSUME StackInv
    PROVE  Managed \subseteq Askable
<1>1. server.managed \subseteq XManaged /\ (~server.up => server.managed = {})
  BY DEF StackInv, Servers, DownIsEmpty
<1> QED BY <1>1 DEF Managed, Askable, Windows, XWindows

LEMMA PresentFinite ==
    ASSUME StackInv
    PROVE  IsFiniteSet(Present) /\ Present \subseteq Askable
<1>1. Present \subseteq Managed
  BY DEF Present
<1>2. Managed \subseteq Askable
  BY ManagedAskable
<1>3. IsFiniteSet(Windows) /\ Askable \subseteq Windows
  BY StackAssumption, FS_Union, AskableWindow DEF Windows
<1> QED BY <1>1, <1>2, <1>3, FS_Subset

LEMMA StepStackChanged ==
    ASSUME StackInv, StackChanged
    PROVE  StackInv'
<1>1. PICK order \in SetToSeqs(Present), hidden \in SUBSET Present :
         Becomes(on_stack_changed(Both, order, hidden))
  BY DEF StackChanged
<1>2. order \in Seq(Askable)
  <2>1. order \in Seq(Present)
    BY PresentFinite, OrderTyped
  <2> QED BY <2>1, PresentFinite
<1>3. on_stack_changed(Both, order, hidden) \in Sounds
  BY <1>2, BothSound, StackChangedSound
<1>4. left' \in Lefts /\ left'.restarts = left.restarts
  BY SMTT(40) DEF StackChanged, StackInv, Lefts
<1>5. UNCHANGED <<server, events>>
  BY DEF StackChanged
<1> DEFINE x == on_stack_changed(Both, order, hidden)
<1>6. t' = x.t /\ wire' = x.wire
  BY <1>1 DEF Becomes
<1> HIDE DEF x
<1>7. x \in Sounds
  BY <1>3 DEF x
<1> QED BY <1>4, <1>5, <1>6, <1>7, SoundStep

-----------------------------------------------------------------------------
(* meta_stack_tracker_sync_stack *)
LEMMA DownNoX ==
    ASSUME StackInv, ~server.up
    PROVE  XPart(t.verified) = << >> /\ ToSet(t.verified) \cap XWindows = {}
<1>1. t.verified \in Stacks(Windows)
  BY DEF StackInv, Trackers
<1>2. /\ XPart(t.verified) \in Stacks(Windows)
      /\ ToSet(XPart(t.verified)) = ToSet(t.verified) \cap XWindows
  BY <1>1, XPartIs, XStacks
<1>3. XPart(t.verified) = << >>
  BY <1>2, ApplyAllEmpty DEF StackInv, DownIsEmpty, VerifiedFollowsServer
<1> QED BY <1>2, <1>3, EmptyFacts

LEMMA StepSyncStack ==
    ASSUME StackInv, meta_stack_tracker_sync_stack
    PROVE  StackInv'
<1> DEFINE s0 == [Both EXCEPT !.t.sync = FALSE]
           s == Looked(s0)
           stack == StackOf(s.t)
           top == TopManaged(stack)
           start == [s |-> s, topmost |-> top, stop |-> FALSE]
           x == keep_override_redirect_on_top(s0)
<1>1. s0 \in Sounds
  <2>1. s0 = [t |-> [t EXCEPT !.sync = FALSE], wire |-> wire]
    <3>1. Both.t = t /\ Both = [t |-> t, wire |-> wire]
      BY DEF Both
    <3>2. s0 = [Both EXCEPT !.t = [Both.t EXCEPT !.sync = FALSE]]
      BY Zenon
    <3> DEFINE y == [t EXCEPT !.sync = FALSE]
    <3>3. s0 = [Both EXCEPT !.t = y]
      BY <3>1, <3>2
    <3> HIDE DEF y, s0
    <3>4. s0 = [[t |-> t, wire |-> wire] EXCEPT !.t = y]
      BY <3>1, <3>3
    <3>5. [[t |-> t, wire |-> wire] EXCEPT !.t = y] = [t |-> y, wire |-> wire]
      OBVIOUS
    <3> QED BY <3>4, <3>5 DEF y
  <2> DEFINE r == [t EXCEPT !.sync = FALSE]
  <2>2. /\ r \in Trackers /\ r.verified = t.verified /\ r.serial = t.serial
        /\ r.predictions = t.predictions /\ r.predicted = t.predicted
    BY DEF StackInv, Trackers
  <2> HIDE DEF r, s0
  <2>3. s0 \in [t : Trackers, wire : Wires] /\ s0.t = r /\ s0.wire = wire
    BY <2>1, <2>2 DEF StackInv, r
  <2>4. Sound(s0)
    BY <2>2, <2>3 DEF Sound, StackInv, DownIsEmpty, Derived
  <2> QED BY <2>3, <2>4 DEF Sounds
<1>2. x = RaiseOverrides(top - 1, start).s
  BY Zenon DEF keep_override_redirect_on_top
<1>3. t' = x.t /\ wire' = x.wire
  BY DEF meta_stack_tracker_sync_stack, Becomes
<1> HIDE DEF x, s0
<1>4. s \in Sounds
  BY <1>1, LookedSound
<1> HIDE DEF s
<1>5. stack \in Seq(Windows \cup {None}) /\ Len(stack) \in Nat
  BY <1>4, SoundFacts, StackOfTyped, LenProperties
<1> HIDE DEF stack
<1>6. top \in Int /\ top - 1 \in Int
  BY <1>5, SelectLastInt
<1> HIDE DEF top
<1>7. start \in Raises
  BY <1>4, <1>6 DEF Raises
<1>8. XOverride \cap ToSet(t.verified) \subseteq Askable
  <2>1. XOverride \subseteq XWindows /\ XWindows \subseteq Windows
    BY DEF XWindows, Windows
  <2>2. server.up \/ ToSet(t.verified) \cap XWindows = {}
    BY DownNoX
  <2> QED BY <2>1, <2>2 DEF Askable
<1> HIDE DEF start
<1>9. RaiseOverrides(top - 1, start) \in Raises
  BY <1>6, <1>7, <1>8, RaiseOverridesSound
<1>10. x \in Sounds
  BY <1>2, <1>9 DEF Raises
<1>11. UNCHANGED <<server, events>> /\ left' \in Lefts /\ left'.restarts = left.restarts
  BY DEF meta_stack_tracker_sync_stack, StackInv
<1> QED BY <1>3, <1>10, <1>11, SoundStep

-----------------------------------------------------------------------------
(* meta_stack_tracker_record_add, meta_stack_tracker_record_remove *)
LEMMA StepWaylandOp ==
    ASSUME StackInv, NEW w \in Wayland, NEW type \in {"ADD", "REMOVE"}, WaylandOp(type, w)
    PROVE  StackInv'
<1> DEFINE op == [type |-> type, serial |-> 0, window |-> w, sibling |-> None]
           s == stack_tracker_apply_prediction(t, op)
           x == [t |-> s, wire |-> wire]
<1>1. w \in Windows /\ w \notin XWindows /\ w \in Askable
  BY NoneIsNoWindow DEF Askable
<1>2. op \in Ops /\ op.type \in OpTypes /\ op.window = w /\ op.serial = 0
  BY <1>1, IsSibling DEF Ops, OpTypes
<1>3. t \in Trackers /\ wire \in Wires /\ t.verified \in Stacks(Windows) /\ wire.next \in Nat \ {0}
  BY DEF StackInv, Trackers, Wires
<1>4. op \in OpsBelow(wire.next)
  BY <1>1, <1>2, <1>3 DEF OpsBelow
<1> HIDE DEF op
<1>5. KeepsX(t.verified, meta_stack_op_apply(t.verified, op, "DEFAULT"))
  BY <1>1, <1>2, <1>3, ApplyKeepsX
<1>6. Foreseen(t, s, op)
  BY <1>2, <1>3, <1>5, PredictionSound
<1> HIDE DEF s
<1>7. s.predictions \in Seq(OpsBelow(wire.next))
  <2>1. t.predictions \in Seq(OpsBelow(wire.next))
    BY DEF StackInv
  <2>2. Append(t.predictions, op) \in Seq(OpsBelow(wire.next))
    BY <1>4, <2>1, AppendProperties
  <2> QED BY <1>6, <2>1, <2>2 DEF Foreseen
<1>8. x \in [t : Trackers, wire : Wires] /\ x.t = s /\ x.wire = wire
  BY <1>3, <1>6 DEF Foreseen
<1> HIDE DEF x
<1>9. Sound(x)
  BY <1>6, <1>7, <1>8 DEF Sound, StackInv, DownIsEmpty, Foreseen
<1>10. x \in Sounds
  BY <1>8, <1>9 DEF Sounds
<1>11. t' = x.t /\ wire' = x.wire /\ UNCHANGED <<server, events>>
  BY <1>8 DEF WaylandOp, s, op
<1>12. left' \in Lefts /\ left'.restarts = left.restarts
  BY DEF WaylandOp, StackInv, Lefts
<1> QED BY <1>10, <1>11, <1>12, SoundStep

-----------------------------------------------------------------------------
(* The server and its clients: what changes the server's stack is told by  *)
(* an event that does the same to a stack.                                 *)
LEMMA ServerStep ==
    ASSUME StackInv, server.up, UNCHANGED t, wire' \in Wires, wire'.next = wire.next,
           server' \in Servers, server'.up, left' \in Lefts, left'.restarts = left.restarts,
           \/ events' = events /\ server'.stack = server.stack
           \/ \E ev \in Events : /\ events' = Append(events, ev) /\ ev.serial # 0
                                 /\ meta_stack_op_apply(server.stack, ev, "DEFAULT") = server'.stack
    PROVE  StackInv'
<1>1. /\ events \in Seq(Events) /\ events \in Seq(Ops) /\ t.verified \in Stacks(Windows)
      /\ t.serial \in {0, 1}
  BY EventIsOp DEF StackInv, Trackers
<1>2. XPart(t.verified) \in Stacks(Windows) /\ XPart(t.verified)' = XPart(t.verified)
  BY <1>1, XPartIs, XStacks
<1>3. Askable' = Askable
  BY DEF Askable, Windows
<1>4. t' \in Trackers' /\ wire' \in Wires' /\ server' \in Servers' /\ left' \in Lefts'
  BY DEF StackInv, Trackers, Wires, Servers, Lefts, Events, Ops, Requests, Siblings,
       Windows, NoStack, OpTypes, Stacks
<1>5. t'.predictions \in Seq(OpsBelow(wire.next)')
  <2>1. OpsBelow(wire.next)' = OpsBelow(wire.next)
    BY <1>3 DEF OpsBelow, Ops, OpTypes, Windows, Siblings
  <2> QED BY <2>1 DEF StackInv
<1>6. (left.restarts = MaxRestarts => Derived(t))' /\ DownIsEmpty'
  BY DEF StackInv, Derived, DownIsEmpty
<1>7. events' \in Seq(Events)' /\ OldOnlyFirst' /\ VerifiedFollowsServer'
  <2>1. CASE events' = events /\ server'.stack = server.stack
    BY <1>1, <1>2, <2>1 DEF StackInv, OldOnlyFirst, VerifiedFollowsServer, Events
  <2>2. ASSUME NEW ev \in Events, events' = Append(events, ev), ev.serial # 0,
               meta_stack_op_apply(server.stack, ev, "DEFAULT") = server'.stack
        PROVE  events' \in Seq(Events)' /\ OldOnlyFirst' /\ VerifiedFollowsServer'
    <3> DEFINE n == Len(events)
    <3>1. /\ events' \in Seq(Events) /\ Len(events') = n + 1 /\ events'[n + 1] = ev
          /\ n \in Nat /\ \A i \in 1..n : events'[i] = events[i]
      BY <1>1, <2>2, AppendProperties, LenProperties
    <3>2. \A i \in 1..Len(events') : i \in 1..n \/ i = n + 1
      BY <3>1
    <3>3. ~(ev.serial < t.serial)
      BY <1>1, <2>2, EventIsOp
    <3>4. OldOnlyFirst'
      <4> HIDE DEF n
      <4>1. \A i \in 1..n : events[i].serial < t.serial =>
              i = 1 /\ events[i].type = "ADD" /\ events[i].window \in ToSet(XPart(t.verified))
        BY DEF StackInv, OldOnlyFirst, n
      <4> QED BY <1>2, <3>1, <3>2, <3>3, <4>1 DEF OldOnlyFirst
    <3>5. ApplyAll(XPart(t.verified), events', "DEFAULT") = server'.stack
      <4>1. ev \in Ops
        BY EventIsOp
      <4>2. ApplyAll(XPart(t.verified), Append(events, ev), "DEFAULT")
              = meta_stack_op_apply(ApplyAll(XPart(t.verified), events, "DEFAULT"), ev, "DEFAULT")
        BY <1>1, <1>2, <4>1, ApplyAllAppend
      <4>3. ApplyAll(XPart(t.verified), events, "DEFAULT") = server.stack
        BY DEF StackInv, VerifiedFollowsServer
      <4> QED BY <2>2, <4>2, <4>3
    <3>6. events' \in Seq(Events)'
      BY <3>1 DEF Events
    <3> QED BY <1>2, <3>4, <3>5, <3>6 DEF VerifiedFollowsServer
  <2> QED BY <2>1, <2>2
<1> QED BY <1>4, <1>5, <1>6, <1>7 DEF StackInv

LEMMA ServerFacts ==
    ASSUME StackInv
    PROVE  /\ server.stack \in Stacks(XWindows) /\ server.processed \in Nat \ {0}
           /\ server.managed \in SUBSET XManaged /\ None \notin XWindows
           /\ \A r \in Stacks(XWindows), n \in Nat \ {0} :
                /\ [server EXCEPT !.stack = r] \in Servers
                /\ [server EXCEPT !.stack = r].stack = r
                /\ [server EXCEPT !.stack = r].up = server.up
                /\ [server EXCEPT !.stack = r, !.processed = n] \in Servers
                /\ [server EXCEPT !.stack = r, !.processed = n].stack = r
                /\ [server EXCEPT !.stack = r, !.processed = n].up = server.up
BY NoneIsNoWindow DEF StackInv, Servers

LEMMA NotifyEvent ==
    ASSUME NEW s \in Stacks(XWindows), NEW r \in Stacks(XWindows), NEW w \in ToSet(s),
           Moved(s, r, w), NEW n \in Nat \ {0}
    PROVE  /\ ConfigureNotify(r, w, n) \in Events /\ ConfigureNotify(r, w, n).serial # 0
           /\ meta_stack_op_apply(s, ConfigureNotify(r, w, n), "DEFAULT") = r
<1> DEFINE ev == ConfigureNotify(r, w, n)
<1>1. /\ meta_stack_op_apply(s, ev, "DEFAULT") = r /\ ev.sibling \in XWindows \cup {None}
  BY NoneIsNoWindow, NotifyIs
<1>2. w \in XWindows
  BY InStack
<1>3. ev = [type |-> "RAISE_ABOVE", serial |-> n, window |-> w, sibling |-> ev.sibling]
  BY DEF ConfigureNotify
<1> HIDE DEF ev
<1>4. ev \in Events /\ ev.serial = n
  BY <1>1, <1>2, <1>3 DEF Events
<1> QED BY <1>1, <1>4 DEF ev

LEMMA StepServerProcesses ==
    ASSUME StackInv, ServerProcesses
    PROVE  StackInv'
<1> DEFINE r == Head(wire.requests)
           stack == Restack(server.stack, r.window, r.sibling, r.mode)
           s == server.stack
<1>1. /\ server.up /\ wire.requests # << >> /\ wire.requests \in Seq(Requests)
      /\ wire = [next |-> wire.next, requests |-> wire.requests] /\ wire.next \in Nat \ {0}
  BY DEF ServerProcesses, StackInv, DownIsEmpty, Wires
<1>2. r \in Requests /\ Tail(wire.requests) \in Seq(Requests)
  BY <1>1, HeadTailProperties
<1>3. r.serial \in Nat \ {0}
  BY <1>2 DEF Requests
<1>4. /\ server' = [server EXCEPT !.stack = stack, !.processed = r.serial]
      /\ events' = IF stack = s THEN events
                   ELSE Append(events, ConfigureNotify(stack, r.window, r.serial))
      /\ wire' = [wire EXCEPT !.requests = Tail(wire.requests)]
      /\ UNCHANGED <<t, left>>
  BY DEF ServerProcesses
<1>5. s \in Stacks(XWindows)
  BY ServerFacts
<1>6. stack = s \/ (stack \in Stacks(XWindows) /\ r.window \in ToSet(s) /\ Moved(s, stack, r.window))
  BY <1>5, RestackIs
<1> HIDE DEF r, stack
<1>7. server' \in Servers /\ server'.up /\ server'.stack = stack
  BY <1>1, <1>3, <1>4, <1>5, <1>6, ServerFacts
<1>8. wire' \in Wires /\ wire'.next = wire.next
  BY <1>1, <1>2, <1>4 DEF Wires
<1>9. left' \in Lefts /\ left'.restarts = left.restarts /\ UNCHANGED t
  BY <1>4 DEF StackInv
<1>10. CASE stack = s
  <2>1. events' = events /\ server'.stack = server.stack
    BY <1>4, <1>7, <1>10
  <2> QED BY <1>1, <1>7, <1>8, <1>9, <2>1, ServerStep
<1>11. CASE stack # s
  <2> DEFINE ev == ConfigureNotify(stack, r.window, r.serial)
  <2>1. ev \in Events /\ ev.serial # 0 /\ meta_stack_op_apply(s, ev, "DEFAULT") = stack
    BY <1>3, <1>5, <1>6, <1>11, NotifyEvent
  <2>2. events' = Append(events, ev)
    BY <1>4, <1>11
  <2> HIDE DEF ev
  <2>3. \E e \in Events : /\ events' = Append(events, e) /\ e.serial # 0
                          /\ meta_stack_op_apply(server.stack, e, "DEFAULT") = server'.stack
    BY <1>7, <2>1, <2>2
  <2> QED BY <1>1, <1>7, <1>8, <1>9, <2>3, ServerStep
<1> QED BY <1>10, <1>11

LEMMA StepClientActs ==
    ASSUME StackInv, ClientActs
    PROVE  StackInv'
<1> DEFINE s == server.stack
           Told == \E ev \in Events : /\ events' = Append(events, ev) /\ ev.serial # 0
                                      /\ meta_stack_op_apply(s, ev, "DEFAULT") = server'.stack
<1>0. s \in Stacks(XWindows) /\ server.processed \in Nat \ {0} /\ None \notin XWindows
  BY ServerFacts
<1>1. PICK w \in XOverride :
         \/ /\ ~Contains(server.stack, w)
            /\ server' = [server EXCEPT !.stack = Append(s, w)]
            /\ events' = Append(events, [type |-> "ADD", serial |-> server.processed,
                                         window |-> w, sibling |-> None])
         \/ /\ Contains(server.stack, w)
            /\ server' = [server EXCEPT !.stack = RemoveFirst(s, w)]
            /\ events' = Append(events, [type |-> "REMOVE", serial |-> server.processed,
                                         window |-> w, sibling |-> None])
         \/ \E sibling \in ToSet(server.stack) \ {w} :
              LET stack == Restack(server.stack, w, sibling, "Above")
              IN /\ stack # server.stack
                 /\ server' = [server EXCEPT !.stack = stack]
                 /\ events' = Append(events, ConfigureNotify(stack, w, server.processed))
  BY DEF ClientActs
<1>2. w \in XWindows
  BY DEF XWindows
<1>3. server.up /\ UNCHANGED <<t, wire>> /\ left' \in Lefts /\ left'.restarts = left.restarts
      /\ wire' \in Wires /\ wire'.next = wire.next
  BY SMTT(40) DEF ClientActs, StackInv, Lefts
<1>4. \A type \in {"ADD", "REMOVE"} :
        LET ev == [type |-> type, serial |-> server.processed, window |-> w, sibling |-> None]
        IN  /\ ev \in Events /\ ev.type = type /\ ev.window = w /\ ev.serial # 0
            /\ ev.type \in OpTypes /\ ~Moves(s, ev)
  BY <1>0, <1>2 DEF Events, OpTypes, Moves
<1>5. server' \in Servers /\ server'.up /\ Told
  <2>1. CASE /\ ~Contains(server.stack, w)
             /\ server' = [server EXCEPT !.stack = Append(s, w)]
             /\ events' = Append(events, [type |-> "ADD", serial |-> server.processed,
                                          window |-> w, sibling |-> None])
    <3> DEFINE ev == [type |-> "ADD", serial |-> server.processed, window |-> w, sibling |-> None]
    <3>1. w \notin ToSet(s)
      BY <1>0, <2>1, ContainsIs
    <3>2. Append(s, w) \in Stacks(XWindows)
      BY <1>0, <1>2, <3>1, AppendIs
    <3>3. ev \in Events /\ ev.type = "ADD" /\ ev.window = w /\ ev.serial # 0 /\ ev.type \in OpTypes
          /\ ~Moves(s, ev)
      BY <1>4
    <3>4. events' = Append(events, ev)
      BY <2>1
    <3> HIDE DEF ev
    <3>5. Outcome(s, meta_stack_op_apply(s, ev, "DEFAULT"), ev, "DEFAULT")
      BY <1>0, <1>2, <3>3, ApplyCases
    <3>6. meta_stack_op_apply(s, ev, "DEFAULT") = Append(s, w)
      BY <3>1, <3>3, <3>5 DEF Outcome
    <3>7. server' \in Servers /\ server'.up /\ server'.stack = Append(s, w)
      BY <1>3, <2>1, <3>2, ServerFacts
    <3> QED BY <3>3, <3>4, <3>6, <3>7
  <2>2. CASE /\ Contains(server.stack, w)
             /\ server' = [server EXCEPT !.stack = RemoveFirst(s, w)]
             /\ events' = Append(events, [type |-> "REMOVE", serial |-> server.processed,
                                          window |-> w, sibling |-> None])
    <3> DEFINE ev == [type |-> "REMOVE", serial |-> server.processed, window |-> w, sibling |-> None]
    <3>1. w \in ToSet(s)
      BY <1>0, <2>2, ContainsIs
    <3>2. /\ RemoveFirst(s, w) = RemoveAt(s, Pos(s, w))
          /\ RemoveFirst(s, w) \in Stacks(XWindows)
      BY <1>0, <3>1, RemoveFirstIs, RemoveIs
    <3>3. ev \in Events /\ ev.type = "REMOVE" /\ ev.window = w /\ ev.serial # 0 /\ ev.type \in OpTypes
          /\ ~Moves(s, ev)
      BY <1>4
    <3>4. events' = Append(events, ev)
      BY <2>2
    <3> HIDE DEF ev
    <3>5. Outcome(s, meta_stack_op_apply(s, ev, "DEFAULT"), ev, "DEFAULT")
      BY <1>0, <1>2, <3>3, ApplyCases
    <3>6. meta_stack_op_apply(s, ev, "DEFAULT") = RemoveFirst(s, w)
      BY <3>1, <3>2, <3>3, <3>5 DEF Outcome
    <3>7. server' \in Servers /\ server'.up /\ server'.stack = RemoveFirst(s, w)
      BY <1>3, <2>2, <3>2, ServerFacts
    <3> QED BY <3>3, <3>4, <3>6, <3>7
  <2>3. ASSUME NEW sibling,
               Restack(s, w, sibling, "Above") # s,
               server' = [server EXCEPT !.stack = Restack(s, w, sibling, "Above")],
               events' = Append(events, ConfigureNotify(Restack(s, w, sibling, "Above"), w,
                                                        server.processed))
        PROVE  server' \in Servers /\ server'.up /\ Told
    <3> DEFINE stack == Restack(s, w, sibling, "Above")
               ev == ConfigureNotify(stack, w, server.processed)
    <3>1. stack \in Stacks(XWindows) /\ w \in ToSet(s) /\ Moved(s, stack, w)
      BY <1>0, <2>3, RestackIs
    <3>2. events' = Append(events, ev) /\ server' = [server EXCEPT !.stack = stack]
      BY <2>3
    <3> HIDE DEF stack
    <3>3. ev \in Events /\ ev.serial # 0 /\ meta_stack_op_apply(s, ev, "DEFAULT") = stack
      BY <1>0, <3>1, NotifyEvent
    <3>4. server' \in Servers /\ server'.up /\ server'.stack = stack
      BY <1>3, <3>1, <3>2, ServerFacts
    <3> HIDE DEF ev
    <3> QED BY <3>2, <3>3, <3>4
  <2> HIDE DEF Told
  <2> QED BY <1>1, <2>1, <2>2, <2>3
<1> QED BY <1>3, <1>5, ServerStep

-----------------------------------------------------------------------------
(* stack_tracker_event_received *)
LEMMA OlderThanIs ==
    ASSUME NEW ops \in Seq(Ops), NEW m \in Nat
    PROVE  /\ OlderThan(ops, m) \in 0..Len(ops)
           /\ \A i \in 1..OlderThan(ops, m) : ~(ops[i].serial >= m)
           /\ OlderThan(ops, m) # Len(ops) => ops[OlderThan(ops, m) + 1].serial >= m
<1> DEFINE I == {i \in 1..Len(ops) : ops[i].serial >= m}
           n == IF I # {} THEN Min(I) ELSE 0
<1>1. OlderThan(ops, m) = IF n = 0 THEN Len(ops) ELSE n - 1
  BY DEF OlderThan, SelectInSeq
<1>2. Len(ops) \in Nat /\ I \in SUBSET Nat
  BY OpFacts
<1>3. CASE I = {}
  <2>1. OlderThan(ops, m) = Len(ops)
    BY <1>1, <1>3
  <2> QED BY <1>2, <1>3, <2>1
<1>4. CASE I # {}
  <2>1. n \in I /\ \A j \in I : n <= j
    <3> HIDE DEF I
    <3>1. Min(I) \in I /\ \A j \in I : Min(I) <= j
      BY <1>2, <1>4, NatLeast DEF Min
    <3> QED BY <1>4, <3>1
  <2>2. n \in 1..Len(ops) /\ ops[n].serial >= m
    BY <2>1
  <2>3. \A i \in 1..Len(ops) : ops[i].serial >= m => n <= i
    BY <2>1
  <2> HIDE DEF n, I
  <2>4. OlderThan(ops, m) = n - 1
    BY <1>1, <2>2
  <2>5. (n - 1) + 1 = n /\ n - 1 \in 0..Len(ops) /\ n \in Int
    BY <1>2, <2>2
  <2>6. \A i \in 1..n - 1 : i \in 1..Len(ops) /\ ~(n <= i)
    BY <1>2, <2>2
  <2> QED BY <2>2, <2>3, <2>4, <2>5, <2>6
<1> QED BY <1>3, <1>4

LEMMA OlderThanGrows ==
    ASSUME NEW ops \in Seq(Ops), NEW m \in Nat
    PROVE  OlderThan(ops, m) <= OlderThan(ops, m + 1)
<1> DEFINE a == OlderThan(ops, m)
           b == OlderThan(ops, m + 1)
<1>1. Len(ops) \in Nat /\ \A k \in 1..Len(ops) : ops[k].serial \in Nat
  BY OpFacts
<1>2. a \in 0..Len(ops) /\ \A i \in 1..a : ~(ops[i].serial >= m)
  BY OlderThanIs
<1>3. b \in 0..Len(ops) /\ (b # Len(ops) => ops[b + 1].serial >= m + 1)
  <2>1. m + 1 \in Nat
    OBVIOUS
  <2> QED BY <2>1, OlderThanIs
<1> HIDE DEF a, b
<1> SUFFICES ASSUME ~(a <= b) PROVE FALSE
  BY DEF a, b
<1>4. b + 1 \in 1..a /\ b # Len(ops) /\ b + 1 \in 1..Len(ops)
  BY <1>1, <1>2, <1>3
<1>5. ops[b + 1].serial >= m + 1 /\ ~(ops[b + 1].serial >= m) /\ ops[b + 1].serial \in Nat
  BY <1>1, <1>2, <1>3, <1>4
<1> QED BY <1>5

LEMMA PartTyped ==
    ASSUME NEW E, NEW q \in Seq(E), NEW i \in Nat, NEW j \in Nat, i <= j, j <= Len(q)
    PROVE  SubSeq(q, i + 1, j) \in Seq(E)
<1>1. Len(q) \in Nat
  BY LenProperties
<1>2. i + 1 \in 1..Len(q) + 1 /\ j \in (i + 1) - 1..Len(q)
  BY <1>1
<1> QED BY <1>2, SubSeqProperties

(* What an event makes of the tracker *)
Heard(r, ev) ==
    /\ r \in Trackers /\ r.serial = t.serial
    /\ r.predictions \in Seq(OpsBelow(wire.next))
    /\ r = t \/ r.predicted = NoStack
    /\ XPart(r.verified) = meta_stack_op_apply(XPart(t.verified), ev, "DEFAULT")

LEMMA EventIgnored ==
    ASSUME NEW s \in Stacks(XWindows), NEW ev, ev.type = "ADD", ev.window \in ToSet(s)
    PROVE  meta_stack_op_apply(s, ev, "DEFAULT") = s
<1>1. ev.window \in XWindows /\ ev.type \in OpTypes /\ ~Moves(s, ev) /\ ev.type # "REMOVE"
  BY InStack DEF OpTypes, Moves
<1>2. Outcome(s, meta_stack_op_apply(s, ev, "DEFAULT"), ev, "DEFAULT")
  BY <1>1, ApplyCases
<1> QED BY <1>1, <1>2 DEF Outcome

LEMMA EventHeard ==
    ASSUME StackInv, events # << >>
    PROVE  Heard(stack_tracker_event_received(t, Head(events)), Head(events))
<1> DEFINE ev == Head(events)
           ops == t.predictions
           a == OlderThan(ops, ev.serial)
           b == OlderThan(ops, ev.serial + 1)
           older == ApplyAll(t.verified, SubSeq(ops, 1, a), "NO_RESTACK_X_WINDOWS")
           event == meta_stack_op_apply(older, ev, "IGNORE_NOOP_X_RESTACK")
           same == ApplyAll(event, SubSeq(ops, a + 1, b), "NO_RESTACK_X_WINDOWS")
           r == stack_tracker_event_received(t, ev)
<1>1. r = IF ev.serial < t.serial \/ (b = 0 /\ event = older) THEN t
          ELSE [t EXCEPT !.verified = same, !.predicted = NoStack, !.sync = TRUE,
                         !.predictions = SubSeq(ops, b + 1, Len(ops))]
  BY Zenon DEF stack_tracker_event_received
<1>2. /\ t \in Trackers /\ t.verified \in Stacks(Windows) /\ ops \in Seq(Ops)
      /\ t.serial \in {0, 1} /\ ops \in Seq(OpsBelow(wire.next)) /\ events \in Seq(Events)
      /\ wire.next \in Nat
  BY DEF StackInv, Trackers, Wires
<1>3. /\ ev \in Events /\ ev \in Ops /\ IsEvent(ev) /\ ev.serial \in Nat
      /\ ev = events[1] /\ 1 \in 1..Len(events) /\ ev.serial + 1 \in Nat
  <2>1. ev \in Events /\ ev = events[1] /\ Len(events) \in Nat /\ Len(events) # 0
    BY <1>2, HeadTailProperties, LenProperties
  <2> HIDE DEF ev
  <2>2. ev \in Ops /\ IsEvent(ev) /\ ev.serial \in Nat
    BY <2>1, EventIsOp
  <2> QED BY <2>1, <2>2
<1>4. /\ a \in Nat /\ b \in Nat /\ a <= b /\ b <= Len(ops) /\ Len(ops) \in Nat
  <2> HIDE DEF ev
  <2>1. a \in 0..Len(ops) /\ b \in 0..Len(ops) /\ Len(ops) \in Nat /\ a <= b
    BY <1>2, <1>3, OlderThanIs, OlderThanGrows, OpFacts
  <2> QED BY <2>1
<1>5. XPart(t.verified) \in Stacks(XWindows)
  BY <1>2, XPartIs
<1> HIDE DEF ev, a, b, ops
<1>6. /\ SubSeq(ops, 1, a) \in Seq(Ops) /\ SubSeq(ops, a + 1, b) \in Seq(Ops)
      /\ SubSeq(ops, b + 1, Len(ops)) \in Seq(Ops)
      /\ SubSeq(ops, b + 1, Len(ops)) \in Seq(OpsBelow(wire.next))
  <2>1. SubSeq(ops, 0 + 1, a) \in Seq(Ops) /\ 0 + 1 = 1
    BY <1>2, <1>4, PartTyped
  <2> QED BY <1>2, <1>4, <2>1, PartTyped
<1>7. older \in Stacks(Windows) /\ XPart(older) = XPart(t.verified)
  BY <1>2, <1>6, ApplyAllStack, ApplyAllKeepsX
<1> HIDE DEF older
<1>8. event \in Stacks(Windows) /\ XPart(event) = meta_stack_op_apply(XPart(t.verified), ev, "DEFAULT")
  <2>1. ev.type \in OpTypes /\ ev.window \in Windows
    BY <1>3 DEF Ops
  <2>2. event \in Stacks(Windows)
    BY <1>7, <2>1, ApplyStack
  <2>3. XPart(event) = meta_stack_op_apply(XPart(older), ev, "DEFAULT")
    BY <1>3, <1>7, ApplyEvent
  <2> QED BY <1>7, <2>2, <2>3
<1> HIDE DEF event
<1>9. same \in Stacks(Windows) /\ XPart(same) = XPart(event)
  BY <1>6, <1>8, ApplyAllStack, ApplyAllKeepsX
<1> HIDE DEF same, r
<1>10. CASE ev.serial < t.serial
  <2>1. ev.type = "ADD" /\ ev.window \in ToSet(XPart(t.verified))
    BY <1>3, <1>10 DEF StackInv, OldOnlyFirst
  <2>2. meta_stack_op_apply(XPart(t.verified), ev, "DEFAULT") = XPart(t.verified)
    BY <1>5, <2>1, EventIgnored
  <2> QED BY <1>1, <1>2, <1>10, <2>2 DEF Heard, r, ev, ops
<1>11. CASE b = 0 /\ event = older
  BY <1>1, <1>2, <1>7, <1>8, <1>11 DEF Heard, r, ev, ops
<1>12. CASE ~(ev.serial < t.serial \/ (b = 0 /\ event = older))
  <2>1. r = [t EXCEPT !.verified = same, !.predicted = NoStack, !.sync = TRUE,
                      !.predictions = SubSeq(ops, b + 1, Len(ops))]
    BY <1>1, <1>12
  <2>2. /\ r \in Trackers /\ r.serial = t.serial /\ r.predicted = NoStack /\ r.verified = same
        /\ r.predictions = SubSeq(ops, b + 1, Len(ops))
    BY <1>2, <1>6, <1>9, <2>1 DEF Trackers
  <2>3. XPart(r.verified) = meta_stack_op_apply(XPart(t.verified), ev, "DEFAULT")
    BY <1>8, <1>9, <2>2
  <2> QED BY <1>6, <2>2, <2>3 DEF Heard, r, ev
<1> QED BY <1>10, <1>11, <1>12

LEMMA StepEventReceived ==
    ASSUME StackInv, EventReceived
    PROVE  StackInv'
<1> DEFINE ev == Head(events)
           s == XPart(t.verified)
<1>1. /\ events # << >> /\ events' = Tail(events)
      /\ t' = stack_tracker_event_received(t, ev) /\ UNCHANGED <<wire, server, left>>
  BY DEF EventReceived
<1>2. Heard(t', ev)
  BY <1>1, EventHeard
<1>3. /\ events \in Seq(Events) /\ events \in Seq(Ops) /\ t.verified \in Stacks(Windows)
      /\ t.serial \in {0, 1}
  BY EventIsOp DEF StackInv, Trackers
<1>4. s \in Stacks(Windows) /\ s \in Stacks(XWindows)
  BY <1>3, XPartIs, XStacks
<1>5. /\ events' \in Seq(Events) /\ Len(events') \in Nat /\ Len(events) = Len(events') + 1
      /\ \A i \in 1..Len(events') : events'[i] = events[i + 1]
  BY <1>1, <1>3, HeadTailProperties, LenProperties
<1>6. t' \in Trackers' /\ wire' \in Wires' /\ server' \in Servers' /\ left' \in Lefts'
      /\ events' \in Seq(Events)'
  BY <1>1, <1>2, <1>5 DEF Heard, StackInv, Trackers, Wires, Servers, Lefts, Events, Ops,
       Requests, Siblings, Windows, NoStack, OpTypes, Stacks
<1>7. t'.predictions \in Seq(OpsBelow(wire.next)')
  <2>1. OpsBelow(wire.next)' = OpsBelow(wire.next)
    BY <1>1 DEF OpsBelow, Ops, OpTypes, Windows, Siblings, Askable
  <2> QED BY <1>2, <2>1 DEF Heard
<1>8. (left.restarts = MaxRestarts => Derived(t))'
  <2>1. CASE t' = t
    BY <1>1, <2>1 DEF StackInv, Derived
  <2>2. CASE t'.predicted = NoStack
    BY <2>2 DEF Derived, NoStack
  <2> QED BY <1>2, <2>1, <2>2 DEF Heard
<1>9. server.up /\ DownIsEmpty'
  BY <1>1 DEF StackInv, DownIsEmpty
<1>10. OldOnlyFirst'
  <2> SUFFICES ASSUME NEW i \in 1..Len(events'), events'[i].serial < t'.serial
               PROVE  FALSE
    BY DEF OldOnlyFirst
  <2>1. i + 1 \in 1..Len(events) /\ i + 1 # 1
    BY <1>5
  <2>2. events[i + 1].serial < t.serial
    BY <1>2, <1>5 DEF Heard
  <2>3. \A j \in 1..Len(events) : events[j].serial < t.serial => j = 1
    BY DEF StackInv, OldOnlyFirst
  <2> QED BY <2>1, <2>2, <2>3
<1>11. VerifiedFollowsServer'
  <2>1. ApplyAll(s, events, "DEFAULT") = server.stack
    BY DEF StackInv, VerifiedFollowsServer
  <2>2. ApplyAll(s, events, "DEFAULT")
          = ApplyAll(meta_stack_op_apply(s, ev, "DEFAULT"), Tail(events), "DEFAULT")
    BY <1>1, <1>3, <1>4, ApplyAllHead
  <2>3. XPart(t.verified)' = meta_stack_op_apply(s, ev, "DEFAULT")
    BY <1>2 DEF Heard
  <2>4. (ApplyAll(XPart(t.verified), events, "DEFAULT") = server.stack)'
    BY <1>1, <2>1, <2>2, <2>3
  <2> QED BY <2>4 DEF VerifiedFollowsServer
<1> QED BY <1>6, <1>7, <1>8, <1>9, <1>10, <1>11 DEF StackInv

-----------------------------------------------------------------------------
(* drop_x11_windows *)
LEMMA StepDrop ==
    ASSUME StackInv, drop_x11_windows
    PROVE  StackInv'
<1> DEFINE kept == {op \in ToSet(t.predictions) : op.window \notin XWindows}
           ops == Only(t.predictions, kept)
           s == Only(t.verified, Wayland)
<1>1. /\ t' = [t EXCEPT !.verified = s, !.predictions = ops, !.serial = 0]
      /\ server' = [server EXCEPT !.stack = <<>>, !.managed = {}, !.up = FALSE]
      /\ wire' = [wire EXCEPT !.requests = <<>>]
      /\ events' = <<>>
      /\ left' = [left EXCEPT !.restarts = left.restarts - 1]
      /\ left.restarts > 0
  BY DEF drop_x11_windows
<1>2. /\ t \in Trackers /\ t.verified \in Stacks(Windows) /\ wire \in Wires
      /\ t.predictions \in Seq(OpsBelow(wire.next)) /\ wire.next \in Nat
      /\ server \in Servers /\ left \in Lefts /\ left.restarts \in 0..MaxRestarts
      /\ MaxRestarts \in Nat
  BY StackAssumption DEF StackInv, Trackers, Wires, Lefts
<1>3. s \in Stacks(Windows) /\ ToSet(s) \cap XWindows = {}
  <2>1. s \in Stacks(Windows \cap Wayland) /\ ToSet(s) = ToSet(t.verified) \cap Wayland
    BY <1>2, OnlyIs
  <2>2. \A q \in Seq(Windows \cap Wayland) : q \in Seq(Windows)
    OBVIOUS
  <2>3. s \in Stacks(Windows)
    BY <2>1, <2>2 DEF Stacks
  <2> QED BY <2>1, <2>3, NoneIsNoWindow
<1> HIDE DEF s
<1>4. XPart(s) = << >>
  <2>1. XPart(s) \in Stacks(XWindows) /\ ToSet(XPart(s)) = {}
    BY <1>3, XPartIs
  <2> QED BY <2>1, EmptyStack
<1>5. ops \in Seq(OpsBelow(wire.next) \cap kept)
  BY <1>2, OnlyList
<1>6. \A op \in OpsBelow(wire.next) \cap kept :
         op \in Ops /\ op.serial = 0 /\ op.window \in Wayland
  <2>1. \A op \in Ops : op.window \in Windows
    BY DEF Ops
  <2>2. \A op \in OpsBelow(wire.next) \cap kept :
           op \in Ops /\ op.window \notin XWindows /\ (op.serial # 0 => op.window \in XWindows)
    BY DEF OpsBelow
  <2> QED BY <2>1, <2>2, NoneIsNoWindow
<1> HIDE DEF ops, kept
<1>7. /\ wire' \in Wires /\ wire'.next = wire.next /\ wire'.requests = << >>
      /\ wire.next \in Nat \ {0}
  <2>1. << >> \in Seq(Requests)
    OBVIOUS
  <2> QED BY <1>1, <1>2, <2>1 DEF Wires
<1>8. /\ server' \in Servers /\ server'.up = FALSE /\ server'.stack = << >>
      /\ server'.managed = {}
  BY <1>1, <1>2, EmptyFacts DEF Servers
<1>9. left' \in Lefts /\ left'.restarts # MaxRestarts
  <2>1. left.restarts - 1 \in 0..MaxRestarts /\ left.restarts - 1 # MaxRestarts
    BY <1>1, <1>2
  <2> QED BY <1>1, <1>2, <2>1 DEF Lefts
<1>10. \A op \in OpsBelow(wire.next) \cap kept : op \in OpsBelow(wire.next)'
  BY <1>6, <1>7, <1>8 DEF OpsBelow, Ops, OpTypes, Windows, Siblings, Askable
<1>11. ops \in Seq(OpsBelow(wire.next)') /\ ops \in Seq(Ops)
  BY <1>5, <1>6, <1>10
<1>12. /\ t' \in Trackers /\ t'.verified = s /\ t'.predictions = ops /\ t'.serial = 0
  BY <1>1, <1>2, <1>3, <1>11 DEF Trackers
<1>13. t' \in Trackers' /\ wire' \in Wires' /\ server' \in Servers' /\ left' \in Lefts'
      /\ events' \in Seq(Events)'
  BY <1>1, <1>7, <1>8, <1>9, <1>12 DEF Trackers, Wires, Servers, Lefts, Events, Ops,
       Requests, Siblings, Windows, NoStack, OpTypes, Stacks
<1>14. DownIsEmpty' /\ OldOnlyFirst'
  BY <1>1, <1>7, <1>8, <1>9 DEF DownIsEmpty, OldOnlyFirst
<1>15. VerifiedFollowsServer'
  <2>1. ApplyAll(XPart(s), << >>, "DEFAULT") = << >>
    BY <1>4, EmptyFacts, ApplyAllEmpty
  <2>2. (ApplyAll(XPart(t.verified), events, "DEFAULT") = server.stack)'
    BY <1>1, <1>8, <1>12, <2>1
  <2> QED BY <2>2 DEF VerifiedFollowsServer
<1>16. t'.predictions \in Seq(OpsBelow(wire.next)')
  BY <1>11, <1>12
<1> QED BY <1>9, <1>13, <1>14, <1>15, <1>16 DEF StackInv

-----------------------------------------------------------------------------
(* query_xserver_stack: the new server's windows come on top of what is    *)
(* left, which has no X windows.                                           *)
LEMMA OnTopOfWayland ==
    ASSUME NEW s \in Stacks(Windows), NEW q \in Stacks(XWindows), ToSet(s) \cap XWindows = {}
    PROVE  s \o q \in Stacks(Windows) /\ XPart(s \o q) = q
<1> DEFINE r == s \o q
           m == Len(s)
           n == Len(q)
<1>1. /\ s \in Seq(Windows) /\ m \in Nat
      /\ \A i \in 1..m : s[i] \in Windows /\ s[i] \notin XWindows
      /\ \A i, j \in 1..m : s[i] = s[j] => i = j
  BY InStack
<1>2. /\ q \in Seq(XWindows) /\ q \in Seq(Windows) /\ n \in Nat
      /\ \A x : x \in ToSet(q) <=> \E i \in 1..n : x = q[i]
      /\ \A i \in 1..n : q[i] \in XWindows /\ q[i] \in Windows
      /\ \A i, j \in 1..n : q[i] = q[j] => i = j
  BY InStack, NoneIsNoWindow
<1>3. /\ r \in Seq(Windows) /\ Len(r) = m + n
      /\ \A i \in 1..m + n : r[i] = IF i <= m THEN s[i] ELSE q[i - m]
  BY <1>1, <1>2, ConcatProperties
<1> HIDE DEF r, m, n
<1>4. \A i \in 1..m : i \in 1..m + n /\ r[i] = s[i]
  BY <1>1, <1>2, <1>3
<1>5. \A i \in 1..n : m + i \in 1..m + n /\ r[m + i] = q[i]
  <2> SUFFICES ASSUME NEW i \in 1..n PROVE m + i \in 1..m + n /\ r[m + i] = q[i]
    OBVIOUS
  <2>1. m + i \in 1..m + n /\ ~(m + i <= m) /\ (m + i) - m = i
    BY <1>1, <1>2
  <2> QED BY <1>3, <2>1
<1>6. ASSUME NEW i \in 1..m + n PROVE i \in 1..m \/ \E k \in 1..n : i = m + k
  <2>1. CASE i <= m
    BY <1>1, <2>1
  <2>2. CASE ~(i <= m)
    <3>1. i - m \in 1..n /\ i = m + (i - m)
      BY <1>1, <1>2, <2>2
    <3> QED BY <3>1
  <2> QED BY <2>1, <2>2
<1>7. r \in Stacks(Windows)
  <2> SUFFICES ASSUME NEW i \in 1..Len(r), NEW j \in 1..Len(r), r[i] = r[j] PROVE i = j
    BY <1>3, IsStack
  <2>1. i \in 1..m + n /\ j \in 1..m + n
    BY <1>3
  <2>2. CASE i \in 1..m /\ j \in 1..m
    BY <1>1, <1>4, <2>2
  <2>3. ASSUME NEW k \in 1..n, i = m + k PROVE i = j
    <3>1. r[i] \in XWindows
      BY <1>2, <1>5, <2>3
    <3>2. ~(j \in 1..m)
      BY <1>1, <1>4, <3>1
    <3>3. PICK l \in 1..n : j = m + l
      BY <1>6, <2>1, <3>2
    <3>4. q[k] = q[l]
      BY <1>5, <2>3, <3>3
    <3> QED BY <1>2, <2>3, <3>3, <3>4
  <2>4. ASSUME NEW k \in 1..n, j = m + k PROVE i = j
    <3>1. r[j] \in XWindows
      BY <1>2, <1>5, <2>4
    <3>2. ~(i \in 1..m)
      BY <1>1, <1>4, <3>1
    <3>3. PICK l \in 1..n : i = m + l
      BY <1>6, <2>1, <3>2
    <3> QED BY <2>3, <3>3
  <2> QED BY <1>6, <2>1, <2>2, <2>3, <2>4
<1>8. /\ XPart(r) \in Stacks(XWindows) /\ ToSet(XPart(r)) = ToSet(r) \cap XWindows
      /\ \A x, y : Before(XPart(r), x, y) <=> Before(r, x, y) /\ x \in XWindows /\ y \in XWindows
  BY <1>7, XPartIs
<1>9. ToSet(r) \cap XWindows = ToSet(q)
  <2>1. \A x : x \in ToSet(r) <=> \E i \in 1..m + n : x = r[i]
    BY <1>3, <1>7, InStack
  <2>2. ASSUME NEW x \in ToSet(r) \cap XWindows PROVE x \in ToSet(q)
    <3>1. PICK i \in 1..m + n : x = r[i]
      BY <2>1
    <3>2. ~(i \in 1..m)
      BY <1>1, <1>4, <3>1
    <3>3. PICK k \in 1..n : i = m + k
      BY <1>6, <3>2
    <3> QED BY <1>2, <1>5, <3>1, <3>3
  <2>3. ASSUME NEW x \in ToSet(q) PROVE x \in ToSet(r) \cap XWindows
    <3>1. PICK k \in 1..n : x = q[k]
      BY <1>2
    <3> QED BY <1>2, <1>5, <2>1, <3>1
  <2> QED BY <2>2, <2>3
<1>10. \A x, y : Before(q, x, y) => Before(XPart(r), x, y)
  <2> SUFFICES ASSUME NEW x, NEW y, Before(q, x, y) PROVE Before(XPart(r), x, y)
    OBVIOUS
  <2>1. PICK i \in 1..n, j \in 1..n : i < j /\ q[i] = x /\ q[j] = y
    BY DEF Before, n
  <2>2. /\ m + i \in 1..Len(r) /\ m + j \in 1..Len(r) /\ m + i < m + j
        /\ r[m + i] = x /\ r[m + j] = y
    BY <1>1, <1>2, <1>3, <1>5, <2>1
  <2>3. Before(r, x, y)
    BY <2>2 DEF Before
  <2> QED BY <1>2, <1>8, <2>1, <2>3
<1>11. ToSet(q) = ToSet(XPart(r))
  BY <1>8, <1>9
<1>12. XPart(r) = q
  BY <1>8, <1>10, <1>11, SameStack
<1> QED BY <1>7, <1>12 DEF r

(* What the new server has is a stack, and the windows that it reports     *)
(* late are among them.                                                    *)
LEMMA NewServer ==
    ASSUME NEW early \in {<<>>} \cup {<<w>> : w \in XOverride}
    PROVE  /\ <<Guard>> \o early \in Stacks(XWindows)
           /\ \/ early = << >>
              \/ \E w \in XOverride : early = <<w>> /\ w \in ToSet(<<Guard>> \o early)
<1>1. Guard \in XWindows /\ <<Guard>> \in Seq(XWindows) /\ Guard \notin XOverride
  BY StackAssumption DEF XWindows
<1>2. CASE early = << >>
  <2>1. <<Guard>> \o early = <<Guard>>
    BY <1>1, <1>2, ConcatEmptySeq
  <2>2. \A i, j \in 1..Len(<<Guard>>) : i = j
    OBVIOUS
  <2>3. <<Guard>> \in Stacks(XWindows)
    BY <1>1, <2>2, IsStack
  <2> QED BY <1>2, <2>1, <2>3
<1>3. ASSUME NEW w \in XOverride, early = <<w>>
      PROVE  <<Guard>> \o early \in Stacks(XWindows) /\ w \in ToSet(<<Guard>> \o early)
  <2>1. w \in XWindows /\ w # Guard
    BY <1>1 DEF XWindows
  <2> DEFINE r == <<Guard>> \o early
  <2>2. /\ early \in Seq(XWindows) /\ Len(early) = 1 /\ early[1] = w
        /\ Len(<<Guard>>) = 1 /\ <<Guard>>[1] = Guard
    BY <1>1, <1>3, <2>1
  <2>3. r \in Seq(XWindows) /\ Len(r) = 2 /\ r[1] = Guard /\ r[2] = w
    <3>1. /\ r \in Seq(XWindows) /\ Len(r) = Len(<<Guard>>) + Len(early)
          /\ \A i \in 1..Len(<<Guard>>) + Len(early) :
               r[i] = IF i <= Len(<<Guard>>) THEN <<Guard>>[i] ELSE early[i - Len(<<Guard>>)]
      BY <1>1, <2>2, ConcatProperties
    <3> HIDE DEF r
    <3> QED BY <2>2, <3>1
  <2> HIDE DEF r
  <2>4. \A i, j \in 1..Len(r) : r[i] = r[j] => i = j
    BY <2>1, <2>3
  <2>5. r \in Stacks(XWindows)
    BY <2>3, <2>4, IsStack
  <2>6. w \in ToSet(r)
    <3>1. 2 \in 1..Len(r) /\ r[2] = w
      BY <2>3
    <3> QED BY <2>5, <3>1, InStack
  <2> QED BY <2>5, <2>6 DEF r
<1> QED BY <1>2, <1>3

LEMMA StepQuery ==
    ASSUME StackInv, query_xserver_stack
    PROVE  StackInv'
<1>1. PICK early \in {<<>>} \cup {<<w>> : w \in XOverride} :
          /\ server' = [server EXCEPT !.stack = <<Guard>> \o early, !.processed = 1, !.up = TRUE]
          /\ t' = [t EXCEPT !.verified = t.verified \o (<<Guard>> \o early), !.serial = 1]
          /\ events' = [i \in DOMAIN early |-> [type |-> "ADD", serial |-> 0,
                                                window |-> early[i], sibling |-> None]]
  BY DEF query_xserver_stack
<1>2. ~server.up /\ wire' = [next |-> 2, requests |-> <<>>] /\ left' = left
  BY DEF query_xserver_stack
<1> DEFINE q == <<Guard>> \o early
           s == t.verified \o q
<1>3. /\ q \in Stacks(XWindows)
      /\ \/ early = << >>
         \/ \E w \in XOverride : early = <<w>> /\ w \in ToSet(q)
  BY NewServer
<1> HIDE DEF q
<1>4. /\ t \in Trackers /\ t.verified \in Stacks(Windows) /\ t.predictions \in Seq(Ops)
      /\ t.predictions \in Seq(OpsBelow(wire.next)) /\ server \in Servers
      /\ left \in Lefts /\ left.restarts # MaxRestarts
  BY <1>2 DEF StackInv, Trackers, DownIsEmpty
<1>5. s \in Stacks(Windows) /\ XPart(s) = q
  BY <1>2, <1>3, <1>4, DownNoX, OnTopOfWayland
<1>6. t' = [t EXCEPT !.verified = s, !.serial = 1]
  BY <1>1 DEF q
<1> HIDE DEF s
<1>7. /\ t' \in Trackers /\ t'.verified = s /\ t'.predictions = t.predictions /\ t'.serial = 1
  BY <1>4, <1>5, <1>6 DEF Trackers
<1>8. server' \in Servers /\ server'.up = TRUE /\ server'.stack = q
  <2>1. server' = [server EXCEPT !.stack = q, !.processed = 1, !.up = TRUE]
    BY <1>1 DEF q
  <2>2. server' = [stack |-> q, processed |-> 1, managed |-> server.managed, up |-> TRUE]
        /\ server.managed \in SUBSET XManaged
    BY <1>4, <2>1 DEF Servers
  <2>3. 1 \in Nat \ {0} /\ TRUE \in BOOLEAN
    OBVIOUS
  <2> QED BY <1>3, <2>2, <2>3 DEF Servers
<1>9. wire' \in Wires /\ wire'.next = 2
  BY <1>2 DEF Wires
<1>10. OpsBelow(wire.next) \subseteq OpsBelow(wire.next)'
  <2>1. \A op \in OpsBelow(wire.next) : op \in Ops /\ op.serial = 0 /\ op.window \in Wayland
    BY <1>2, AskableWindow DEF OpsBelow, Askable
  <2> QED BY <1>8, <1>9, <2>1, NoneIsNoWindow DEF OpsBelow, Ops, OpTypes, Windows, Siblings, Askable
<1>11. t'.predictions \in Seq(OpsBelow(wire.next)')
  BY <1>4, <1>7, <1>10
<1>12. events' \in Seq(Events) /\ OldOnlyFirst' /\ ApplyAll(q, events', "DEFAULT") = q
  <2>0. q \in Stacks(Windows)
    BY <1>3, XStacks
  <2>1. CASE early = << >>
    <3>1. DOMAIN early = {}
      BY <2>1
    <3>2. events' = << >>
      BY <1>1, <3>1
    <3> QED BY <2>0, <3>2, EmptyFacts, ApplyAllEmpty DEF OldOnlyFirst
  <2>2. ASSUME NEW w \in XOverride, early = <<w>>, w \in ToSet(q)
        PROVE  events' \in Seq(Events) /\ OldOnlyFirst' /\ ApplyAll(q, events', "DEFAULT") = q
    <3> DEFINE ev == [type |-> "ADD", serial |-> 0, window |-> w, sibling |-> None]
    <3>1. events' = <<ev>>
      <4>1. DOMAIN early = 1..1 /\ early[1] = w
        BY <2>2
      <4> QED BY <1>1, <4>1
    <3>2. ev \in Events /\ ev.type = "ADD" /\ ev.window = w /\ ev.serial = 0
      BY DEF Events, XWindows
    <3> HIDE DEF ev
    <3>3. <<ev>> \in Seq(Events) /\ Len(<<ev>>) = 1 /\ <<ev>>[1] = ev /\ <<ev>> # << >>
          /\ Head(<<ev>>) = ev /\ Tail(<<ev>>) = << >>
      BY <3>2
    <3>4. \A i \in 1..Len(<<ev>>) : i = 1
      BY <3>3
    <3>5. ev.window \in ToSet(XPart(t'.verified))
      BY <1>5, <1>7, <2>2, <3>2
    <3>6. OldOnlyFirst'
      BY <3>1, <3>2, <3>3, <3>4, <3>5 DEF OldOnlyFirst
    <3>7. meta_stack_op_apply(q, ev, "DEFAULT") = q
      BY <1>3, <2>2, <3>2, EventIgnored
    <3>8. ApplyAll(q, <<ev>>, "DEFAULT")
            = ApplyAll(meta_stack_op_apply(q, Head(<<ev>>), "DEFAULT"), Tail(<<ev>>), "DEFAULT")
      BY <2>0, <3>3, EventIsOp, ApplyAllHead
    <3>9. ApplyAll(q, <<ev>>, "DEFAULT") = q
      BY <2>0, <3>3, <3>7, <3>8, ApplyAllEmpty
    <3> QED BY <3>1, <3>3, <3>6, <3>9
  <2> QED BY <1>3, <2>1, <2>2
<1>13. VerifiedFollowsServer'
  <2>1. (ApplyAll(XPart(t.verified), events, "DEFAULT") = server.stack)'
    BY <1>5, <1>7, <1>8, <1>12
  <2> QED BY <2>1 DEF VerifiedFollowsServer
<1>14. t' \in Trackers' /\ wire' \in Wires' /\ server' \in Servers' /\ left' \in Lefts'
      /\ events' \in Seq(Events)' /\ left'.restarts # MaxRestarts
  BY <1>2, <1>4, <1>7, <1>8, <1>9, <1>12 DEF Trackers, Wires, Servers, Lefts, Events,
       Ops, Requests, Siblings, Windows, NoStack, OpTypes, Stacks
<1>15. DownIsEmpty'
  BY <1>8 DEF DownIsEmpty
<1> QED BY <1>11, <1>12, <1>13, <1>14, <1>15 DEF StackInv

-----------------------------------------------------------------------------
LEMMA StackInvStep == StackInv /\ [Next]_vars => StackInv'
<1> SUFFICES ASSUME StackInv, [Next]_vars PROVE StackInv'
  OBVIOUS
<1>1. CASE UNCHANGED vars
  <2>1. UNCHANGED <<server, events>> /\ left' \in Lefts /\ left'.restarts = left.restarts
        /\ t' = Both.t /\ wire' = Both.wire
    BY <1>1, BothSound DEF vars, StackInv
  <2> QED BY <2>1, BothSound, SoundStep
<1>2. CASE meta_stack_tracker_record_add
  BY <1>2, StepWaylandOp DEF meta_stack_tracker_record_add
<1>3. CASE meta_stack_tracker_record_remove
  BY <1>3, StepWaylandOp DEF meta_stack_tracker_record_remove
<1> QED BY <1>1, <1>2, <1>3, StepStackChanged, StepSyncStack, StepServerProcesses,
           StepClientActs, StepEventReceived, StepDrop, StepQuery DEF Next

LEMMA StackInvAgrees == StackInv => StacksAgree
<1> SUFFICES ASSUME StackInv PROVE StacksAgree
  OBVIOUS
<1>1. /\ t.verified \in Stacks(Windows) /\ t.predicted \in Stacks(Windows) \cup {NoStack}
      /\ t.predictions \in Seq(OpsBelow(wire.next))
  BY DEF StackInv, Trackers
<1>2. ToSet(t.verified) \subseteq XWindows \cup Wayland /\ IsInjective(t.verified)
  BY <1>1, InStack DEF Windows, Stacks
<1>3. t.predicted = NoStack \/ IsInjective(t.predicted)
  BY <1>1 DEF Stacks
<1>4. \A op \in ToSet(t.predictions) : op.serial < wire.next
  <2>1. ToSet(t.predictions) \subseteq OpsBelow(wire.next)
    BY <1>1, InList
  <2> QED BY <2>1 DEF OpsBelow
<1>5. TypeOK
  BY <1>2, <1>3, <1>4 DEF TypeOK
<1>6. PredictedIsDerived
  BY DEF StackInv, Derived, PredictedIsDerived
<1> QED BY <1>5, <1>6 DEF StacksAgree, StackInv

(* For any windows, other clients and restarts of the X server: no stack   *)
(* of the tracker holds a window twice, no prediction is of a request that *)
(* was not made, predicted_stack is verified_stack with the predictions    *)
(* applied (until the X server goes), and the X windows of verified_stack  *)
(* with the events under way applied are the stack of the server, whatever *)
(* stack_tracker_event_received, restacking or Wayland windows did.        *)
THEOREM StacksAgreeCorrect == Spec => []StacksAgree
<1>1. Init => StackInv
  BY InitInv
<1>2. StackInv /\ [Next]_vars => StackInv'
  BY StackInvStep
<1>3. StackInv => StacksAgree
  BY StackInvAgrees
<1> QED BY <1>1, <1>2, <1>3, PTL DEF Spec
=============================================================================
