----------------------- MODULE WaylandTransactionProofs -----------------------
(***************************************************************************)
(* What WaylandTransaction promises for any surfaces, views and states and *)
(* any number of commits.                                                  *)
(***************************************************************************)
EXTENDS WaylandTransaction, FiniteSetTheorems, SequenceTheorems, TLAPS

(* The smallest number of a set of numbers. *)
LEMMA MinExists ==
    ASSUME NEW T, T \subseteq Nat, T # {}
    PROVE  Min(T) \in T /\ \A u \in T : Min(T) <= u
<1> DEFINE R == OpToRel(<, Nat)
<1>1. PICK t \in T : \A u \in T : ~ (<<u, t>> \in R)
  BY NatLessThanWellFounded, WFMin
<1>2. \A u \in T : ~ (u < t)
  BY <1>1 DEF OpToRel
<1>3. \A u \in T : t <= u
  BY <1>2
<1> QED BY <1>3 DEF Min

(* The greatest number of a bounded set of numbers. *)
LEMMA MaxExists ==
    ASSUME NEW T, NEW b \in Nat, T \subseteq 0..b, T # {}
    PROVE  Max(T) \in T /\ \A u \in T : u <= Max(T)
<1> DEFINE D == {d \in Nat : b - d \in T}
<1>1. \A t \in T : b - t \in D
  OBVIOUS
<1>2. D \subseteq Nat /\ D # {}
  BY <1>1
<1>3. Min(D) \in D /\ \A d \in D : Min(D) <= d
  BY <1>2, MinExists
<1> DEFINE t == b - Min(D)
<1>4. t \in T
  BY <1>3
<1>5. \A u \in T : u <= t
  <2> TAKE u \in T
  <2>1. Min(D) <= b - u /\ Min(D) \in Nat
    BY <1>1, <1>3
  <2> QED BY <2>1
<1>6. \E x \in T : \A u \in T : x >= u
  BY <1>4, <1>5
<1>7. Max(T) \in T /\ \A u \in T : Max(T) >= u
  BY <1>6 DEF Max
<1> QED BY <1>7

(* Inserting an element into a list. *)
LEMMA InsertAtProperties ==
    ASSUME NEW S, NEW q \in Seq(S), NEW i \in 1..Len(q) + 1, NEW e \in S
    PROVE  /\ InsertAt(q, i, e) \in Seq(S)
           /\ Len(InsertAt(q, i, e)) = Len(q) + 1
           /\ \A j \in 1..Len(q) + 1 :
                InsertAt(q, i, e)[j] = IF j < i THEN q[j] ELSE IF j = i THEN e ELSE q[j - 1]
<1> DEFINE a == SubSeq(q, 1, i - 1)
           c == SubSeq(q, i, Len(q))
<1>1. Len(q) \in Nat /\ \A j \in 1..Len(q) : q[j] \in S
  BY LenProperties
<1>2. /\ a \in Seq(S) /\ Len(a) = i - 1
      /\ \A j \in 1..i - 1 : a[j] = q[j]
  BY <1>1, SubSeqProperties
<1>3. /\ c \in Seq(S) /\ Len(c) = Len(q) - i + 1
      /\ \A j \in 1..Len(q) - i + 1 : c[j] = q[i + j - 1]
  BY <1>1, SubSeqProperties
<1>4. <<e>> \in Seq(S) /\ Len(<<e>>) = 1 /\ <<e>>[1] = e
  OBVIOUS
<1> HIDE DEF a, c
<1>5. /\ a \o <<e>> \in Seq(S) /\ Len(a \o <<e>>) = i
      /\ \A j \in 1..i : (a \o <<e>>)[j] = IF j < i THEN q[j] ELSE e
  BY <1>2, <1>4, ConcatProperties
<1> DEFINE f == a \o <<e>>
<1>f. f \in Seq(S) /\ Len(f) = i /\ \A j \in 1..i : f[j] = IF j < i THEN q[j] ELSE e
  BY <1>5
<1> HIDE DEF f
<1>6. /\ f \o c \in Seq(S)
      /\ Len(f \o c) = Len(f) + Len(c)
      /\ \A j \in 1..Len(f) + Len(c) : (f \o c)[j] = IF j <= Len(f) THEN f[j] ELSE c[j - Len(f)]
  BY <1>3, <1>f, ConcatProperties, Zenon
<1>7. Len(f) = i /\ Len(f) + Len(c) = Len(q) + 1
  BY <1>3, <1>f
<1>8. ASSUME NEW j \in 1..(Len(q) + 1)
      PROVE  (f \o c)[j] = IF j < i THEN q[j] ELSE IF j = i THEN e ELSE q[j - 1]
  <2>1. j <= i => (f \o c)[j] = IF j < i THEN q[j] ELSE e
    BY <1>1, <1>f, <1>6, <1>7
  <2>2. ASSUME j > i PROVE (f \o c)[j] = q[j - 1]
    <3>1. j - i \in 1..Len(q) - i + 1 /\ i + (j - i) - 1 = j - 1
      BY <2>2
    <3>2. c[j - i] = q[j - 1]
      BY <1>3, <3>1
    <3>3. (f \o c)[j] = c[j - i]
      BY <1>6, <1>7, <2>2
    <3> QED BY <1>1, <2>2, <3>2, <3>3
  <2>3. j <= i \/ j > i
    OBVIOUS
  <2>4. j <= i => (j < i \/ j = i)
    OBVIOUS
  <2>5. j > i => ~(j < i) /\ ~(j = i)
    OBVIOUS
  <2> QED BY <2>1, <2>2, <2>3, <2>4, <2>5, Zenon
<1> QED BY <1>6, <1>7, <1>8 DEF InsertAt, a, c, f

(* Removing the element of a list that holds each of its elements once. *)
LEMMA RemoveFirstProperties ==
    ASSUME NEW S, NEW q \in Seq(S), IsInjective(q), NEW e \in Range(q)
    PROVE  /\ RemoveFirst(q, e) \in Seq(S)
           /\ Range(RemoveFirst(q, e)) = Range(q) \ {e}
           /\ IsInjective(RemoveFirst(q, e))
<1>0. DOMAIN q = 1..Len(q) /\ Len(q) \in Nat /\ \A j \in 1..Len(q) : q[j] \in S
  BY LenProperties
<1>1. PICK i \in 1..Len(q) : q[i] = e
  BY <1>0 DEF Range
<1>2. \A j \in 1..Len(q) : q[j] = e => j = i
  BY <1>0, <1>1 DEF IsInjective
<1>3. RemoveFirst(q, e) = RemoveAt(q, i)
  <2>1. {j \in 1..Len(q) : q[j] = e} = {i}
    BY <1>1, <1>2
  <2>2. Min({i}) = i
    <3>1. {i} \subseteq Nat /\ {i} # {}
      OBVIOUS
    <3> QED BY <3>1, MinExists
  <2> QED BY <1>1, <2>1, <2>2 DEF RemoveFirst, SelectInSeq
<1> DEFINE a == SubSeq(q, 1, i - 1)
           c == SubSeq(q, i + 1, Len(q))
           r == RemoveAt(q, i)
<1>4. /\ a \in Seq(S) /\ Len(a) = i - 1
      /\ \A j \in 1..i - 1 : a[j] = q[j]
  BY <1>0, SubSeqProperties
<1>5. /\ c \in Seq(S) /\ Len(c) = Len(q) - i
      /\ \A j \in 1..Len(q) - i : c[j] = q[i + j]
  <2>1. \A j \in i + 1..Len(q) : q[j] \in S
    BY <1>0
  <2>2. /\ c \in Seq(S)
        /\ Len(c) = IF i + 1 <= Len(q) THEN Len(q) - (i + 1) + 1 ELSE 0
        /\ \A j \in 1..Len(q) - (i + 1) + 1 : c[j] = q[i + 1 + j - 1]
    BY <1>0, <2>1, SubSeqProperties
  <2>3. \A j \in 1..Len(q) - i : i + 1 + j - 1 = i + j /\ j \in 1..Len(q) - (i + 1) + 1
    BY <1>0
  <2> HIDE DEF c
  <2>4. Len(c) = Len(q) - i
    <3>1. i + 1 <= Len(q) => Len(c) = Len(q) - i
      BY <1>0, <1>1, <2>2
    <3>2. ~(i + 1 <= Len(q)) => Len(q) - i = 0
      OBVIOUS
    <3>3. ~(i + 1 <= Len(q)) => Len(c) = 0
      BY <2>2
    <3> QED BY <3>1, <3>2, <3>3
  <2> QED BY <2>2, <2>3, <2>4
<1>6. r = a \o c
  BY DEF RemoveAt
<1> HIDE DEF a, c, r
<1>7. /\ r \in Seq(S) /\ Len(r) = Len(q) - 1
      /\ \A j \in 1..Len(q) - 1 : r[j] = IF j < i THEN q[j] ELSE q[j + 1]
  <2>0. /\ r \in Seq(S) /\ Len(r) = Len(a) + Len(c)
        /\ \A j \in 1..Len(a) + Len(c) : r[j] = IF j <= Len(a) THEN a[j] ELSE c[j - Len(a)]
    BY <1>4, <1>5, <1>6, ConcatProperties, Zenon
  <2>1. /\ r \in Seq(S) /\ Len(r) = Len(q) - 1
        /\ \A j \in 1..Len(q) - 1 : r[j] = IF j <= i - 1 THEN a[j] ELSE c[j - (i - 1)]
    BY <1>0, <1>4, <1>5, <2>0
  <2>2. ASSUME NEW j \in 1..Len(q) - 1 PROVE r[j] = IF j < i THEN q[j] ELSE q[j + 1]
    BY <1>4, <1>5, <2>1
  <2> QED BY <2>1, <2>2
<1>8. DOMAIN r = 1..Len(q) - 1
  BY <1>7, LenProperties
<1>9. IsInjective(r)
  BY <1>0, <1>7, <1>8, SMTT(40) DEF IsInjective
<1>10. Range(r) = Range(q) \ {e}
  <2>1. ASSUME NEW x \in Range(r) PROVE x \in Range(q) \ {e}
    <3>1. PICK j \in 1..Len(q) - 1 : x = r[j]
      BY <1>8 DEF Range
    <3>2. PICK k \in 1..Len(q) : k # i /\ r[j] = q[k]
      BY <1>0, <1>7
    <3> QED BY <1>0, <1>2, <3>1, <3>2 DEF Range
  <2>2. ASSUME NEW x \in Range(q), x # e PROVE x \in Range(r)
    <3>1. PICK j \in 1..Len(q) : x = q[j]
      BY <1>0 DEF Range
    <3>2. j # i
      BY <1>1, <2>2, <3>1
    <3>3. CASE j < i
      BY <1>7, <1>8, <3>1, <3>3 DEF Range
    <3>4. CASE j > i
      <4>1. j - 1 \in 1..Len(q) - 1 /\ r[j - 1] = x
        BY <1>7, <3>1, <3>4
      <4> QED BY <1>8, <4>1 DEF Range
    <3> QED BY <3>2, <3>3, <3>4
  <2> QED BY <2>1, <2>2
<1> QED BY <1>3, <1>7, <1>9, <1>10 DEF r

(* An enumeration of a finite set has all of it, each element once. *)
LEMMA SetToSeqsProperties ==
    ASSUME NEW S, IsFiniteSet(S), NEW q \in SetToSeqs(S)
    PROVE  q \in Seq(S) /\ Range(q) = S /\ IsInjective(q)
<1> DEFINE D == 1..Cardinality(S)
<1>1. Cardinality(S) \in Nat
  BY FS_CardinalityType
<1>2. q \in [D -> S] /\ IsInjective(q)
  BY DEF SetToSeqs, IsInjective
<1>3. q \in Seq(S)
  BY <1>1, <1>2, SeqDef
<1>4. Cardinality(D) = Cardinality(S)
  BY <1>1, FS_Interval
<1>5. q \in Injection(D, S)
  BY <1>2 DEF Injection
<1>6. q \in Surjection(D, S)
  BY <1>4, <1>5, FS_Injection
<1>7. Range(q) = S
  BY <1>2, <1>6 DEF Surjection, Range
<1> QED BY <1>2, <1>3, <1>7

(* The first elements of an interval are as many as the last one says. *)
LEMMA PrefixCardinality ==
    ASSUME NEW len \in Nat, NEW E, E \subseteq 1..len,
           \A i \in E : \A j \in 1..i : j \in E
    PROVE  Cardinality(E) \in 0..len /\ E = 1..Cardinality(E)
<1>1. CASE E = {}
  <2>1. Cardinality(E) = 0
    BY <1>1, FS_EmptySet
  <2> QED BY <1>1, <2>1
<1>2. CASE E # {}
  <2> DEFINE m == Max(E)
  <2>1. E \subseteq 0..len
    OBVIOUS
  <2>2. m \in E /\ \A u \in E : u <= m
    BY <1>2, <2>1, MaxExists
  <2> HIDE DEF m
  <2>3. m \in 1..len
    BY <2>2
  <2>4. E = 1..m
    <3>1. ASSUME NEW u \in E PROVE u \in 1..m
      BY <2>2, <2>3
    <3>2. ASSUME NEW u \in 1..m PROVE u \in E
      BY <2>2
    <3> QED BY <3>1, <3>2
  <2>5. Cardinality(1..m) = m
    <3>1. 1 \in Int /\ m \in Int /\ 1 <= m /\ m - 1 + 1 = m
      BY <2>3
    <3> QED BY <3>1, FS_Interval
  <2> QED BY <2>3, <2>4, <2>5
<1> QED BY <1>1, <1>2

(* A list without a repetition, ordered by a key. *)
Ordered(q, key) ==
    \A j \in DOMAIN q : \A i \in 1..j - 1 : q[i] # q[j] /\ key[q[i]] <= key[q[j]]

(* Inserting an element behind all those with a smaller key, as            *)
(* g_queue_insert_sorted does, keeps the list ordered.                     *)
LEMMA OrderedInsert ==
    ASSUME NEW S, NEW q \in Seq(S), NEW e \in S, e \notin Range(q),
           NEW key \in [S -> Nat], Ordered(q, key),
           NEW k, k = Cardinality({i \in DOMAIN q : key[q[i]] < key[e]}) + 1
    PROVE  /\ InsertAt(q, k, e) \in Seq(S)
           /\ Range(InsertAt(q, k, e)) = Range(q) \cup {e}
           /\ Ordered(InsertAt(q, k, e), key)
<1> DEFINE E == {i \in DOMAIN q : key[q[i]] < key[e]}
           r == InsertAt(q, k, e)
<1>1. Len(q) \in Nat /\ DOMAIN q = 1..Len(q) /\ \A j \in 1..Len(q) : q[j] \in S /\ q[j] # e
  BY LenProperties DEF Range
<1>2. ASSUME NEW j \in E, NEW i \in 1..j PROVE i \in E
  <2>1. i \in 1..Len(q) /\ j \in 1..Len(q) /\ (i = j \/ i \in 1..j - 1)
    BY <1>1
  <2>2. key[q[i]] \in Nat /\ key[q[j]] \in Nat /\ key[e] \in Nat /\ key[q[j]] < key[e]
    BY <1>1, <2>1
  <2>3. key[q[i]] <= key[q[j]]
    BY <1>1, <2>1, <2>2 DEF Ordered
  <2> QED BY <1>1, <2>1, <2>2, <2>3
<1>3. E \subseteq 1..Len(q)
  BY <1>1
<1> HIDE DEF E
<1>4. Cardinality(E) \in 0..Len(q) /\ E = 1..Cardinality(E)
  BY <1>1, <1>2, <1>3, PrefixCardinality
<1>5. k = Cardinality(E) + 1
  BY DEF E
<1>6. k \in 1..Len(q) + 1 /\ E = 1..k - 1
  BY <1>1, <1>4, <1>5
<1>7. /\ r \in Seq(S)
      /\ Len(r) = Len(q) + 1
      /\ \A j \in 1..Len(q) + 1 :
           r[j] = IF j < k THEN q[j] ELSE IF j = k THEN e ELSE q[j - 1]
  <2>1. k \in 1..Len(q) + 1
    BY <1>6
  <2>2. r = InsertAt(q, k, e)
    OBVIOUS
  <2> HIDE DEF r
  <2>3. \A i \in 1..Len(q) + 1 :
          /\ InsertAt(q, i, e) \in Seq(S)
          /\ Len(InsertAt(q, i, e)) = Len(q) + 1
          /\ \A j \in 1..Len(q) + 1 :
               InsertAt(q, i, e)[j] = IF j < i THEN q[j] ELSE IF j = i THEN e ELSE q[j - 1]
    BY InsertAtProperties
  <2> QED BY <2>1, <2>2, <2>3, Zenon
<1> HIDE DEF r
<1>r. \A j \in 1..Len(q) + 1 : /\ j < k => r[j] = q[j]
                               /\ j = k => r[j] = e
                               /\ j > k => r[j] = q[j - 1]
  <2> SUFFICES ASSUME NEW j \in 1..Len(q) + 1
               PROVE  (j < k => r[j] = q[j]) /\ (j = k => r[j] = e) /\ (j > k => r[j] = q[j - 1])
    OBVIOUS
  <2>1. r[j] = IF j < k THEN q[j] ELSE IF j = k THEN e ELSE q[j - 1]
    BY <1>7
  <2>2. j > k => ~(j < k) /\ j # k
    BY <1>6
  <2>3. j = k => ~(j < k)
    BY <1>6
  <2> QED BY <2>1, <2>2, <2>3, Zenon
<1>8. DOMAIN r = 1..Len(q) + 1
  BY <1>7, LenProperties
<1>9. Range(r) = Range(q) \cup {e}
  <2>1. ASSUME NEW x \in Range(r) PROVE x \in Range(q) \cup {e}
    <3>1. PICK j \in 1..Len(q) + 1 : x = r[j]
      BY <1>8 DEF Range
    <3>2. (j < k /\ j \in 1..Len(q)) \/ j = k \/ (j > k /\ j - 1 \in 1..Len(q))
      BY <1>1, <1>6
    <3>3. x = e \/ \E i \in 1..Len(q) : x = q[i]
      BY <1>r, <3>1, <3>2, Zenon
    <3> QED BY <1>1, <3>3 DEF Range
  <2>2. e \in Range(r)
    BY <1>6, <1>r, <1>8, Zenon DEF Range
  <2>3. ASSUME NEW x \in Range(q) PROVE x \in Range(r)
    <3>1. PICK j \in 1..Len(q) : x = q[j]
      BY <1>1 DEF Range
    <3>2. j < k \/ (j >= k /\ j + 1 - 1 = j)
      BY <1>6
    <3>3. \E i \in 1..Len(q) + 1 : r[i] = x
      <4>1. CASE j < k
        <5>1. j \in 1..Len(q) + 1
          BY <1>1
        <5> QED BY <1>r, <3>1, <4>1, <5>1, Zenon
      <4>2. CASE j >= k
        <5>1. j + 1 \in 1..Len(q) + 1 /\ j + 1 > k /\ (j + 1) - 1 = j
          BY <1>1, <1>6, <4>2
        <5>2. r[j + 1] = q[(j + 1) - 1]
          BY <1>r, <5>1, Zenon
        <5> QED BY <3>1, <5>1, <5>2
      <4> QED BY <3>2, <4>1, <4>2
    <3> QED BY <1>8, <3>3 DEF Range
  <2> QED BY <2>1, <2>2, <2>3
<1>10. Ordered(r, key)
  <2>0. \A j \in 1..Len(q) : key[q[j]] \in Nat /\ (j < k <=> key[q[j]] < key[e]) /\ key[e] \in Nat
    <3> SUFFICES ASSUME NEW j \in 1..Len(q)
                 PROVE  key[q[j]] \in Nat /\ (j < k <=> key[q[j]] < key[e]) /\ key[e] \in Nat
      OBVIOUS
    <3>1. key[q[j]] \in Nat /\ key[e] \in Nat
      BY <1>1
    <3>2. j \in E <=> key[q[j]] < key[e]
      BY <1>1 DEF E
    <3>3. j \in 1..k - 1 <=> j < k
      BY <1>6
    <3>4. j \in E <=> j \in 1..k - 1
      BY <1>6
    <3> QED BY <3>1, <3>2, <3>3, <3>4, Zenon
  <2>1. \A j \in 1..Len(q) : IF j < k THEN key[q[j]] <= key[e] ELSE key[e] <= key[q[j]]
    BY <2>0
  <2>2. \A j \in 1..Len(q) : \A i \in 1..j - 1 : q[i] # q[j] /\ key[q[i]] <= key[q[j]]
    BY <1>1 DEF Ordered
  <2>3. ASSUME NEW j \in 1..Len(q) + 1, NEW i \in 1..j - 1
        PROVE  r[i] # r[j] /\ key[r[i]] <= key[r[j]]
    <3>0. i \in 1..Len(q) + 1
      BY <1>1
    <3>1. CASE j < k
      <4>0. i < k /\ j \in 1..Len(q)
        BY <1>1, <1>6, <3>1
      <4>1. r[i] = q[i] /\ r[j] = q[j] /\ j \in 1..Len(q)
        BY <1>r, <3>0, <3>1, <4>0, Zenon
      <4> QED BY <2>2, <4>1
    <3>2. CASE j = k
      <4>0. i \in 1..Len(q) /\ i < k
        BY <1>1, <1>6, <3>2
      <4>1. r[i] = q[i] /\ r[j] = e /\ i \in 1..Len(q) /\ i < k
        BY <1>r, <3>0, <3>2, <4>0, Zenon
      <4> QED BY <1>1, <2>1, <4>1
    <3>3. CASE j > k
      <4>0. j - 1 \in 1..Len(q) /\ ~(j - 1 < k)
        BY <1>1, <1>6, <3>3
      <4>1. r[j] = q[j - 1] /\ j - 1 \in 1..Len(q) /\ ~(j - 1 < k)
        BY <1>r, <3>3, <4>0, Zenon
      <4>2. CASE i < k
        <5>0. i \in 1..(j - 1) - 1
          BY <1>6, <3>3, <4>2
        <5>1. r[i] = q[i] /\ i \in 1..(j - 1) - 1
          BY <1>r, <3>0, <4>2, <5>0, Zenon
        <5> QED BY <2>2, <4>1, <5>1
      <4>3. CASE i = k
        <5>1. r[i] = e
          BY <1>r, <3>0, <4>3, Zenon
        <5> QED BY <1>1, <2>1, <4>1, <5>1
      <4>4. CASE i > k
        <5>0. i - 1 \in 1..(j - 1) - 1
          BY <1>6, <3>3, <4>4
        <5>1. r[i] = q[i - 1] /\ i - 1 \in 1..(j - 1) - 1
          BY <1>r, <3>0, <4>4, <5>0, Zenon
        <5> QED BY <2>2, <4>1, <5>1
      <4> QED BY <1>6, <4>2, <4>3, <4>4
    <3> QED BY <1>6, <3>1, <3>2, <3>3
  <2> QED BY <1>8, <2>3 DEF Ordered
<1> QED BY <1>7, <1>9, <1>10 DEF r
-----------------------------------------------------------------------------
(***************************************************************************)
(* The lists.                                                              *)
(***************************************************************************)

(* A transaction committed last goes to the end of a queue. *)
LEMMA FollowsAdded ==
    ASSUME NEW q, q \subseteq Nat, NEW n \in Nat, \A k \in q : k < n,
           NEW m \in Nat, NEW j \in Nat, j < n, Follows(q, m, j)
    PROVE  Follows(q \cup {n}, IF m = 0 THEN n ELSE m, j)
BY DEF Follows

(* The queue after its first transaction has been taken away. *)
LEMMA FollowsRemoved ==
    ASSUME NEW q, q \subseteq Nat \ {0}, NEW n \in q, Follows(q, n, 0),
           NEW m \in Nat, NEW j \in q, Follows(q, m, j)
    PROVE  /\ j = n => Follows(q \ {n}, m, 0)
           /\ j # n => Follows(q \ {n}, m, j)
BY DEF Follows

(* Every transaction is a record of its three fields. *)
Records ==
    \A n \in DOMAIN transactions :
      transactions[n] = [entries |-> transactions[n].entries,
                         buf_sources |-> transactions[n].buf_sources,
                         target |-> transactions[n].target]

(* The invariant of the lists. *)
QueueInv == TypeOK /\ Records /\ ChainsAgree /\ TimedExact

(* Nothing has been committed yet. *)
LEMMA QueueInit == Init => QueueInv
<1> SUFFICES ASSUME Init PROVE QueueInv
  OBVIOUS
<1>1. DOMAIN transactions = {} /\ DOMAIN timed = {} /\ timed = << >>
  BY DEF Init
<1>2. Records /\ TimedExact
  BY <1>1 DEF Records, TimedExact, Range
<1>3. ChainsAgree
  BY <1>1 DEF Init, ChainsAgree, Queue, Follows
<1>4. TypeOK
  BY <1>1, TransactionAssumption DEF Init, TypeOK
<1> QED BY <1>2, <1>3, <1>4 DEF QueueInv
-----------------------------------------------------------------------------
(***************************************************************************)
(* Committing a transaction.                                               *)
(***************************************************************************)

(* The latest target time of the states that are committed is one of them. *)
LEMMA TargetsProperties ==
    ASSUME NEW S, NEW states \in [S -> Kinds]
    PROVE  Max(Targets(states)) \in 0..MaxTime
<1>1. \A s \in S : states[s] # NoState => states[s].target \in 0..MaxTime
  BY TransactionAssumption DEF State
<1>2. Targets(states) \subseteq 0..MaxTime
  BY <1>1, TransactionAssumption DEF Targets
<1>3. Targets(states) # {}
  BY DEF Targets
<1>4. Max(Targets(states)) \in Targets(states)
  BY <1>2, <1>3, MaxExists, TransactionAssumption
<1> QED BY <1>2, <1>4

(* What rescheduling leaves: a time that the frame clock of v knew is      *)
(* known, or it is past and there is an update or another time to come.    *)
Rescheduled(v, times) ==
    /\ future' \in [Views -> SUBSET (1..MaxTime)]
    /\ scheduled' \subseteq Views
    /\ scheduled \subseteq scheduled'
    /\ \A w \in Views \ {v} : future'[w] = future[w]
    /\ \A t \in times :
         \/ t \in future'[v]
         \/ t <= now /\ (scheduled' # {} \/ future'[v] # {})

(* Rescheduling leaves that. *)
LEMMA RescheduleProperties ==
    ASSUME TypeOK, NEW v \in Views, NEW times \in SUBSET (1..MaxTime), reschedule(v, times)
    PROVE  Rescheduled(v, times)
<1>1. /\ future \in [Views -> SUBSET (1..MaxTime)]
      /\ scheduled \subseteq Views
      /\ now \in Nat
  BY DEF TypeOK
<1>2. PICK outcome \in maybe_reschedule_update(times) :
        /\ future' = [future EXCEPT ![v] = outcome.times]
        /\ scheduled' = IF outcome.update THEN scheduled \cup {v} ELSE scheduled
  BY DEF reschedule
<1>3. /\ outcome.times \subseteq times
      /\ \A t \in times : t \in outcome.times \/ t <= now
      /\ outcome.times = {} /\ times # {} => outcome.update
  <2>1. CASE \E u \in BOOLEAN : outcome = [times |-> times, update |-> u]
    <3>1. outcome.times = times
      BY <2>1
    <3> QED BY <3>1
  <2>2. CASE \E current \in 0..now :
               outcome = [times |-> TimesLeft(times, current),
                          update |-> TimesLeft(times, current) = {} /\ times # {}]
    <3>1. PICK current \in 0..now :
            outcome = [times |-> TimesLeft(times, current),
                       update |-> TimesLeft(times, current) = {} /\ times # {}]
      BY <2>2
    <3>2. \A t \in times : t \in TimesLeft(times, current) \/ t <= now
      BY <1>1 DEF TimesLeft
    <3>3. TimesLeft(times, current) \subseteq times
      BY DEF TimesLeft
    <3>4. outcome.times = TimesLeft(times, current)
      BY <3>1
    <3>5. outcome.update <=> TimesLeft(times, current) = {} /\ times # {}
      BY <3>1, Zenon
    <3> QED BY <3>2, <3>3, <3>4, <3>5, Zenon
  <2> QED BY <1>2, <2>1, <2>2 DEF maybe_reschedule_update
<1>4. /\ future' \in [Views -> SUBSET (1..MaxTime)]
      /\ future'[v] = outcome.times
      /\ \A w \in Views \ {v} : future'[w] = future[w]
  BY <1>1, <1>2, <1>3
<1>5. /\ scheduled' \subseteq Views
      /\ scheduled \subseteq scheduled'
      /\ outcome.update => scheduled' # {}
  BY <1>1, <1>2
<1>6. ASSUME NEW t \in times
      PROVE  \/ t \in future'[v]
             \/ t <= now /\ (scheduled' # {} \/ future'[v] # {})
  BY <1>3, <1>4, <1>5
<1> QED BY <1>4, <1>5, <1>6 DEF Rescheduled

(* The transaction n that is committed with states: the list of every      *)
(* surface of it that has one is continued with n.                         *)
Committed(states, unready, n, t, s) ==
    /\ n = committed_sequence + 1
    /\ committed_sequence' = n
    /\ DOMAIN transactions' = DOMAIN transactions \cup {n}
    /\ transactions'[n] = [entries |-> [r \in DOMAIN states |-> [state |-> states[r], next |-> 0]],
                           buf_sources |-> unready, target |-> t]
    /\ \A m \in DOMAIN transactions :
         /\ DOMAIN Entries(m)' = DOMAIN Entries(m)
         /\ transactions'[m].buf_sources = transactions[m].buf_sources
         /\ transactions'[m].target = transactions[m].target
         /\ transactions'[m] = [entries |-> transactions'[m].entries,
                                buf_sources |-> transactions'[m].buf_sources,
                                target |-> transactions'[m].target]
         /\ \A r \in DOMAIN Entries(m) :
              /\ Entries(m)'[r] \in Entry
              /\ Entries(m)'[r].state = Entries(m)[r].state
              /\ Entries(m)'[r].next =
                   IF r \in DOMAIN states /\ first_committed[r] # 0 /\ last_committed[r] = m
                   THEN n ELSE Entries(m)[r].next
    /\ IF t = 0
       THEN UNCHANGED <<timed, scheduled, future>>
       ELSE /\ add_timed_transaction(n, t)
            /\ reschedule(PrimaryView[s], future[PrimaryView[s]] \cup {t})
    /\ candidates' = IF /\ t = 0
                        /\ unready = {}
                        /\ \A r \in DOMAIN states : first_committed[r] = 0
                     THEN {n} ELSE {}
    /\ first_committed' = [r \in Surfaces |-> IF r \in DOMAIN states /\ first_committed[r] = 0
                                              THEN n ELSE first_committed[r]]
    /\ last_committed' = [r \in Surfaces |-> IF r \in DOMAIN states THEN n ELSE last_committed[r]]
    /\ UNCHANGED <<applied, barrierVars, loopVars, worldVars>>

(* Every step Commit has that shape. *)
LEMMA CommitShape ==
    ASSUME QueueInv, Commit
    PROVE  \E S \in SUBSET Surfaces : \E states \in [S -> Kinds] :
             \E unready \in SUBSET S : \E t \in 0..MaxTime : \E s \in Surfaces :
               /\ Committed(states, unready, committed_sequence + 1, t, s)
               /\ committed_sequence + 1 \in 1..MaxCommits
               /\ S # {}
<1> USE DEF QueueInv
<1> DEFINE n == committed_sequence + 1
<1>1. PICK S \in (SUBSET Surfaces) \ {{}} : \E states \in [S -> Kinds] :
             \E unready \in SUBSET {s \in S : states[s] # NoState /\ states[s].buffer} :
               meta_wayland_transaction_commit(states, unready)
  BY DEF Commit
<1>2. PICK states \in [S -> Kinds] :
             \E unready \in SUBSET {s \in S : states[s] # NoState /\ states[s].buffer} :
               meta_wayland_transaction_commit(states, unready)
  BY <1>1
<1>3. PICK unready \in SUBSET S : meta_wayland_transaction_commit(states, unready)
  BY <1>2
<1>4. n \in 1..MaxCommits /\ \A m \in DOMAIN transactions : m # n
  BY TransactionAssumption DEF TypeOK, Commit
<1> DEFINE max_time == Max(Targets(states))
<1>5. max_time \in 0..MaxTime
  BY TargetsProperties
<1> HIDE DEF max_time
<1> DEFINE busy == {s \in DOMAIN states : first_committed[s] # 0}
           mts == {s \in DOMAIN states : states[s] # NoState /\ states[s].target = max_time}
           after(clocked) ==
                      [m \in DOMAIN transactions \cup {n} |->
                         IF m = n
                         THEN [entries |-> [r \in DOMAIN states |-> [state |-> states[r], next |-> 0]],
                               buf_sources |-> unready,
                               target |-> IF clocked THEN max_time ELSE 0]
                         ELSE [transactions[m] EXCEPT !.entries =
                                 [r \in DOMAIN Entries(m) |->
                                    IF r \in busy /\ LinksFrom(m, r)
                                    THEN [Entries(m)[r] EXCEPT !.next = n]
                                    ELSE Entries(m)[r]]]]
<1>6. PICK s \in (IF max_time = 0 THEN Surfaces ELSE mts) :
        \E clocked \in {c \in BOOLEAN : IF max_time = 0 THEN ~c ELSE visible[s] => c} :
                 /\ transactions' = after(clocked)
                 /\ IF clocked
                    THEN /\ add_timed_transaction(n, max_time)
                         /\ reschedule(PrimaryView[s], future[PrimaryView[s]] \cup {max_time})
                    ELSE UNCHANGED <<timed, scheduled, future>>
                 /\ candidates' = IF clocked \/ unready # {} \/ busy # {} THEN {} ELSE {n}
  BY <1>3 DEF meta_wayland_transaction_commit, max_time, clockVars
<1>7. PICK clocked \in BOOLEAN :
                 /\ max_time = 0 => ~clocked
                 /\ transactions' = after(clocked)
                 /\ IF clocked
                    THEN /\ add_timed_transaction(n, max_time)
                         /\ reschedule(PrimaryView[s], future[PrimaryView[s]] \cup {max_time})
                    ELSE UNCHANGED <<timed, scheduled, future>>
                 /\ candidates' = IF clocked \/ unready # {} \/ busy # {} THEN {} ELSE {n}
  BY <1>6
<1> DEFINE t == IF clocked THEN max_time ELSE 0
<1>8. t \in 0..MaxTime /\ s \in Surfaces /\ (clocked <=> t # 0) /\ (clocked => t = max_time)
  <2>1. s \in Surfaces
    BY <1>6
  <2>2. 0 \in 0..MaxTime
    BY TransactionAssumption
  <2>3. clocked => max_time # 0
    BY <1>7
  <2> QED BY <1>5, <2>1, <2>2, <2>3, Zenon
<1>9. transactions'[n] = [entries |-> [r \in DOMAIN states |-> [state |-> states[r], next |-> 0]],
                           buf_sources |-> unready, target |-> t]
  BY <1>7
<1>10. DOMAIN transactions' = DOMAIN transactions \cup {n}
  BY <1>7
<1>11. ASSUME NEW m \in DOMAIN transactions
       PROVE  /\ DOMAIN Entries(m)' = DOMAIN Entries(m)
              /\ transactions'[m].buf_sources = transactions[m].buf_sources
              /\ transactions'[m].target = transactions[m].target
              /\ transactions'[m] = [entries |-> transactions'[m].entries,
                                     buf_sources |-> transactions'[m].buf_sources,
                                     target |-> transactions'[m].target]
              /\ \A r \in DOMAIN Entries(m) :
                   /\ Entries(m)'[r] \in Entry
                   /\ Entries(m)'[r].state = Entries(m)[r].state
                   /\ Entries(m)'[r].next =
                        IF r \in DOMAIN states /\ first_committed[r] # 0 /\ last_committed[r] = m
                        THEN n ELSE Entries(m)[r].next
  <2> DEFINE ents == [r \in DOMAIN Entries(m) |->
                                    IF r \in busy /\ LinksFrom(m, r)
                                    THEN [Entries(m)[r] EXCEPT !.next = n]
                                    ELSE Entries(m)[r]]
  <2>1. transactions'[m] = [transactions[m] EXCEPT !.entries = ents]
    BY <1>4, <1>7
  <2>2. transactions[m] = [entries |-> transactions[m].entries,
                         buf_sources |-> transactions[m].buf_sources,
                         target |-> transactions[m].target]
    BY DEF Records
  <2> HIDE DEF ents
  <2>3. transactions'[m] = [entries |-> ents, buf_sources |-> transactions[m].buf_sources,
                            target |-> transactions[m].target]
    BY <2>1, <2>2
  <2>4. Entries(m)' = ents
    BY <2>3 DEF Entries
  <2>5. DOMAIN ents = DOMAIN Entries(m)
    BY DEF ents
  <2>6. ASSUME NEW r \in DOMAIN Entries(m)
        PROVE  /\ ents[r] \in Entry
               /\ ents[r].state = Entries(m)[r].state
               /\ ents[r].next =
                        IF r \in DOMAIN states /\ first_committed[r] # 0 /\ last_committed[r] = m
                        THEN n ELSE Entries(m)[r].next
    <3>1. Entries(m)[r] \in Entry
      BY DEF TypeOK
    <3>2. n \in 0..MaxCommits
      BY <1>4
    <3> QED BY <3>1, <3>2 DEF ents, Entry, LinksFrom
  <2> QED BY <2>3, <2>4, <2>5, <2>6
<1>12. /\ committed_sequence' = n
       /\ first_committed' = [r \in Surfaces |-> IF r \in DOMAIN states /\ first_committed[r] = 0
                                              THEN n ELSE first_committed[r]]
       /\ last_committed' = [r \in Surfaces |-> IF r \in DOMAIN states THEN n ELSE last_committed[r]]
       /\ UNCHANGED <<applied, barrierVars, loopVars, worldVars>>
  BY <1>3 DEF meta_wayland_transaction_commit
<1>13. candidates' = IF /\ t = 0
                        /\ unready = {}
                        /\ \A r \in DOMAIN states : first_committed[r] = 0
                     THEN {n} ELSE {}
  BY <1>7, <1>8
<1>14. IF t = 0
       THEN UNCHANGED <<timed, scheduled, future>>
       ELSE /\ add_timed_transaction(n, t)
            /\ reschedule(PrimaryView[s], future[PrimaryView[s]] \cup {t})
  BY <1>7, <1>8
<1>15. Committed(states, unready, n, t, s)
  BY <1>9, <1>10, <1>11, <1>12, <1>13, <1>14 DEF Committed
<1>16. S \in SUBSET Surfaces /\ S # {}
  OBVIOUS
<1> HIDE DEF t, n
<1>17. Committed(states, unready, n, t, s) /\ n \in 1..MaxCommits /\ S # {}
  BY <1>4, <1>15, <1>16
<1>18. \E t_1 \in 0..MaxTime : \E s_1 \in Surfaces :
         Committed(states, unready, n, t_1, s_1) /\ n \in 1..MaxCommits /\ S # {}
  BY <1>8, <1>17
<1> QED BY <1>16, <1>18, Zenon DEF n

(* Committing keeps the lists exact. *)
LEMMA CommitQueue ==
    ASSUME QueueInv,
           NEW S \in SUBSET Surfaces, NEW states \in [S -> Kinds],
           NEW unready \in SUBSET S, NEW t \in 0..MaxTime, NEW s \in Surfaces,
           NEW n \in 1..MaxCommits, Committed(states, unready, n, t, s)
    PROVE  QueueInv'
<1> DEFINE D == DOMAIN transactions
<1>1. /\ D \subseteq Nat \ {0}
      /\ \A m \in D : m < n
      /\ n \notin D
      /\ MaxCommits \in Nat
  BY TransactionAssumption, SMTT(40) DEF QueueInv, TypeOK, Committed
<1>2. DOMAIN states = S
  OBVIOUS
<1>3. /\ DOMAIN transactions' = D \cup {n}
      /\ Entries(n)' = [r \in S |-> [state |-> states[r], next |-> 0]]
      /\ transactions'[n].buf_sources = unready
      /\ transactions'[n].target = t
  BY <1>2 DEF Committed, Entries
<1>4. \A r \in S : Entries(n)'[r] \in Entry /\ Entries(n)'[r].next = 0
  <2>1. \A r \in S : states[r] \in State \cup {NoState}
    BY TransactionAssumption
  <2> QED BY <1>1, <1>3, <2>1 DEF Entry
<1>5. \A m \in D :
         /\ DOMAIN Entries(m)' = DOMAIN Entries(m)
         /\ transactions'[m].buf_sources = transactions[m].buf_sources
         /\ transactions'[m].target = transactions[m].target
         /\ \A r \in DOMAIN Entries(m) :
              /\ Entries(m)'[r] \in Entry
              /\ Entries(m)'[r].next =
                   IF r \in S /\ first_committed[r] # 0 /\ last_committed[r] = m
                   THEN n ELSE Entries(m)[r].next
  BY <1>2 DEF Committed
<1>6. /\ first_committed' = [r \in Surfaces |-> IF r \in S /\ first_committed[r] = 0
                                              THEN n ELSE first_committed[r]]
      /\ last_committed' = [r \in Surfaces |-> IF r \in S THEN n ELSE last_committed[r]]
  BY <1>2 DEF Committed
<1>7. Records'
  BY <1>3 DEF Records, Committed
<1>8. ChainsAgree'
  <2> SUFFICES ASSUME NEW r \in Surfaces
               PROVE  /\ Follows(Queue(r)', first_committed'[r], 0)
                      /\ \A m \in Queue(r)' : Follows(Queue(r)', Entries(m)'[r].next, m)
                      /\ last_committed'[r] \in Queue(r)' \cup {0}
                      /\ Follows(Queue(r)', 0, last_committed'[r])
    BY DEF ChainsAgree
  <2> DEFINE q == Queue(r)
  <2>1. /\ Follows(q, first_committed[r], 0)
        /\ \A m \in q : Follows(q, Entries(m)[r].next, m)
        /\ last_committed[r] \in q \cup {0}
        /\ Follows(q, 0, last_committed[r])
    BY DEF QueueInv, ChainsAgree
  <2>2. q \subseteq D /\ \A m \in q : r \in DOMAIN Entries(m)
    BY DEF Queue, Touches
  <2>3. Queue(r)' = IF r \in S THEN q \cup {n} ELSE q
    BY <1>1, <1>3, <1>5 DEF Queue, Touches
  <2>4. first_committed[r] \in Nat /\ last_committed[r] \in Nat
    BY DEF QueueInv, TypeOK
  <2>5. \A m \in q : Entries(m)[r].next \in Nat
    BY <2>2 DEF QueueInv, TypeOK, Entry
  <2> HIDE DEF q
  <2>6. CASE r \notin S
    <3>1. first_committed'[r] = first_committed[r] /\ last_committed'[r] = last_committed[r]
      BY <1>6, <2>6
    <3>2. \A m \in q : Entries(m)'[r].next = Entries(m)[r].next
      BY <1>5, <2>2, <2>6
    <3> QED BY <2>1, <2>3, <2>6, <3>1, <3>2
  <2>7. CASE r \in S
    <3>0. q \subseteq Nat /\ \A k \in q : k < n /\ k # 0 /\ k \in Nat
      BY <1>1, <2>2
    <3>1. Follows(q \cup {n}, first_committed'[r], 0)
      <4>1. first_committed'[r] = IF first_committed[r] = 0 THEN n ELSE first_committed[r]
        BY <1>6, <2>7
      <4>2. 0 < n /\ 0 \in Nat /\ n \in Nat
        OBVIOUS
      <4> QED BY <2>1, <2>4, <3>0, <4>1, <4>2, FollowsAdded
    <3>2. Follows(q \cup {n}, 0, n)
      BY <3>0 DEF Follows
    <3>3. ASSUME NEW m \in q
          PROVE  Follows(q \cup {n}, Entries(m)'[r].next, m)
      <4>1. Entries(m)'[r].next =
                   IF first_committed[r] # 0 /\ last_committed[r] = m
                   THEN n ELSE Entries(m)[r].next
        BY <1>5, <2>2, <2>7
      <4>2. first_committed[r] # 0
        BY <2>1, <3>0 DEF Follows
      <4>3. last_committed[r] = m <=> Entries(m)[r].next = 0
        BY <2>1, <2>4, <2>5, <3>0 DEF Follows
      <4>4. Entries(m)'[r].next = IF Entries(m)[r].next = 0 THEN n ELSE Entries(m)[r].next
        BY <4>1, <4>2, <4>3
      <4>5. Follows(q, Entries(m)[r].next, m) /\ Entries(m)[r].next \in Nat /\ m \in Nat /\ m < n
        BY <2>1, <2>5, <3>0
      <4>6. n \in Nat
        OBVIOUS
      <4> DEFINE nx == Entries(m)[r].next
      <4> HIDE DEF nx
      <4>7. Follows(q \cup {n}, IF nx = 0 THEN n ELSE nx, m)
        BY <3>0, <4>5, <4>6, FollowsAdded DEF nx
      <4> QED BY <4>4, <4>7 DEF nx
    <3>4. Entries(n)'[r].next = 0
      BY <1>4, <2>7
    <3>5. last_committed'[r] = n
      BY <1>6, <2>7
    <3> QED BY <2>3, <2>7, <3>1, <3>2, <3>3, <3>4, <3>5
  <2> QED BY <2>6, <2>7
<1>9. timed' \in Seq(DOMAIN transactions') /\ TimedExact'
  <2> DEFINE D2 == D \cup {n}
             key == [m \in D2 |-> transactions'[m].target]
  <2>1. /\ key \in [D2 -> Nat] /\ key[n] = t
        /\ \A m \in D : key[m] = transactions[m].target
    <3>1. \A m \in D : transactions[m].target \in Nat
      BY DEF QueueInv, TypeOK
    <3> QED BY <1>1, <1>3, <1>5, <3>1
  <2>2. timed \in Seq(D2) /\ timed \in Seq(D)
    <3>1. timed \in Seq(D)
      BY DEF QueueInv, TypeOK
    <3> QED BY <3>1
  <2>3. Range(timed) = {m \in D : transactions[m].target # 0}
    BY DEF QueueInv, TimedExact
  <2>4. \A i \in DOMAIN timed : timed[i] \in D /\ key[timed[i]] = transactions[timed[i]].target
    BY <2>1, <2>2
  <2> HIDE DEF key
  <2>5. Ordered(timed, key)
    <3>1. \A j \in DOMAIN timed : \A i \in 1..j - 1 : i \in DOMAIN timed
      BY <2>2
    <3> QED BY <2>4, <3>1 DEF QueueInv, TimedExact, Ordered
  <2>6. /\ timed' \in Seq(D2)
        /\ Range(timed') = IF t = 0 THEN Range(timed) ELSE Range(timed) \cup {n}
        /\ Ordered(timed', key)
    <3>1. CASE t = 0
      BY <2>2, <2>5, <3>1 DEF Committed
    <3>2. CASE t # 0
      <4>1. add_timed_transaction(n, t)
        BY <3>2 DEF Committed
      <4>2. {i \in DOMAIN timed : transactions[timed[i]].target < t}
              = {i \in DOMAIN timed : key[timed[i]] < key[n]}
        BY <2>1, <2>4
      <4>3. timed' = InsertAt(timed, Cardinality({i \in DOMAIN timed : key[timed[i]] < key[n]}) + 1, n)
        BY <4>1, <4>2 DEF add_timed_transaction
      <4>4. n \notin Range(timed) /\ n \in D2
        BY <1>1, <2>3
      <4> DEFINE k == Cardinality({i \in DOMAIN timed : key[timed[i]] < key[n]}) + 1
      <4> HIDE DEF D2
      <4>5. /\ InsertAt(timed, k, n) \in Seq(D2)
            /\ Range(InsertAt(timed, k, n)) = Range(timed) \cup {n}
            /\ Ordered(InsertAt(timed, k, n), key)
        BY <2>1, <2>2, <2>5, <4>4, OrderedInsert
      <4> QED BY <3>2, <4>3, <4>5
    <3> QED BY <3>1, <3>2
  <2>7. Range(timed') = {m \in D2 : transactions'[m].target # 0}
    BY <1>1, <1>3, <1>5, <2>3, <2>6
  <2>8. \A j \in DOMAIN timed' : \A i \in 1..j - 1 :
           /\ timed'[i] # timed'[j]
           /\ transactions'[timed'[i]].target <= transactions'[timed'[j]].target
    <3>1. \A j \in DOMAIN timed' : timed'[j] \in D2 /\ \A i \in 1..j - 1 : i \in DOMAIN timed'
      BY <2>6
    <3>2. \A m \in D2 : key[m] = transactions'[m].target
      BY DEF key
    <3> QED BY <2>6, <3>1, <3>2 DEF Ordered
  <2> QED BY <1>3, <2>6, <2>7, <2>8 DEF TimedExact
<1>10. TypeOK'
  <2>1. committed_sequence' \in 0..MaxCommits /\ DOMAIN transactions' \subseteq 1..committed_sequence'
    BY <1>3 DEF Committed, QueueInv, TypeOK
  <2>2. \A m \in DOMAIN transactions' :
         /\ DOMAIN Entries(m)' \subseteq Surfaces
         /\ \A r \in DOMAIN Entries(m)' : Entries(m)'[r] \in Entry
         /\ transactions'[m].buf_sources \subseteq Surfaces
         /\ transactions'[m].target \in 0..MaxTime
    BY <1>3, <1>4, <1>5 DEF QueueInv, TypeOK
  <2>3. {first_committed', last_committed', applied'} \subseteq [Surfaces -> 0..MaxCommits]
    BY <1>6 DEF Committed, QueueInv, TypeOK
  <2>4. /\ {fifo_barrier', visible'} \subseteq [Surfaces -> BOOLEAN]
        /\ barrier_surfaces' \in Seq(Surfaces)
        /\ phase' \in {"idle", "timed", "barriers"}
        /\ view' \in Views
        /\ walk' \in Seq(Surfaces)
        /\ now' \in 0..MaxTime
    BY DEF Committed, QueueInv, TypeOK, barrierVars, loopVars, worldVars
  <2>5. candidates' \subseteq DOMAIN transactions'
    BY <1>3 DEF Committed
  <2>6. future' \in [Views -> SUBSET (1..MaxTime)] /\ scheduled' \subseteq Views
    <3>1. /\ future \in [Views -> SUBSET (1..MaxTime)] /\ PrimaryView[s] \in Views
          /\ scheduled \subseteq Views
      BY TransactionAssumption DEF QueueInv, TypeOK
    <3>2. CASE t = 0
      BY <3>1, <3>2 DEF Committed
    <3>3. CASE t # 0
      <4>1. future[PrimaryView[s]] \cup {t} \in SUBSET (1..MaxTime)
        BY <3>1, <3>3
      <4>2. reschedule(PrimaryView[s], future[PrimaryView[s]] \cup {t})
        BY <3>3 DEF Committed
      <4>3. Rescheduled(PrimaryView[s], future[PrimaryView[s]] \cup {t})
        BY <3>1, <4>1, <4>2, RescheduleProperties DEF QueueInv
      <4> QED BY <4>3 DEF Rescheduled
    <3> QED BY <3>2, <3>3
  <2> QED BY <1>9, <2>1, <2>2, <2>3, <2>4, <2>5, <2>6 DEF TypeOK
<1> QED BY <1>7, <1>8, <1>9, <1>10 DEF QueueInv
-----------------------------------------------------------------------------
(***************************************************************************)
(* Applying a transaction.                                                 *)
(***************************************************************************)

(* A transaction that is ready waits for no time and no buffer, and is the *)
(* first of each of its surfaces.                                          *)
LEMMA ReadyProperties ==
    ASSUME NEW n, Ready(n)
    PROVE  /\ transactions[n].target = 0
           /\ transactions[n].buf_sources = {}
           /\ \A s \in DOMAIN Entries(n) : first_committed[s] = n
BY DEF Ready, has_dependencies

(* Applying keeps the lists exact. *)
LEMMA ApplyQueue ==
    ASSUME QueueInv, barrier_surfaces' \in Seq(Surfaces),
           NEW n \in DOMAIN transactions, Ready(n), meta_wayland_transaction_apply(n)
    PROVE  QueueInv'
<1> DEFINE D == DOMAIN transactions
           touched == DOMAIN Entries(n)
           done == {s \in touched : last_committed[s] = n}
           onward == {s \in touched \ done : Entries(n)[s].next # 0}
<1>1. /\ D \subseteq Nat \ {0}
      /\ n \in Nat /\ n # 0
  BY TransactionAssumption DEF QueueInv, TypeOK
<1>2. /\ transactions[n].target = 0
      /\ \A s \in touched : first_committed[s] = n
  BY ReadyProperties
<1>3. transactions' = [m \in D \ {n} |-> transactions[m]]
  BY DEF meta_wayland_transaction_apply
<1>4. DOMAIN transactions' = D \ {n} /\ \A m \in D \ {n} : transactions'[m] = transactions[m]
  BY <1>3
<1>5. \A m \in D \ {n} : Entries(m)' = Entries(m)
  BY <1>4 DEF Entries
<1>6. /\ first_committed' = [s \in Surfaces |-> IF s \in done THEN 0
                                                 ELSE IF s \in onward THEN Entries(n)[s].next
                                                 ELSE first_committed[s]]
      /\ last_committed' = [s \in Surfaces |-> IF s \in done THEN 0 ELSE last_committed[s]]
  BY DEF meta_wayland_transaction_apply
<1>7. \A s \in touched : /\ s \in Surfaces
                         /\ Entries(n)[s].next \in 0..MaxCommits
                         /\ n \in Queue(s)
  BY DEF QueueInv, TypeOK, Entry, Queue, Touches
<1>8. ASSUME NEW s \in touched
      PROVE  /\ last_committed[s] = n <=> Entries(n)[s].next = 0
             /\ Entries(n)[s].next # 0 => /\ Entries(n)[s].next \in Queue(s)
                                          /\ n < Entries(n)[s].next
  <2>1. /\ Follows(Queue(s), Entries(n)[s].next, n)
        /\ last_committed[s] \in Queue(s) \cup {0}
        /\ Follows(Queue(s), 0, last_committed[s])
    BY <1>7 DEF QueueInv, ChainsAgree
  <2>2. Queue(s) \subseteq Nat \ {0}
    BY <1>1 DEF Queue
  <2>3. last_committed[s] \in Nat /\ Entries(n)[s].next \in Nat
    BY <1>7 DEF QueueInv, TypeOK
  <2> QED BY <1>1, <1>7, <2>1, <2>2, <2>3 DEF Follows
<1>9. Records'
  BY <1>4 DEF QueueInv, Records
<1>10. ChainsAgree'
  <2> SUFFICES ASSUME NEW r \in Surfaces
               PROVE  /\ Follows(Queue(r)', first_committed'[r], 0)
                      /\ \A m \in Queue(r)' : Follows(Queue(r)', Entries(m)'[r].next, m)
                      /\ last_committed'[r] \in Queue(r)' \cup {0}
                      /\ Follows(Queue(r)', 0, last_committed'[r])
    BY DEF ChainsAgree
  <2> DEFINE q == Queue(r)
  <2>1. /\ Follows(q, first_committed[r], 0)
        /\ \A m \in q : Follows(q, Entries(m)[r].next, m)
        /\ last_committed[r] \in q \cup {0}
        /\ Follows(q, 0, last_committed[r])
    BY DEF QueueInv, ChainsAgree
  <2>2. q \subseteq D /\ (n \in q <=> r \in touched) /\ \A m \in q : r \in DOMAIN Entries(m)
    BY DEF Queue, Touches
  <2>3. Queue(r)' = q \ {n}
    BY <1>4, <1>5 DEF Queue, Touches
  <2>4. \A m \in q : Entries(m)[r].next \in Nat
    BY <2>2 DEF QueueInv, TypeOK, Entry
  <2>5. \A m \in q \ {n} : Entries(m)'[r].next = Entries(m)[r].next
    BY <1>5, <2>2
  <2> HIDE DEF q
  <2>6. CASE r \notin touched
    <3>1. first_committed'[r] = first_committed[r] /\ last_committed'[r] = last_committed[r]
      BY <1>6, <2>6
    <3>2. Queue(r)' = q
      BY <2>2, <2>3, <2>6
    <3> QED BY <2>1, <2>2, <2>3, <2>5, <2>6, <3>1, <3>2
  <2>7. CASE r \in touched
    <3> DEFINE nx == Entries(n)[r].next
    <3>1. first_committed'[r] = nx
      BY <1>6, <1>8, <2>7
    <3>2. last_committed'[r] = IF nx = 0 THEN 0 ELSE last_committed[r]
      BY <1>6, <1>8, <2>7
    <3>3. first_committed[r] = n /\ n \in q /\ nx \in Nat /\ Follows(q, nx, n)
      BY <1>2, <2>1, <2>2, <2>4, <2>7
    <3>4. last_committed[r] = n <=> nx = 0
      BY <1>8, <2>7
    <3> HIDE DEF nx
    <3>5. q \subseteq Nat \ {0} /\ Follows(q, n, 0)
      BY <1>1, <2>1, <2>2, <3>3
    <3>6. Follows(q \ {n}, first_committed'[r], 0)
      BY <3>1, <3>3, <3>5, FollowsRemoved
    <3>7. ASSUME NEW m \in q \ {n} PROVE Follows(q \ {n}, Entries(m)[r].next, m)
      <4>1. Entries(m)[r].next \in Nat /\ Follows(q, Entries(m)[r].next, m)
        BY <2>1, <2>4
      <4> QED BY <3>3, <3>5, <4>1, FollowsRemoved
    <3>8. last_committed'[r] \in (q \ {n}) \cup {0}
      BY <2>1, <3>2, <3>4
    <3>9. Follows(q \ {n}, 0, last_committed'[r])
      <4>1. CASE nx = 0
        BY <3>1, <3>2, <3>6, <4>1
      <4>2. CASE nx # 0
        BY <2>1, <3>2, <4>2 DEF Follows
      <4> QED BY <4>1, <4>2
    <3> QED BY <2>3, <2>5, <3>6, <3>7, <3>8, <3>9
  <2> QED BY <2>6, <2>7
<1>11. timed' = timed /\ timed' \in Seq(DOMAIN transactions') /\ TimedExact'
  <2>1. timed' = timed /\ timed \in Seq(D)
    BY DEF meta_wayland_transaction_apply, QueueInv, TypeOK
  <2>2. n \notin Range(timed)
    BY <1>2 DEF QueueInv, TimedExact
  <2>3. \A i \in DOMAIN timed : timed[i] \in D \ {n}
    BY <2>1, <2>2 DEF Range
  <2>4. timed \in Seq(D \ {n})
    <3>1. Len(timed) \in Nat /\ timed \in [1..Len(timed) -> D \ {n}]
      BY <2>1, <2>3, LenProperties
    <3> QED BY <3>1, SeqDef
  <2>5. Range(timed) = {m \in D \ {n} : transactions'[m].target # 0}
    BY <1>2, <1>4 DEF QueueInv, TimedExact
  <2>6. \A j \in DOMAIN timed : \A i \in 1..j - 1 : i \in DOMAIN timed
    BY <2>1
  <2>7. \A j \in DOMAIN timed : \A i \in 1..j - 1 :
          /\ timed[i] # timed[j]
          /\ transactions'[timed[i]].target <= transactions'[timed[j]].target
    BY <1>4, <2>3, <2>6 DEF QueueInv, TimedExact
  <2> QED BY <1>4, <2>1, <2>4, <2>5, <2>7 DEF TimedExact
<1>12. TypeOK'
  <2>1. committed_sequence' = committed_sequence /\ DOMAIN transactions' \subseteq 1..committed_sequence'
    BY <1>4 DEF meta_wayland_transaction_apply, QueueInv, TypeOK
  <2>2. \A m \in DOMAIN transactions' :
         /\ DOMAIN Entries(m)' \subseteq Surfaces
         /\ \A r \in DOMAIN Entries(m)' : Entries(m)'[r] \in Entry
         /\ transactions'[m].buf_sources \subseteq Surfaces
         /\ transactions'[m].target \in 0..MaxTime
    BY <1>4, <1>5 DEF QueueInv, TypeOK
  <2>3. /\ first_committed' \in [Surfaces -> 0..MaxCommits]
        /\ last_committed' \in [Surfaces -> 0..MaxCommits]
        /\ applied' \in [Surfaces -> 0..MaxCommits]
    <3>1. 0 \in 0..MaxCommits /\ n \in 0..MaxCommits
      BY TransactionAssumption DEF QueueInv, TypeOK
    <3>2. applied' = [s \in Surfaces |-> IF s \in touched THEN n ELSE applied[s]]
      BY DEF meta_wayland_transaction_apply
    <3> QED BY <1>6, <1>7, <3>1, <3>2 DEF QueueInv, TypeOK
  <2>4. /\ fifo_barrier' \in [Surfaces -> BOOLEAN]
        /\ visible' \in [Surfaces -> BOOLEAN]
        /\ phase' \in {"idle", "timed", "barriers"}
        /\ view' \in Views
        /\ walk' \in Seq(Surfaces)
        /\ future' \in [Views -> SUBSET (1..MaxTime)]
        /\ now' \in 0..MaxTime
    BY DEF meta_wayland_transaction_apply, QueueInv, TypeOK, loopVars, worldVars
  <2>5. scheduled' \subseteq Views
    <3>1. \A r \in touched : PrimaryView[r] \in Views
      BY <1>7, TransactionAssumption
    <3> QED BY <3>1 DEF meta_wayland_transaction_apply, QueueInv, TypeOK
  <2>6. candidates' \subseteq DOMAIN transactions'
    <3>1. candidates' = (candidates \cup {Entries(n)[s].next : s \in onward}) \ {n}
      BY DEF meta_wayland_transaction_apply, ensure_next_candidate
    <3>2. \A s \in onward : Entries(n)[s].next \in D
      BY <1>8 DEF Queue
    <3>3. candidates \subseteq D
      BY DEF QueueInv, TypeOK
    <3> HIDE DEF onward
    <3> QED BY <1>4, <3>1, <3>2, <3>3
  <2>7. committed_sequence \in 0..MaxCommits
    BY DEF QueueInv, TypeOK
  <2> QED BY <1>11, <2>1, <2>2, <2>3, <2>4, <2>5, <2>6, <2>7 DEF TypeOK
<1> QED BY <1>9, <1>10, <1>11, <1>12 DEF QueueInv
-----------------------------------------------------------------------------
(***************************************************************************)
(* The barriers.                                                           *)
(***************************************************************************)

(* The update looks at no surface twice, or it would lift a barrier that   *)
(* has been set again in the meantime.                                     *)
BarrierInv == BarriersListed /\ IsInjective(walk)

(* Two lists without repetitions and without a common element, joined. *)
LEMMA InjectiveConcat ==
    ASSUME NEW S, NEW a \in Seq(S), NEW c \in Seq(S),
           IsInjective(a), IsInjective(c), Range(a) \cap Range(c) = {}
    PROVE  /\ a \o c \in Seq(S)
           /\ Range(a \o c) = Range(a) \cup Range(c)
           /\ IsInjective(a \o c)
<1> DEFINE r == a \o c
<1>1. /\ Len(a) \in Nat /\ DOMAIN a = 1..Len(a)
      /\ Len(c) \in Nat /\ DOMAIN c = 1..Len(c)
  BY LenProperties
<1>2. /\ r \in Seq(S) /\ Len(r) = Len(a) + Len(c)
      /\ \A j \in 1..Len(a) + Len(c) : r[j] = IF j <= Len(a) THEN a[j] ELSE c[j - Len(a)]
  BY ConcatProperties, Zenon
<1>3. Range(r) = Range(a) \cup Range(c)
  BY RangeConcatenation
<1> HIDE DEF r
<1>4. DOMAIN r = 1..Len(a) + Len(c)
  BY <1>2, LenProperties
<1>5. ASSUME NEW i \in DOMAIN r, NEW j \in DOMAIN r, r[i] = r[j] PROVE i = j
  <2>1. \A k \in DOMAIN r : k <= Len(a) => k \in DOMAIN a /\ r[k] = a[k]
    BY <1>1, <1>2, <1>4
  <2>2. ASSUME NEW k \in DOMAIN r, ~(k <= Len(a))
        PROVE  k - Len(a) \in DOMAIN c /\ r[k] = c[k - Len(a)]
    <3>1. k - Len(a) \in 1..Len(c)
      BY <1>1, <1>4, <2>2
    <3>2. k \in 1..Len(a) + Len(c)
      BY <1>4
    <3> QED BY <1>1, <1>2, <2>2, <3>1, <3>2
  <2>3. CASE i <= Len(a) /\ j <= Len(a)
    BY <1>5, <2>1, <2>3 DEF IsInjective
  <2>4. CASE ~(i <= Len(a)) /\ ~(j <= Len(a))
    <3>1. c[i - Len(a)] = c[j - Len(a)] /\ i - Len(a) \in DOMAIN c /\ j - Len(a) \in DOMAIN c
      BY <1>5, <2>2, <2>4
    <3>2. i - Len(a) = j - Len(a)
      BY <3>1 DEF IsInjective
    <3>3. i \in Nat /\ j \in Nat /\ Len(a) \in Nat
      BY <1>1, <1>4
    <3> QED BY <3>2, <3>3
  <2>5. CASE i <= Len(a) /\ ~(j <= Len(a))
    <3>1. r[i] \in Range(a) /\ r[j] \in Range(c)
      BY <2>1, <2>2, <2>5 DEF Range
    <3> QED BY <1>5, <3>1
  <2>6. CASE ~(i <= Len(a)) /\ j <= Len(a)
    <3>1. r[j] \in Range(a) /\ r[i] \in Range(c)
      BY <2>1, <2>2, <2>6 DEF Range
    <3> QED BY <1>5, <3>1
  <2> QED BY <2>3, <2>4, <2>5, <2>6
<1>6. IsInjective(r)
  BY <1>5 DEF IsInjective
<1> QED BY <1>2, <1>3, <1>6 DEF r

(* Applying a transaction lists those of its barriers that are new. *)
LEMMA ApplyBarriers ==
    ASSUME QueueInv, BarrierInv, NEW n \in DOMAIN transactions, meta_wayland_transaction_apply(n)
    PROVE  barrier_surfaces' \in Seq(Surfaces) /\ BarrierInv'
<1> DEFINE B == BarriersOf(n)
           old == Range(barrier_surfaces)
<1>1. /\ barrier_surfaces \in Seq(Surfaces) /\ IsInjective(barrier_surfaces)
      /\ fifo_barrier \in [Surfaces -> BOOLEAN] /\ walk \in Seq(Surfaces)
      /\ \A s \in Surfaces : fifo_barrier[s] <=> s \in old
      /\ \A i \in DOMAIN walk : fifo_barrier[walk[i]]
      /\ IsInjective(walk)
  BY DEF QueueInv, TypeOK, BarrierInv, BarriersListed
<1>2. B \subseteq Surfaces
  BY DEF QueueInv, TypeOK, BarriersOf
<1>3. add_barrier_surface(B) = B \ old
  BY DEF add_barrier_surface, Range
<1>4. IsFiniteSet(B \ old)
  BY <1>2, FS_Subset, TransactionAssumption
<1>5. PICK added \in SetToSeqs(B \ old) : barrier_surfaces' = added \o barrier_surfaces
  BY <1>3 DEF meta_wayland_transaction_apply
<1>6. added \in Seq(B \ old) /\ Range(added) = B \ old /\ IsInjective(added)
  BY <1>4, SetToSeqsProperties
<1>7. added \in Seq(Surfaces)
  <2>1. B \ old \subseteq Surfaces
    BY <1>2
  <2> HIDE DEF B, old
  <2> QED BY <1>6, <2>1
<1>8. Range(added) \cap old = {}
  BY <1>6
<1>9. /\ barrier_surfaces' \in Seq(Surfaces)
      /\ Range(barrier_surfaces') = (B \ old) \cup old
      /\ IsInjective(barrier_surfaces')
  BY <1>1, <1>5, <1>6, <1>7, <1>8, InjectiveConcat
<1>10. /\ fifo_barrier' = [s \in Surfaces |-> fifo_barrier[s] \/ s \in B]
       /\ walk' = walk
  BY DEF meta_wayland_transaction_apply, loopVars
<1> HIDE DEF B, old
<1>11. ASSUME NEW s \in Surfaces PROVE fifo_barrier'[s] <=> s \in Range(barrier_surfaces')
  <2>1. fifo_barrier'[s] = (fifo_barrier[s] \/ s \in B)
    BY <1>10
  <2>2. fifo_barrier[s] <=> s \in old
    BY <1>1
  <2> QED BY <1>9, <2>1, <2>2, Zenon
<1>12. ASSUME NEW i \in DOMAIN walk' PROVE fifo_barrier'[walk'[i]]
  <2>1. walk[i] \in Surfaces /\ fifo_barrier[walk[i]]
    BY <1>1, <1>10
  <2>2. fifo_barrier'[walk[i]] = (fifo_barrier[walk[i]] \/ walk[i] \in B)
    BY <1>10, <2>1
  <2> QED BY <1>10, <2>1, <2>2
<1> QED BY <1>1, <1>9, <1>10, <1>11, <1>12 DEF BarrierInv, BarriersListed

(* Lifting the barrier of a surface removes it from the list. *)
LEMMA ClearBarriers ==
    ASSUME QueueInv, BarrierInv, clear_barrier_for_stage_view_surfaces
    PROVE  /\ barrier_surfaces' \in Seq(Surfaces) /\ walk' \in Seq(Surfaces)
           /\ fifo_barrier' \in [Surfaces -> BOOLEAN]
           /\ BarrierInv'
<1> DEFINE s == Head(walk)
<1>1. /\ barrier_surfaces \in Seq(Surfaces) /\ IsInjective(barrier_surfaces)
      /\ fifo_barrier \in [Surfaces -> BOOLEAN] /\ walk \in Seq(Surfaces)
      /\ \A r \in Surfaces : fifo_barrier[r] <=> r \in Range(barrier_surfaces)
      /\ \A i \in DOMAIN walk : fifo_barrier[walk[i]]
      /\ IsInjective(walk)
      /\ walk # << >> /\ walk' = Tail(walk)
  BY DEF QueueInv, TypeOK, BarrierInv, BarriersListed, clear_barrier_for_stage_view_surfaces
<1>2. /\ s = walk[1] /\ s \in Surfaces
      /\ Len(walk) \in Nat /\ DOMAIN walk = 1..Len(walk) /\ Len(walk) # 0
      /\ walk' \in Seq(Surfaces) /\ DOMAIN walk' = 1..Len(walk) - 1
      /\ \A i \in 1..Len(walk) - 1 : walk'[i] = walk[i + 1] /\ i + 1 \in 1..Len(walk) /\ i + 1 # 1
  BY <1>1
<1>3. fifo_barrier[s] /\ s \in Range(barrier_surfaces)
  BY <1>1, <1>2
<1>4. IsInjective(walk')
  <2> SUFFICES ASSUME NEW i \in DOMAIN walk', NEW j \in DOMAIN walk', walk'[i] = walk'[j]
               PROVE  i = j
    BY DEF IsInjective
  <2>1. walk[i + 1] = walk[j + 1] /\ i + 1 \in DOMAIN walk /\ j + 1 \in DOMAIN walk
    BY <1>2
  <2>2. i + 1 = j + 1
    BY <1>1, <2>1 DEF IsInjective
  <2> QED BY <1>2, <2>2
<1>5. \A i \in DOMAIN walk' : walk'[i] # s /\ fifo_barrier[walk'[i]] /\ walk'[i] \in Surfaces
  BY <1>1, <1>2 DEF IsInjective
<1> HIDE DEF s
<1>6. CASE Elsewhere(s)
  <2>1. UNCHANGED <<fifo_barrier, barrier_surfaces>>
    BY <1>6 DEF clear_barrier_for_stage_view_surfaces, barrierVars, s
  <2> QED BY <1>1, <1>2, <1>4, <1>5, <2>1 DEF BarrierInv, BarriersListed
<1>7. CASE ~Elsewhere(s)
  <2>1. /\ barrier_surfaces' = RemoveFirst(barrier_surfaces, s)
        /\ fifo_barrier' = [fifo_barrier EXCEPT ![s] = FALSE]
    BY <1>7 DEF clear_barrier_for_stage_view_surfaces, s
  <2>2. /\ barrier_surfaces' \in Seq(Surfaces)
        /\ Range(barrier_surfaces') = Range(barrier_surfaces) \ {s}
        /\ IsInjective(barrier_surfaces')
    BY <1>1, <1>3, <2>1, RemoveFirstProperties
  <2>3. fifo_barrier' \in [Surfaces -> BOOLEAN]
    BY <1>1, <2>1
  <2>4. ASSUME NEW r \in Surfaces PROVE fifo_barrier'[r] <=> r \in Range(barrier_surfaces')
    <3>1. CASE r = s
      <4>1. fifo_barrier'[r] = FALSE
        BY <1>1, <2>1, <3>1
      <4> QED BY <2>2, <3>1, <4>1
    <3>2. CASE r # s
      <4>1. fifo_barrier'[r] = fifo_barrier[r]
        BY <1>1, <2>1, <3>2
      <4> QED BY <1>1, <2>2, <3>2, <4>1
    <3> QED BY <3>1, <3>2
  <2>5. \A i \in DOMAIN walk' : fifo_barrier'[walk'[i]]
    BY <1>1, <1>5, <2>1
  <2> QED BY <1>2, <1>4, <2>2, <2>3, <2>4, <2>5 DEF BarrierInv, BarriersListed
<1> QED BY <1>6, <1>7
-----------------------------------------------------------------------------
(***************************************************************************)
(* The other steps.                                                        *)
(***************************************************************************)

(* A step that changes no transaction and no list. *)
LEMMA QueueUnchanged ==
    ASSUME QueueInv, TypeOK', UNCHANGED <<queueVars, timed>>
    PROVE  QueueInv'
<1>1. /\ transactions' = transactions /\ timed' = timed
      /\ first_committed' = first_committed /\ last_committed' = last_committed
  BY DEF queueVars
<1>2. \A n : Entries(n)' = Entries(n)
  BY <1>1 DEF Entries
<1>3. \A s : Queue(s)' = Queue(s)
  BY <1>1, <1>2 DEF Queue, Touches
<1>4. Records' /\ TimedExact'
  BY <1>1 DEF QueueInv, Records, TimedExact
<1>5. ChainsAgree'
  BY <1>1, <1>2, <1>3 DEF QueueInv, ChainsAgree
<1> QED BY <1>4, <1>5 DEF QueueInv

(* A step that changes only what the transaction k waits for. *)
LEMMA ChainsUnchanged ==
    ASSUME QueueInv, NEW k \in DOMAIN transactions,
           DOMAIN transactions' = DOMAIN transactions,
           \A n \in DOMAIN transactions : Entries(n)' = Entries(n),
           UNCHANGED <<first_committed, last_committed>>
    PROVE  ChainsAgree'
<1>1. \A s : Queue(s)' = Queue(s)
  BY DEF Queue, Touches
<1>2. \A s : \A n \in Queue(s) : Entries(n)' = Entries(n)
  BY DEF Queue
<1> QED BY <1>1, <1>2 DEF QueueInv, ChainsAgree

(* A buffer becomes ready. *)
LEMMA DispatchQueue ==
    ASSUME QueueInv, NEW k, NEW s, meta_wayland_transaction_dma_buf_dispatch(k, s)
    PROVE  QueueInv'
<1>1. /\ k \in DOMAIN transactions
      /\ transactions' = [transactions EXCEPT ![k].buf_sources = @ \ {s}]
      /\ candidates' = {k}
      /\ UNCHANGED <<committed_sequence, first_committed, last_committed, applied, fifo_barrier,
                     barrier_surfaces, timed, phase, view, walk, visible, now, scheduled, future>>
  BY DEF meta_wayland_transaction_dma_buf_dispatch, barrierVars, loopVars, worldVars, clockVars
<1>2. /\ DOMAIN transactions' = DOMAIN transactions
      /\ \A n \in DOMAIN transactions :
           /\ Entries(n)' = Entries(n)
           /\ transactions'[n].target = transactions[n].target
           /\ transactions'[n].buf_sources \subseteq transactions[n].buf_sources
           /\ transactions'[n] = [entries |-> transactions'[n].entries,
                                  buf_sources |-> transactions'[n].buf_sources,
                                  target |-> transactions'[n].target]
  <2>1. DOMAIN transactions' = DOMAIN transactions
    BY <1>1
  <2>2. ASSUME NEW n \in DOMAIN transactions, n # k PROVE transactions'[n] = transactions[n]
    BY <1>1, <2>2
  <2>3. transactions'[k] = [transactions[k] EXCEPT !.buf_sources = @ \ {s}]
    BY <1>1
  <2>4. \A n \in DOMAIN transactions :
          transactions[n] = [entries |-> transactions[n].entries,
                             buf_sources |-> transactions[n].buf_sources,
                             target |-> transactions[n].target]
    BY DEF QueueInv, Records
  <2>5. transactions'[k] = [entries |-> transactions[k].entries,
                            buf_sources |-> transactions[k].buf_sources \ {s},
                            target |-> transactions[k].target]
    BY <1>1, <2>3, <2>4
  <2> QED BY <2>1, <2>2, <2>4, <2>5 DEF Entries
<1>3. Records'
  BY <1>2 DEF Records
<1>4. ChainsAgree'
  BY <1>1, <1>2, ChainsUnchanged
<1>5. TimedExact'
  <2>1. timed \in Seq(DOMAIN transactions)
    BY DEF QueueInv, TypeOK
  <2>2. \A j \in DOMAIN timed : timed[j] \in DOMAIN transactions /\ \A i \in 1..j - 1 : i \in DOMAIN timed
    BY <2>1
  <2> QED BY <1>1, <1>2, <2>2 DEF QueueInv, TimedExact
<1>6. TypeOK'
  <2>1. \A n \in DOMAIN transactions' :
         /\ DOMAIN Entries(n)' \subseteq Surfaces
         /\ \A r \in DOMAIN Entries(n)' : Entries(n)'[r] \in Entry
         /\ transactions'[n].buf_sources \subseteq Surfaces
         /\ transactions'[n].target \in 0..MaxTime
    BY <1>2 DEF QueueInv, TypeOK
  <2> QED BY <1>1, <1>2, <2>1 DEF QueueInv, TypeOK
<1> QED BY <1>3, <1>4, <1>5, <1>6 DEF QueueInv

(* The transaction whose time has come first does not wait for it any      *)
(* more.                                                                   *)
LEMMA UnblockQueue ==
    ASSUME QueueInv, meta_wayland_transaction_unblock_timed
    PROVE  /\ QueueInv'
           /\ Head(timed) \in DOMAIN transactions
           /\ DOMAIN transactions' = DOMAIN transactions
           /\ \A n \in DOMAIN transactions :
                /\ Entries(n)' = Entries(n)
                /\ transactions'[n].buf_sources = transactions[n].buf_sources
                /\ transactions'[n].target = IF n = Head(timed) THEN 0 ELSE transactions[n].target
<1> DEFINE k == Head(timed)
           D == DOMAIN transactions
<1>1. /\ timed # << >>
      /\ transactions' = [transactions EXCEPT ![k].target = 0]
      /\ candidates' = {k}
      /\ timed' = Tail(timed)
      /\ UNCHANGED <<committed_sequence, first_committed, last_committed, applied, fifo_barrier,
                     barrier_surfaces, phase, view, walk, visible, now, scheduled, future>>
  BY DEF meta_wayland_transaction_unblock_timed, Due, barrierVars, loopVars, worldVars, clockVars
<1>2. /\ timed \in Seq(D) /\ k \in D /\ k = timed[1]
      /\ Len(timed) \in Nat /\ Len(timed) # 0 /\ DOMAIN timed = 1..Len(timed)
      /\ timed' \in Seq(D) /\ DOMAIN timed' = 1..Len(timed) - 1
      /\ \A i \in 1..Len(timed) - 1 : timed'[i] = timed[i + 1]
  <2>1. timed \in Seq(D)
    BY DEF QueueInv, TypeOK
  <2> HIDE DEF D
  <2> QED BY <1>1, <2>1
<1> HIDE DEF k
<1>3. /\ DOMAIN transactions' = D
      /\ \A n \in D :
           /\ Entries(n)' = Entries(n)
           /\ transactions'[n].target = IF n = k THEN 0 ELSE transactions[n].target
           /\ transactions'[n].buf_sources = transactions[n].buf_sources
           /\ transactions'[n] = [entries |-> transactions'[n].entries,
                                  buf_sources |-> transactions'[n].buf_sources,
                                  target |-> transactions'[n].target]
  <2>1. DOMAIN transactions' = D
    BY <1>1
  <2>2. ASSUME NEW n \in D, n # k PROVE transactions'[n] = transactions[n]
    BY <1>1, <2>2
  <2>3. transactions'[k] = [transactions[k] EXCEPT !.target = 0]
    BY <1>1, <1>2
  <2>4. \A n \in D :
          transactions[n] = [entries |-> transactions[n].entries,
                             buf_sources |-> transactions[n].buf_sources,
                             target |-> transactions[n].target]
    BY DEF QueueInv, Records
  <2>5. transactions'[k] = [entries |-> transactions[k].entries,
                            buf_sources |-> transactions[k].buf_sources,
                            target |-> 0]
    BY <1>2, <2>3, <2>4
  <2> QED BY <2>1, <2>2, <2>4, <2>5 DEF Entries
<1>4. Records'
  BY <1>3 DEF Records
<1>5. ChainsAgree'
  BY <1>1, <1>2, <1>3, ChainsUnchanged
<1>6. TimedExact'
  <2>1. \A j \in 1..Len(timed) : \A i \in 1..j - 1 :
           timed[i] # timed[j] /\ transactions[timed[i]].target <= transactions[timed[j]].target
    BY <1>2 DEF QueueInv, TimedExact
  <2>2. Range(timed) = {n \in D : transactions[n].target # 0}
    BY DEF QueueInv, TimedExact
  <2>3. ASSUME NEW j \in 1..Len(timed) - 1
        PROVE  /\ j + 1 \in 1..Len(timed) /\ timed'[j] = timed[j + 1] /\ timed'[j] # k
               /\ timed'[j] \in D
               /\ \A i \in 1..j - 1 : i + 1 \in 1..(j + 1) - 1 /\ timed'[i] = timed[i + 1]
    <3>1. j + 1 \in 1..Len(timed) /\ 1 \in 1..(j + 1) - 1
      BY <1>2
    <3>2. timed'[j] = timed[j + 1] /\ timed'[j] \in D
      BY <1>2
    <3>3. timed[1] # timed[j + 1]
      BY <2>1, <3>1
    <3>4. \A i \in 1..j - 1 : i + 1 \in 1..(j + 1) - 1 /\ i \in 1..Len(timed) - 1
      BY <1>2
    <3> QED BY <1>2, <3>1, <3>2, <3>3, <3>4
  <2>4. Range(timed') = {n \in D : transactions'[n].target # 0}
    <3>1. Range(timed') = Range(timed) \ {k}
      <4>1. ASSUME NEW x \in Range(timed') PROVE x \in Range(timed) \ {k}
        <5>1. PICK j \in 1..Len(timed) - 1 : x = timed'[j]
          BY <1>2 DEF Range
        <5> QED BY <1>2, <2>3, <5>1 DEF Range
      <4>2. ASSUME NEW x \in Range(timed), x # k PROVE x \in Range(timed')
        <5>1. PICK j \in 1..Len(timed) : x = timed[j]
          BY <1>2 DEF Range
        <5>2. j # 1
          BY <1>2, <4>2, <5>1
        <5>3. j - 1 \in 1..Len(timed) - 1 /\ (j - 1) + 1 = j
          BY <1>2, <5>2
        <5>4. timed'[j - 1] = x
          BY <1>2, <5>1, <5>3
        <5> QED BY <1>2, <5>3, <5>4 DEF Range
      <4> QED BY <4>1, <4>2
    <3> QED BY <1>3, <2>2, <3>1
  <2>5. ASSUME NEW j \in 1..Len(timed) - 1, NEW i \in 1..j - 1
        PROVE  /\ timed'[i] # timed'[j]
               /\ transactions'[timed'[i]].target <= transactions'[timed'[j]].target
    <3>1. i \in 1..Len(timed) - 1
      BY <1>2
    <3>2. /\ transactions'[timed'[i]].target = transactions[timed'[i]].target
          /\ transactions'[timed'[j]].target = transactions[timed'[j]].target
      BY <1>3, <2>3, <3>1
    <3>3. /\ timed[i + 1] # timed[j + 1]
          /\ transactions[timed[i + 1]].target <= transactions[timed[j + 1]].target
      BY <2>1, <2>3
    <3> QED BY <2>3, <3>2, <3>3
  <2> QED BY <1>2, <1>3, <2>4, <2>5 DEF TimedExact
<1>7. TypeOK'
  <2>1. \A n \in DOMAIN transactions' :
         /\ DOMAIN Entries(n)' \subseteq Surfaces
         /\ \A r \in DOMAIN Entries(n)' : Entries(n)'[r] \in Entry
         /\ transactions'[n].buf_sources \subseteq Surfaces
         /\ transactions'[n].target \in 0..MaxTime
    <3>1. 0 \in 0..MaxTime
      BY TransactionAssumption
    <3> QED BY <1>3, <3>1 DEF QueueInv, TypeOK
  <2> QED BY <1>1, <1>2, <1>3, <2>1 DEF QueueInv, TypeOK
<1> QED BY <1>2, <1>3, <1>4, <1>5, <1>6, <1>7 DEF QueueInv, k

(* What one turn of the loop over the candidates does. *)
LEMMA ApplyOneCases ==
    ASSUME QueueInv, ApplyOne
    PROVE  \E n \in DOMAIN transactions :
             \/ Ready(n) /\ meta_wayland_transaction_apply(n)
             \/ /\ ~Ready(n)
                /\ candidates' = candidates \ {n}
                /\ UNCHANGED <<queueVars, barrierVars, timed, loopVars, worldVars, clockVars>>
<1>1. candidates \subseteq DOMAIN transactions /\ candidates # {} /\ candidates \subseteq Nat
  BY DEF QueueInv, TypeOK, ApplyOne
<1>2. Min(candidates) \in candidates
  BY <1>1, MinExists
<1> QED BY <1>1, <1>2 DEF ApplyOne

(* Every step keeps the lists and the barriers. *)
LEMMA ListsStep ==
    ASSUME QueueInv, BarrierInv, [Next]_vars
    PROVE  QueueInv' /\ BarrierInv'
<1> USE DEF queueVars, barrierVars, loopVars, worldVars, clockVars
<1>1. CASE Commit
  <2>1. PICK S \in SUBSET Surfaces : \E states \in [S -> Kinds] :
             \E unready \in SUBSET S : \E t \in 0..MaxTime : \E s \in Surfaces :
               /\ Committed(states, unready, committed_sequence + 1, t, s)
               /\ committed_sequence + 1 \in 1..MaxCommits
    BY <1>1, CommitShape
  <2>2. QueueInv'
    BY <2>1, CommitQueue
  <2>3. UNCHANGED <<fifo_barrier, barrier_surfaces, walk>>
    BY <1>1 DEF Commit, meta_wayland_transaction_commit
  <2> QED BY <2>2, <2>3 DEF BarrierInv, BarriersListed
<1>2. CASE ApplyOne
  <2>1. PICK n \in DOMAIN transactions :
             \/ Ready(n) /\ meta_wayland_transaction_apply(n)
             \/ /\ ~Ready(n)
                /\ candidates' = candidates \ {n}
                /\ UNCHANGED <<queueVars, barrierVars, timed, loopVars, worldVars, clockVars>>
    BY <1>2, ApplyOneCases
  <2>2. CASE Ready(n) /\ meta_wayland_transaction_apply(n)
    BY <2>2, ApplyBarriers, ApplyQueue
  <2>3. CASE /\ candidates' = candidates \ {n}
             /\ UNCHANGED <<queueVars, barrierVars, timed, loopVars, worldVars, clockVars>>
    <3>0. \A m : Entries(m)' = Entries(m)
      BY <2>3 DEF Entries
    <3>1. TypeOK'
      BY <2>3, <3>0 DEF QueueInv, TypeOK
    <3>2. QueueInv'
      BY <2>3, <3>1, QueueUnchanged
    <3> QED BY <2>3, <3>2 DEF BarrierInv, BarriersListed
  <2> QED BY <2>1, <2>2, <2>3
<1>3. CASE \E n \in 1..MaxCommits, s \in Surfaces : meta_wayland_transaction_dma_buf_dispatch(n, s)
  <2>1. QueueInv'
    BY <1>3, DispatchQueue
  <2>2. UNCHANGED <<fifo_barrier, barrier_surfaces, walk>>
    BY <1>3 DEF meta_wayland_transaction_dma_buf_dispatch
  <2> QED BY <2>1, <2>2 DEF BarrierInv, BarriersListed
<1>4. CASE meta_wayland_transaction_unblock_timed
  <2>1. QueueInv'
    BY <1>4, UnblockQueue
  <2>2. UNCHANGED <<fifo_barrier, barrier_surfaces, walk>>
    BY <1>4 DEF meta_wayland_transaction_unblock_timed
  <2> QED BY <2>1, <2>2 DEF BarrierInv, BarriersListed
<1>5. CASE clear_barrier_for_stage_view_surfaces
  <2>1. /\ barrier_surfaces' \in Seq(Surfaces) /\ walk' \in Seq(Surfaces)
        /\ fifo_barrier' \in [Surfaces -> BOOLEAN]
        /\ BarrierInv'
    BY <1>5, ClearBarriers
  <2>2. UNCHANGED <<queueVars, timed, phase, view, worldVars, clockVars>>
    BY <1>5 DEF clear_barrier_for_stage_view_surfaces
  <2>3. candidates' \subseteq DOMAIN transactions
    <3>1. walk \in Seq(Surfaces) /\ walk # << >>
      BY <1>5 DEF clear_barrier_for_stage_view_surfaces, QueueInv, TypeOK
    <3>2. Head(walk) \in Surfaces
      BY <3>1
    <3>3. first_committed[Head(walk)] \in DOMAIN transactions \cup {0}
      BY <3>2 DEF QueueInv, ChainsAgree, Follows, Queue
    <3>4. candidates' = candidates \/ candidates' \subseteq {first_committed[Head(walk)]} \ {0}
      BY <1>5 DEF clear_barrier_for_stage_view_surfaces
    <3> QED BY <3>3, <3>4 DEF QueueInv, TypeOK
  <2>4. TypeOK'
    <3>1. \A m : Entries(m)' = Entries(m)
      BY <2>2 DEF Entries
    <3> QED BY <2>1, <2>2, <2>3, <3>1 DEF QueueInv, TypeOK
  <2> QED BY <2>1, <2>2, <2>4, QueueUnchanged
<1>6. CASE AfterUpdate
  <2>1. TypeOK'
    <3>1. \A m : Entries(m)' = Entries(m)
      BY <1>6 DEF AfterUpdate, Entries
    <3> QED BY <1>6, <3>1 DEF AfterUpdate, QueueInv, TypeOK
  <2>2. QueueInv'
    BY <1>6, <2>1, QueueUnchanged DEF AfterUpdate
  <2>3. /\ UNCHANGED <<fifo_barrier, barrier_surfaces>> /\ walk' = barrier_surfaces
        /\ barrier_surfaces \in Seq(Surfaces)
    BY <1>6 DEF AfterUpdate, QueueInv, TypeOK
  <2>4. \A i \in DOMAIN barrier_surfaces : fifo_barrier[barrier_surfaces[i]]
    BY <2>3 DEF BarrierInv, BarriersListed, Range
  <2> QED BY <2>2, <2>3, <2>4 DEF BarrierInv, BarriersListed
<1>7. CASE \/ EndUpdate \/ Tick \/ UNCHANGED vars
           \/ \E s \in Surfaces : VisibilityChange(s)
           \/ \E v \in Views : BeforeUpdate(v) \/ OtherDamage(v) \/ Reschedule(v)
  <2>1. UNCHANGED <<queueVars, timed, barrierVars, candidates, walk>>
    BY <1>7 DEF EndUpdate, Tick, vars, VisibilityChange, BeforeUpdate, OtherDamage, Reschedule
  <2> DEFINE RestOK == /\ visible \in [Surfaces -> BOOLEAN]
                   /\ phase \in {"idle", "timed", "barriers"}
                   /\ view \in Views
                   /\ scheduled \subseteq Views
                   /\ future \in [Views -> SUBSET (1..MaxTime)]
                   /\ now \in 0..MaxTime
  <2>2. RestOK'
    <3>0. TypeOK
      BY DEF QueueInv
    <3>1. CASE EndUpdate
      BY <3>0, <3>1 DEF EndUpdate, TypeOK
    <3>2. CASE Tick
      BY <3>0, <3>2, TransactionAssumption DEF Tick, TypeOK
    <3>3. CASE UNCHANGED vars
      BY <3>0, <3>3 DEF vars, TypeOK
    <3>4. ASSUME NEW s \in Surfaces, VisibilityChange(s) PROVE RestOK'
      BY <3>0, <3>4, TransactionAssumption DEF VisibilityChange, TypeOK
    <3>5. ASSUME NEW v \in Views, BeforeUpdate(v) PROVE RestOK'
      BY <3>0, <3>5 DEF BeforeUpdate, TypeOK
    <3>6. ASSUME NEW v \in Views, OtherDamage(v) PROVE RestOK'
      BY <3>0, <3>6 DEF OtherDamage, TypeOK
    <3>7. ASSUME NEW v \in Views, Reschedule(v) PROVE RestOK'
      <4>1. future[v] \in SUBSET (1..MaxTime)
        BY <3>0 DEF TypeOK
      <4>2. Rescheduled(v, future[v])
        BY <3>0, <3>7, <4>1, RescheduleProperties DEF Reschedule
      <4>3. UNCHANGED <<visible, phase, view, now>>
        BY <3>7 DEF Reschedule
      <4> QED BY <3>0, <4>2, <4>3 DEF Rescheduled, TypeOK
    <3> QED BY <1>7, <3>1, <3>2, <3>3, <3>4, <3>5, <3>6, <3>7
  <2>3. TypeOK'
    <3>1. \A m : Entries(m)' = Entries(m)
      BY <2>1 DEF Entries
    <3> QED BY <2>1, <2>2, <3>1 DEF QueueInv, TypeOK
  <2>4. QueueInv'
    BY <2>1, <2>3, QueueUnchanged
  <2> QED BY <2>1, <2>4 DEF BarrierInv, BarriersListed
<1> QED BY <1>1, <1>2, <1>3, <1>4, <1>5, <1>6, <1>7 DEF Next, Internal, Environment
-----------------------------------------------------------------------------
(***************************************************************************)
(* The times.                                                              *)
(***************************************************************************)

(* A time is known to a frame clock, or is past and an update or another   *)
(* known time will make up for it.                                         *)
Known(t) ==
    \/ \E v \in Views : t \in future[v]
    \/ t <= now /\ (phase = "timed" \/ scheduled # {} \/ \E v \in Views : future[v] # {})

TimedKnown ==
    \A n \in DOMAIN transactions : transactions[n].target # 0 => Known(transactions[n].target)

(* Rescheduling keeps times known, those the frame clock was told included. *)
LEMMA RescheduleKnown ==
    ASSUME NEW v \in Views, NEW times, Rescheduled(v, times), future[v] \subseteq times,
           phase' = phase, now' = now, NEW t, t \in times \/ Known(t)
    PROVE  Known(t)'
<1>1. \A w \in Views \ {v} : future'[w] = future[w]
  BY DEF Rescheduled
<1>2. \A k \in times : k \in future'[v] \/ (k <= now /\ (scheduled' # {} \/ future'[v] # {}))
  BY DEF Rescheduled
<1>3. CASE t \in times
  BY <1>2, <1>3 DEF Known
<1>4. CASE \E w \in Views : t \in future[w]
  BY <1>1, <1>3, <1>4 DEF Known
<1>5. CASE t <= now /\ (phase = "timed" \/ scheduled # {})
  BY <1>5 DEF Known, Rescheduled
<1>6. CASE t <= now /\ \E w \in Views : future[w] # {}
  <2>1. PICK w \in Views : future[w] # {}
    BY <1>6
  <2>2. CASE w # v
    BY <1>1, <1>6, <2>1, <2>2 DEF Known
  <2>3. CASE w = v
    <3>1. scheduled' # {} \/ future'[v] # {}
      BY <1>2, <2>1, <2>3
    <3> QED BY <1>6, <3>1 DEF Known
  <2> QED BY <2>2, <2>3
<1> QED BY <1>3, <1>4, <1>5, <1>6 DEF Known

(* The search of the timed queue ends with the first time still to come:   *)
(* then all of them are.                                                   *)
LEMMA NoneDue ==
    ASSUME QueueInv, ~Due, NEW n \in DOMAIN transactions, transactions[n].target # 0
    PROVE  ~(transactions[n].target <= now)
<1>1. /\ timed \in Seq(DOMAIN transactions)
      /\ now \in Nat
      /\ \A m \in DOMAIN transactions : transactions[m].target \in Nat
  BY DEF QueueInv, TypeOK
<1>2. PICK j \in DOMAIN timed : timed[j] = n
  BY DEF QueueInv, TimedExact, Range
<1>3. /\ timed # << >> /\ Head(timed) = timed[1] /\ j \in Nat /\ 1 <= j
      /\ 1 \in DOMAIN timed /\ timed[1] \in DOMAIN transactions
  BY <1>1, <1>2
<1>4. ~(transactions[timed[1]].target <= now)
  BY <1>3 DEF Due
<1>5. transactions[timed[1]].target <= transactions[n].target
  <2>1. CASE j = 1
    BY <1>1, <1>2, <2>1
  <2>2. CASE j # 1
    <3>1. 1 \in 1..j - 1
      BY <1>3, <2>2
    <3> QED BY <1>2, <3>1 DEF QueueInv, TimedExact
  <2> QED BY <2>1, <2>2
<1>6. transactions[n].target \in Nat /\ transactions[timed[1]].target \in Nat
  BY <1>1, <1>3
<1> QED BY <1>1, <1>4, <1>5, <1>6

(* Every step keeps the times known. *)
LEMMA TimedStep ==
    ASSUME QueueInv, TimedKnown, [Next]_vars
    PROVE  TimedKnown'
<1> USE DEF queueVars, barrierVars, loopVars, worldVars, clockVars
<1>0. TypeOK
  BY DEF QueueInv
<1>1. CASE Commit
  <2>1. PICK S \in SUBSET Surfaces : \E states \in [S -> Kinds] :
             \E unready \in SUBSET S : \E t \in 0..MaxTime : \E s \in Surfaces :
               /\ Committed(states, unready, committed_sequence + 1, t, s)
               /\ committed_sequence + 1 \in 1..MaxCommits
    BY <1>1, CommitShape
  <2>2. PICK states \in [S -> Kinds], unready \in SUBSET S,
             t \in 0..MaxTime, s \in Surfaces :
               Committed(states, unready, committed_sequence + 1, t, s)
    BY <2>1
  <2> DEFINE n == committed_sequence + 1
  <2>3. /\ DOMAIN transactions' = DOMAIN transactions \cup {n}
        /\ transactions'[n].target = t
        /\ \A m \in DOMAIN transactions : transactions'[m].target = transactions[m].target
        /\ phase' = phase /\ now' = now
        /\ t = 0 => UNCHANGED <<scheduled, future>>
        /\ t # 0 => reschedule(PrimaryView[s], future[PrimaryView[s]] \cup {t})
    BY <2>2 DEF Committed
  <2> HIDE DEF n
  <2>4. CASE t = 0
    BY <2>3, <2>4 DEF TimedKnown, Known
  <2>5. CASE t # 0
    <3> DEFINE v == PrimaryView[s]
               times == future[v] \cup {t}
    <3>1. v \in Views /\ times \in SUBSET (1..MaxTime)
      BY <1>0, <2>5, TransactionAssumption DEF TypeOK
    <3>2. reschedule(v, times) /\ future[v] \subseteq times /\ t \in times
      BY <2>3, <2>5
    <3> HIDE DEF v, times
    <3>3. Rescheduled(v, times)
      BY <1>0, <3>1, <3>2, RescheduleProperties
    <3>4. ASSUME NEW k, k \in times \/ Known(k) PROVE Known(k)'
      BY <2>3, <3>1, <3>2, <3>3, <3>4, RescheduleKnown
    <3> QED BY <2>3, <3>2, <3>4 DEF TimedKnown
  <2> QED BY <2>4, <2>5
<1>2. CASE ApplyOne
  <2>1. /\ \A n \in DOMAIN transactions' : n \in DOMAIN transactions /\ transactions'[n] = transactions[n]
        /\ UNCHANGED <<phase, now, future>>
        /\ scheduled \subseteq scheduled'
    BY <1>2, ApplyOneCases DEF meta_wayland_transaction_apply
  <2> QED BY <2>1 DEF TimedKnown, Known
<1>3. CASE \E n \in 1..MaxCommits, s \in Surfaces : meta_wayland_transaction_dma_buf_dispatch(n, s)
  <2>1. PICK k, s : meta_wayland_transaction_dma_buf_dispatch(k, s)
    BY <1>3
  <2>2. /\ transactions' = [transactions EXCEPT ![k].buf_sources = @ \ {s}]
        /\ k \in DOMAIN transactions
        /\ UNCHANGED <<phase, now, scheduled, future>>
    BY <2>1 DEF meta_wayland_transaction_dma_buf_dispatch
  <2>3. transactions'[k] = [transactions[k] EXCEPT !.buf_sources = transactions[k].buf_sources \ {s}]
    BY <2>2
  <2>4. transactions[k] = [entries |-> transactions[k].entries,
                           buf_sources |-> transactions[k].buf_sources,
                           target |-> transactions[k].target]
    BY <2>2 DEF QueueInv, Records
  <2>5. transactions'[k].target = transactions[k].target
    BY <2>3, <2>4
  <2>6. \A n \in DOMAIN transactions' : n \in DOMAIN transactions /\ transactions'[n].target = transactions[n].target
    BY <2>2, <2>5
  <2> QED BY <2>2, <2>6 DEF TimedKnown, Known
<1>4. CASE meta_wayland_transaction_unblock_timed
  <2>1. /\ DOMAIN transactions' = DOMAIN transactions
        /\ \A n \in DOMAIN transactions :
             transactions'[n].target = IF n = Head(timed) THEN 0 ELSE transactions[n].target
    BY <1>4, UnblockQueue
  <2>2. UNCHANGED <<phase, now, scheduled, future>>
    BY <1>4 DEF meta_wayland_transaction_unblock_timed
  <2> QED BY <2>1, <2>2 DEF TimedKnown, Known
<1>5. CASE AfterUpdate
  <2>1. UNCHANGED <<transactions, future>> /\ ~Due
    BY <1>5 DEF AfterUpdate
  <2>2. ASSUME NEW n \in DOMAIN transactions, transactions[n].target # 0
        PROVE  \E v \in Views : transactions[n].target \in future[v]
    BY <2>1, <2>2, NoneDue DEF TimedKnown, Known
  <2> QED BY <2>1, <2>2 DEF TimedKnown, Known
<1>6. CASE \E v \in Views : BeforeUpdate(v)
  <2>1. phase' = "timed" /\ UNCHANGED <<transactions, now, future>>
    BY <1>6 DEF BeforeUpdate
  <2> QED BY <2>1 DEF TimedKnown, Known
<1>7. CASE Tick
  <2>1. UNCHANGED <<transactions, scheduled, future, phase>> /\ now' = now + 1
    BY <1>7 DEF Tick
  <2>2. now \in Nat /\ \A n \in DOMAIN transactions : transactions[n].target \in Nat
    BY <1>0 DEF TypeOK
  <2>3. \A t \in Nat : t <= now => t <= now'
    BY <2>1, <2>2
  <2> QED BY <2>1, <2>2, <2>3 DEF TimedKnown, Known
<1>8. CASE EndUpdate
  <2>1. UNCHANGED <<transactions, scheduled, future, now>> /\ phase = "barriers"
    BY <1>8 DEF EndUpdate
  <2> QED BY <2>1 DEF TimedKnown, Known
<1>9. CASE \/ clear_barrier_for_stage_view_surfaces \/ UNCHANGED vars
           \/ \E s \in Surfaces : VisibilityChange(s)
           \/ \E v \in Views : OtherDamage(v)
  <2>1. UNCHANGED <<transactions, future, phase, now>> /\ scheduled \subseteq scheduled'
    BY <1>9 DEF clear_barrier_for_stage_view_surfaces, vars, VisibilityChange, OtherDamage
  <2> QED BY <2>1 DEF TimedKnown, Known
<1>10. CASE \E v \in Views : Reschedule(v)
  <2>1. PICK v \in Views : Reschedule(v)
    BY <1>10
  <2>2. reschedule(v, future[v]) /\ UNCHANGED <<transactions, phase, now>>
    BY <2>1 DEF Reschedule
  <2>3. future[v] \in SUBSET (1..MaxTime)
    BY <1>0 DEF TypeOK
  <2>4. Rescheduled(v, future[v])
    BY <1>0, <2>2, <2>3, RescheduleProperties
  <2>5. ASSUME NEW k, Known(k) PROVE Known(k)'
    BY <2>2, <2>4, <2>5, RescheduleKnown
  <2> QED BY <2>2, <2>5 DEF TimedKnown
<1> QED BY <1>1, <1>2, <1>3, <1>4, <1>5, <1>6, <1>7, <1>8, <1>9, <1>10
     DEF Next, Internal, Environment
-----------------------------------------------------------------------------
(***************************************************************************)
(* Nothing is left behind.                                                 *)
(***************************************************************************)

(* n waits for the barrier of its surface s, if s is visible. *)
Waits(n, s) ==
    /\ Entries(n)[s].state # NoState
    /\ Entries(n)[s].state.fifo_wait
    /\ fifo_barrier[s]

(* A barrier of n stopped counting when its surface was hidden. *)
Excused(n) == \E s \in DOMAIN Entries(n) : Waits(n, s) /\ ~visible[s]

(* Also while candidates are looked at: a transaction that could be        *)
(* applied is one of them, or excused.                                     *)
NoneMissed == \A n \in DOMAIN transactions : Ready(n) => n \in candidates \/ Excused(n)

(* What a ready transaction is, in terms of the barriers it waits for. *)
ReadyParts(n) ==
    /\ transactions[n].target = 0
    /\ transactions[n].buf_sources = {}
    /\ \A s \in DOMAIN Entries(n) : first_committed[s] = n /\ ~(Waits(n, s) /\ visible[s])

(* The two ways to say it. *)
LEMMA ReadyIs ==
    /\ \A n : Ready(n) <=> ReadyParts(n)
    /\ \A n : Ready(n)' <=> ReadyParts(n)'
<1>1. ASSUME NEW n PROVE Ready(n) <=> ReadyParts(n)
  BY DEF Ready, has_dependencies, ReadyParts, Waits
<1>2. ASSUME NEW n PROVE Ready(n)' <=> ReadyParts(n)'
  BY DEF Ready, has_dependencies, ReadyParts, Waits
<1> QED BY <1>1, <1>2

(* A step that changes what the transaction k waits for, and considers it. *)
LEMMA MissedOne ==
    ASSUME NoneMissed, candidates = {}, NEW k, candidates' = {k},
           DOMAIN transactions' = DOMAIN transactions,
           \A n \in DOMAIN transactions : Entries(n)' = Entries(n),
           \A n \in DOMAIN transactions \ {k} :
             /\ transactions'[n].target = transactions[n].target
             /\ transactions'[n].buf_sources = transactions[n].buf_sources,
           UNCHANGED <<first_committed, fifo_barrier, visible>>
    PROVE  NoneMissed'
<1> SUFFICES ASSUME NEW n \in DOMAIN transactions, n # k, Ready(n)' PROVE Excused(n)'
  BY DEF NoneMissed
<1>1. \A s : Waits(n, s)' = Waits(n, s)
  BY DEF Waits
<1>2. ReadyParts(n)
  BY <1>1, ReadyIs DEF ReadyParts
<1>3. Excused(n)
  BY <1>2, ReadyIs DEF NoneMissed
<1> QED BY <1>1, <1>3 DEF Excused

(* Committing: the new transaction is considered unless something is       *)
(* before it or it waits.                                                  *)
LEMMA CommitMissed ==
    ASSUME QueueInv, NoneMissed, candidates = {},
           NEW S \in SUBSET Surfaces, NEW states \in [S -> Kinds],
           NEW unready \in SUBSET S, NEW t \in 0..MaxTime, NEW s \in Surfaces,
           NEW n \in 1..MaxCommits, Committed(states, unready, n, t, s)
    PROVE  NoneMissed'
<1>1. /\ DOMAIN transactions' = DOMAIN transactions \cup {n}
      /\ DOMAIN Entries(n)' = S
      /\ transactions'[n].buf_sources = unready
      /\ transactions'[n].target = t
      /\ first_committed' = [r \in Surfaces |-> IF r \in S /\ first_committed[r] = 0
                                              THEN n ELSE first_committed[r]]
      /\ UNCHANGED <<fifo_barrier, visible>>
      /\ candidates' = IF /\ t = 0
                          /\ unready = {}
                          /\ \A r \in S : first_committed[r] = 0
                       THEN {n} ELSE {}
  BY DEF Committed, Entries, barrierVars, worldVars
<1>2. \A m \in DOMAIN transactions :
         /\ DOMAIN Entries(m)' = DOMAIN Entries(m)
         /\ transactions'[m].buf_sources = transactions[m].buf_sources
         /\ transactions'[m].target = transactions[m].target
         /\ \A r \in DOMAIN Entries(m) : Entries(m)'[r].state = Entries(m)[r].state
         /\ DOMAIN Entries(m) \subseteq Surfaces
         /\ m # n
  BY TransactionAssumption DEF Committed, QueueInv, TypeOK
<1>3. \A r \in Surfaces : first_committed[r] # n
  <2>1. \A r \in Surfaces : first_committed[r] \in DOMAIN transactions \cup {0}
    BY DEF QueueInv, ChainsAgree, Follows, Queue
  <2> QED BY <1>2, <2>1
<1>4. ASSUME Ready(n)' PROVE n \in candidates'
  <2>1. t = 0 /\ unready = {} /\ \A r \in S : first_committed'[r] = n
    BY <1>1, <1>4, ReadyIs DEF ReadyParts
  <2>2. \A r \in S : first_committed[r] = 0
    BY <1>1, <1>3, <2>1
  <2> QED BY <1>1, <2>1, <2>2
<1>5. ASSUME NEW m \in DOMAIN transactions, Ready(m)' PROVE Excused(m)'
  <2>1. \A r \in DOMAIN Entries(m) : Waits(m, r)' = Waits(m, r)
    BY <1>1, <1>2 DEF Waits
  <2>2. ReadyParts(m)'
    BY <1>5, ReadyIs
  <2>3. \A r \in DOMAIN Entries(m) : first_committed'[r] = m /\ r \in Surfaces
    BY <1>2, <2>2 DEF ReadyParts
  <2>4. \A r \in DOMAIN Entries(m) : first_committed[r] = m
    BY <1>1, <1>2, <2>3
  <2>5. ReadyParts(m)
    BY <1>1, <1>2, <2>1, <2>2, <2>4 DEF ReadyParts
  <2>6. Excused(m)
    BY <2>5, ReadyIs DEF NoneMissed
  <2> QED BY <1>1, <1>2, <2>1, <2>6 DEF Excused
<1> QED BY <1>1, <1>4, <1>5 DEF NoneMissed

(* Applying: a transaction that comes first on a surface by this becomes a *)
(* candidate; and barriers are only set by it.                             *)
LEMMA ApplyMissed ==
    ASSUME QueueInv, NoneMissed, NEW n \in DOMAIN transactions, Ready(n),
           meta_wayland_transaction_apply(n)
    PROVE  NoneMissed'
<1> DEFINE touched == DOMAIN Entries(n)
           done == {s \in touched : last_committed[s] = n}
           onward == {s \in touched \ done : Entries(n)[s].next # 0}
<1>1. /\ transactions' = [m \in DOMAIN transactions \ {n} |-> transactions[m]]
      /\ first_committed' = [s \in Surfaces |-> IF s \in done THEN 0
                                                 ELSE IF s \in onward THEN Entries(n)[s].next
                                                 ELSE first_committed[s]]
      /\ candidates' = (candidates \cup {Entries(n)[s].next : s \in onward}) \ {n}
      /\ fifo_barrier' = [s \in Surfaces |-> fifo_barrier[s] \/ s \in BarriersOf(n)]
      /\ visible' = visible
  BY DEF meta_wayland_transaction_apply, ensure_next_candidate, worldVars
<1>2. /\ DOMAIN transactions' = DOMAIN transactions \ {n}
      /\ \A m \in DOMAIN transactions \ {n} :
           transactions'[m] = transactions[m] /\ Entries(m)' = Entries(m)
  BY <1>1 DEF Entries
<1>3. \A m \in DOMAIN transactions : m # 0 /\ DOMAIN Entries(m) \subseteq Surfaces
  BY DEF QueueInv, TypeOK
<1> SUFFICES ASSUME NEW m \in DOMAIN transactions \ {n}, Ready(m)'
             PROVE  m \in candidates' \/ Excused(m)'
  BY <1>2 DEF NoneMissed
<1>4. ReadyParts(m)'
  BY ReadyIs
<1>5. \A s \in DOMAIN Entries(m) : first_committed'[s] = m /\ s \in Surfaces /\ m # 0
  BY <1>2, <1>3, <1>4 DEF ReadyParts
<1>6. \A s \in DOMAIN Entries(m) : Waits(m, s) => Waits(m, s)'
  BY <1>1, <1>2, <1>3 DEF Waits
<1> HIDE DEF onward, done
<1>7. CASE \E s \in DOMAIN Entries(m) : s \in onward
  <2>1. PICK s \in DOMAIN Entries(m) : s \in onward
    BY <1>7
  <2>2. Entries(n)[s].next = m
    BY <1>1, <1>5, <2>1 DEF onward
  <2> QED BY <1>1, <2>1, <2>2
<1>8. CASE \A s \in DOMAIN Entries(m) : s \notin onward
  <2>1. \A s \in DOMAIN Entries(m) : first_committed[s] = m
    BY <1>1, <1>5, <1>8
  <2>2. ReadyParts(m)
    BY <1>1, <1>2, <1>4, <1>6, <2>1 DEF ReadyParts
  <2>3. m \in candidates \/ Excused(m)
    BY <2>2, ReadyIs DEF NoneMissed
  <2>4. m \in candidates => m \in candidates'
    BY <1>1
  <2>5. Excused(m) => Excused(m)'
    BY <1>1, <1>2, <1>6 DEF Excused
  <2> QED BY <2>3, <2>4, <2>5
<1> QED BY <1>7, <1>8

(* Lifting a barrier: the first transaction of the surface is considered,  *)
(* and no other could wait for the barrier.                                *)
LEMMA ClearMissed ==
    ASSUME QueueInv, BarrierInv, NoneMissed, clear_barrier_for_stage_view_surfaces
    PROVE  NoneMissed'
<1> DEFINE s == Head(walk)
<1>1. /\ candidates = {}
      /\ UNCHANGED <<transactions, first_committed, visible>>
      /\ walk # << >>
  BY DEF clear_barrier_for_stage_view_surfaces, queueVars, worldVars
<1>2. walk \in Seq(Surfaces) /\ fifo_barrier \in [Surfaces -> BOOLEAN]
  BY DEF QueueInv, TypeOK
<1>3. s \in Surfaces /\ fifo_barrier[s]
  BY <1>1, <1>2 DEF BarrierInv, BarriersListed
<1>4. \A m : Entries(m)' = Entries(m)
  BY <1>1 DEF Entries
<1>5. \A m \in DOMAIN transactions : m # 0 /\ DOMAIN Entries(m) \subseteq Surfaces
  BY DEF QueueInv, TypeOK
<1> HIDE DEF s
<1> SUFFICES ASSUME NEW m \in DOMAIN transactions, Ready(m)'
             PROVE  m \in candidates' \/ Excused(m)'
  BY <1>1 DEF NoneMissed
<1>6. ReadyParts(m)'
  BY ReadyIs
<1>7. CASE Elsewhere(s)
  <2>1. UNCHANGED <<fifo_barrier, candidates>>
    BY <1>7 DEF clear_barrier_for_stage_view_surfaces, barrierVars, s
  <2>2. \A r : Waits(m, r)' = Waits(m, r)
    BY <1>4, <2>1 DEF Waits
  <2>3. ReadyParts(m)
    BY <1>1, <1>4, <1>6, <2>2 DEF ReadyParts
  <2>4. Excused(m)
    BY <1>1, <2>3, ReadyIs DEF NoneMissed
  <2> QED BY <1>1, <1>4, <2>2, <2>4 DEF Excused
<1>8. CASE ~Elsewhere(s)
  <2>1. /\ fifo_barrier' = [fifo_barrier EXCEPT ![s] = FALSE]
        /\ candidates' = {first_committed[s]} \ {0}
    BY <1>3, <1>8 DEF clear_barrier_for_stage_view_surfaces, s
  <2>2. \A r \in Surfaces : r # s => Waits(m, r)' = Waits(m, r)
    BY <1>2, <1>4, <2>1 DEF Waits
  <2>3. CASE s \in DOMAIN Entries(m)
    <3>1. first_committed[s] = m
      BY <1>1, <1>4, <1>6, <2>3 DEF ReadyParts
    <3> QED BY <1>5, <2>1, <3>1
  <2>4. CASE s \notin DOMAIN Entries(m)
    <3>1. \A r \in DOMAIN Entries(m) : Waits(m, r)' = Waits(m, r)
      BY <1>5, <2>2, <2>4
    <3>2. ReadyParts(m)
      BY <1>1, <1>4, <1>6, <3>1 DEF ReadyParts
    <3>3. Excused(m)
      BY <1>1, <3>2, ReadyIs DEF NoneMissed
    <3> QED BY <1>1, <1>4, <3>1, <3>3 DEF Excused
  <2> QED BY <2>3, <2>4
<1> QED BY <1>7, <1>8

(* Hiding a surface excuses those it releases, and showing one holds those *)
(* it excused.                                                             *)
LEMMA VisibilityMissed ==
    ASSUME QueueInv, NoneMissed, NEW s \in Surfaces, VisibilityChange(s)
    PROVE  NoneMissed'
<1>1. /\ candidates = {} /\ candidates' = {}
      /\ UNCHANGED <<transactions, first_committed, fifo_barrier>>
      /\ visible' = [visible EXCEPT ![s] = ~@]
      /\ visible \in [Surfaces -> BOOLEAN]
  BY DEF VisibilityChange, AtRest, queueVars, barrierVars, QueueInv, TypeOK
<1>2. \A m : Entries(m)' = Entries(m)
  BY <1>1 DEF Entries
<1>3. \A m \in DOMAIN transactions : DOMAIN Entries(m) \subseteq Surfaces
  BY DEF QueueInv, TypeOK
<1> SUFFICES ASSUME NEW m \in DOMAIN transactions, Ready(m)' PROVE Excused(m)'
  BY <1>1 DEF NoneMissed
<1>4. \A r : Waits(m, r)' = Waits(m, r)
  BY <1>1, <1>2 DEF Waits
<1>5. \A r \in Surfaces : r # s => visible'[r] = visible[r]
  BY <1>1
<1>6. visible'[s] = ~visible[s]
  BY <1>1
<1>7. ReadyParts(m)'
  BY ReadyIs
<1>8. CASE \E r \in DOMAIN Entries(m) : Waits(m, r) /\ visible[r]
  <2>1. PICK r \in DOMAIN Entries(m) : Waits(m, r) /\ visible[r]
    BY <1>8
  <2>2. ~visible'[r]
    BY <1>2, <1>4, <1>7, <2>1 DEF ReadyParts
  <2> QED BY <1>2, <1>4, <2>1, <2>2 DEF Excused
<1>9. CASE \A r \in DOMAIN Entries(m) : ~(Waits(m, r) /\ visible[r])
  <2>1. ReadyParts(m)
    BY <1>1, <1>2, <1>7, <1>9 DEF ReadyParts
  <2>2. Excused(m)
    BY <1>1, <2>1, ReadyIs DEF NoneMissed
  <2>3. PICK r \in DOMAIN Entries(m) : Waits(m, r) /\ ~visible[r]
    BY <2>2 DEF Excused
  <2>4. ~visible'[r]
    <3>1. ~(Waits(m, r) /\ visible'[r])
      BY <1>2, <1>4, <1>7, <2>3 DEF ReadyParts
    <3> QED BY <2>3, <3>1
  <2> QED BY <1>2, <1>4, <2>3, <2>4 DEF Excused
<1> QED BY <1>8, <1>9

(* Every step keeps NoneMissed. *)
LEMMA MissedStep ==
    ASSUME QueueInv, BarrierInv, NoneMissed, [Next]_vars
    PROVE  NoneMissed'
<1> USE DEF queueVars, barrierVars, loopVars, worldVars, clockVars
<1>1. CASE Commit
  <2>1. PICK S \in SUBSET Surfaces : \E states \in [S -> Kinds] :
             \E unready \in SUBSET S : \E t \in 0..MaxTime : \E s \in Surfaces :
               /\ Committed(states, unready, committed_sequence + 1, t, s)
               /\ committed_sequence + 1 \in 1..MaxCommits
    BY <1>1, CommitShape
  <2>2. candidates = {}
    BY <1>1 DEF Commit, AtRest
  <2> QED BY <2>1, <2>2, CommitMissed
<1>2. CASE ApplyOne
  <2>1. PICK n \in DOMAIN transactions :
             \/ Ready(n) /\ meta_wayland_transaction_apply(n)
             \/ /\ ~Ready(n)
                /\ candidates' = candidates \ {n}
                /\ UNCHANGED <<queueVars, barrierVars, timed, loopVars, worldVars, clockVars>>
    BY <1>2, ApplyOneCases
  <2>2. CASE Ready(n) /\ meta_wayland_transaction_apply(n)
    BY <2>2, ApplyMissed
  <2>3. CASE /\ ~Ready(n)
             /\ candidates' = candidates \ {n}
             /\ UNCHANGED <<queueVars, barrierVars, timed, loopVars, worldVars, clockVars>>
    <3>1. \A m : (Ready(m)' <=> Ready(m)) /\ (Excused(m)' <=> Excused(m))
      BY <2>3 DEF Ready, has_dependencies, Excused, Waits, Entries
    <3> QED BY <2>3, <3>1 DEF NoneMissed
  <2> QED BY <2>1, <2>2, <2>3
<1>3. CASE \E n \in 1..MaxCommits, s \in Surfaces : meta_wayland_transaction_dma_buf_dispatch(n, s)
  <2>1. PICK k, s : meta_wayland_transaction_dma_buf_dispatch(k, s)
    BY <1>3
  <2>2. /\ transactions' = [transactions EXCEPT ![k].buf_sources = @ \ {s}]
        /\ k \in DOMAIN transactions
        /\ candidates = {} /\ candidates' = {k}
        /\ UNCHANGED <<first_committed, fifo_barrier, visible>>
    BY <2>1 DEF meta_wayland_transaction_dma_buf_dispatch, AtRest
  <2>3. transactions'[k] = [transactions[k] EXCEPT !.buf_sources = transactions[k].buf_sources \ {s}]
    BY <2>2
  <2>4. transactions[k] = [entries |-> transactions[k].entries,
                           buf_sources |-> transactions[k].buf_sources,
                           target |-> transactions[k].target]
    BY <2>2 DEF QueueInv, Records
  <2>5. transactions'[k].entries = transactions[k].entries
    BY <2>3, <2>4
  <2>6. /\ DOMAIN transactions' = DOMAIN transactions
        /\ \A n \in DOMAIN transactions : Entries(n)' = Entries(n)
        /\ \A n \in DOMAIN transactions \ {k} : transactions'[n] = transactions[n]
    BY <2>2, <2>5 DEF Entries
  <2> QED BY <2>2, <2>6, MissedOne
<1>4. CASE meta_wayland_transaction_unblock_timed
  <2>1. /\ DOMAIN transactions' = DOMAIN transactions
        /\ \A n \in DOMAIN transactions :
             /\ Entries(n)' = Entries(n)
             /\ transactions'[n].buf_sources = transactions[n].buf_sources
             /\ transactions'[n].target = IF n = Head(timed) THEN 0 ELSE transactions[n].target
    BY <1>4, UnblockQueue
  <2>2. /\ candidates = {} /\ candidates' = {Head(timed)}
        /\ UNCHANGED <<first_committed, fifo_barrier, visible>>
    BY <1>4 DEF meta_wayland_transaction_unblock_timed
  <2> QED BY <2>1, <2>2, MissedOne
<1>5. CASE clear_barrier_for_stage_view_surfaces
  BY <1>5, ClearMissed
<1>6. CASE \E s \in Surfaces : VisibilityChange(s)
  BY <1>6, VisibilityMissed
<1>7. CASE \/ AfterUpdate \/ EndUpdate \/ Tick \/ UNCHANGED vars
           \/ \E v \in Views : BeforeUpdate(v) \/ OtherDamage(v) \/ Reschedule(v)
  <2>1. UNCHANGED <<transactions, first_committed, fifo_barrier, visible, candidates>>
    BY <1>7 DEF AfterUpdate, EndUpdate, Tick, vars, BeforeUpdate, OtherDamage, Reschedule
  <2>2. \A m : (Ready(m)' <=> Ready(m)) /\ (Excused(m)' <=> Excused(m))
    BY <2>1 DEF Ready, has_dependencies, Excused, Waits, Entries
  <2> QED BY <2>1, <2>2 DEF NoneMissed
<1> QED BY <1>1, <1>2, <1>3, <1>4, <1>5, <1>6, <1>7 DEF Next, Internal, Environment
-----------------------------------------------------------------------------
(***************************************************************************)
(* The theorems.                                                           *)
(***************************************************************************)

(* The inductive invariant. *)
TransactionInv == QueueInv /\ BarrierInv /\ TimedKnown /\ NoneMissed

(* It holds of every behaviour. *)
LEMMA TransactionInvariant == Spec => []TransactionInv
<1>1. Init => TransactionInv
  <2> SUFFICES ASSUME Init PROVE TransactionInv
    OBVIOUS
  <2>1. QueueInv
    BY QueueInit
  <2>2. BarrierInv
    BY DEF Init, BarrierInv, BarriersListed, Range, IsInjective
  <2>3. TimedKnown /\ NoneMissed
    BY DEF Init, TimedKnown, NoneMissed
  <2> QED BY <2>1, <2>2, <2>3 DEF TransactionInv
<1>2. TransactionInv /\ [Next]_vars => TransactionInv'
  BY ListsStep, TimedStep, MissedStep DEF TransactionInv
<1> QED BY <1>1, <1>2, PTL DEF Spec

(* The lists that transactions are kept in, of each surface and of the     *)
(* timed ones, agree with the transactions: none is lost, none is kept     *)
(* after it was freed, and all are in order.                               *)
THEOREM TransactionQueuesCorrect == Spec => []QueuesExact
<1>1. TransactionInv => QueuesExact
  BY DEF TransactionInv, QueueInv, QueuesExact
<1> QED BY <1>1, TransactionInvariant, PTL

(* A surface has a barrier exactly while it is in the compositor's list,   *)
(* once, also while an update walks a copy of that list.                   *)
THEOREM TransactionBarriersCorrect == Spec => []BarriersListed
<1>1. TransactionInv => BarriersListed
  BY DEF TransactionInv, BarrierInv
<1> QED BY <1>1, TransactionInvariant, PTL

(* A transaction that waits for a time has a frame clock that knows it, or *)
(* is overdue and has an update, under way or scheduled, or a frame clock  *)
(* with another time to tick for: clean_deferred_times strands none.       *)
THEOREM TransactionTimesCorrect == Spec => []TimedIsDriven
<1>1. TransactionInv => TimedIsDriven
  BY DEF TransactionInv, TimedKnown, Known, TimedIsDriven
<1> QED BY <1>1, TransactionInvariant, PTL

(* When the main loop rests no transaction that could be applied has been  *)
(* overlooked, but for those a hidden surface's barrier stopped holding.   *)
THEOREM TransactionNoneLeftBehind == Spec => []NoneLeftBehind
<1>1. TransactionInv => NoneLeftBehind
  BY DEF TransactionInv, NoneMissed, NoneLeftBehind, AtRest, Excused, Waits
<1> QED BY <1>1, TransactionInvariant, PTL
-----------------------------------------------------------------------------
(***************************************************************************)
(* The order of commits.                                                   *)
(***************************************************************************)

(* The surfaces of the transactions that are not applied yet. *)
Pending == [n \in DOMAIN transactions |-> DOMAIN Entries(n)]

(* Nothing is committed or shown at first. *)
LEMMA OrderInit == Init => Order!Init
<1> SUFFICES ASSUME Init PROVE Order!Init
  OBVIOUS
<1>1. DOMAIN transactions = {}
  BY DEF Init
<1>2. [n \in DOMAIN transactions |-> DOMAIN Entries(n)] = << >>
  BY <1>1
<1> QED BY <1>2 DEF Init, Order!Init

(* A step commits a transaction, shows one that no earlier one of a common *)
(* surface waits behind, or changes nothing the client can see.            *)
LEMMA OrderStep ==
    ASSUME TransactionInv, [Next]_vars
    PROVE  [Order!Next]_(Order!vars)
<1> USE DEF queueVars, barrierVars, loopVars, worldVars, clockVars
<1>0. QueueInv
  BY DEF TransactionInv
<1> DEFINE stays == /\ committed_sequence' = committed_sequence
                    /\ applied' = applied
                    /\ DOMAIN transactions' = DOMAIN transactions
                    /\ \A n \in DOMAIN transactions : DOMAIN Entries(n)' = DOMAIN Entries(n)
<1>s. ASSUME stays PROVE UNCHANGED Order!vars
  <2>1. Pending' = Pending
    BY <1>s DEF Pending
  <2> QED BY <1>s, <2>1 DEF Order!vars, Pending
<1>1. CASE Commit
  <2>1. PICK S \in SUBSET Surfaces : \E states \in [S -> Kinds] :
             \E unready \in SUBSET S : \E t \in 0..MaxTime : \E s \in Surfaces :
               Committed(states, unready, committed_sequence + 1, t, s)
    BY <1>0, <1>1, CommitShape
  <2>2. PICK states \in [S -> Kinds], unready \in SUBSET S,
             t \in 0..MaxTime, s \in Surfaces :
               Committed(states, unready, committed_sequence + 1, t, s)
    BY <2>1
  <2>n. PICK n \in Nat : n = committed_sequence + 1
    BY <1>0 DEF QueueInv, TypeOK
  <2>3. /\ committed_sequence' = n
        /\ DOMAIN transactions' = DOMAIN transactions \cup {n}
        /\ DOMAIN Entries(n)' = S
        /\ \A m \in DOMAIN transactions : DOMAIN Entries(m)' = DOMAIN Entries(m)
        /\ applied' = applied
    BY <2>2, <2>n DEF Committed, Entries
  <2>4. n \notin DOMAIN transactions
    BY <1>0, <2>n DEF QueueInv, TypeOK
  <2>5. Pending' = [m \in DOMAIN Pending \cup {committed_sequence'} |->
                      IF m = committed_sequence' THEN S ELSE Pending[m]]
    BY <2>3, <2>4 DEF Pending
  <2>6. Order!Commit(S)
    BY <2>n, <2>3, <2>5 DEF Order!Commit, Pending
  <2> QED BY <2>6 DEF Order!Next
<1>2. CASE ApplyOne
  <2>1. PICK n \in DOMAIN transactions :
             \/ Ready(n) /\ meta_wayland_transaction_apply(n)
             \/ /\ ~Ready(n)
                /\ candidates' = candidates \ {n}
                /\ UNCHANGED <<queueVars, barrierVars, timed, loopVars, worldVars, clockVars>>
    BY <1>0, <1>2, ApplyOneCases
  <2>2. CASE Ready(n) /\ meta_wayland_transaction_apply(n)
    <3>1. /\ transactions' = [m \in DOMAIN transactions \ {n} |-> transactions[m]]
          /\ applied' = [s \in Surfaces |-> IF s \in DOMAIN Entries(n) THEN n ELSE applied[s]]
          /\ committed_sequence' = committed_sequence
      BY <2>2 DEF meta_wayland_transaction_apply
    <3>2. Pending' = [m \in DOMAIN Pending \ {n} |-> Pending[m]]
      BY <3>1 DEF Pending, Entries
    <3>3. ASSUME NEW m \in DOMAIN transactions, m < n,
                 NEW s, s \in DOMAIN Entries(m), s \in DOMAIN Entries(n)
          PROVE  FALSE
      <4>1. s \in Surfaces /\ m \in Queue(s) /\ n \in Nat \ {0} /\ m \in Nat \ {0}
        BY <1>0, <3>3 DEF QueueInv, TypeOK, Queue, Touches
      <4>2. first_committed[s] = n
        BY <2>2, <3>3, ReadyProperties
      <4>3. Follows(Queue(s), n, 0)
        BY <1>0, <4>1, <4>2 DEF QueueInv, ChainsAgree
      <4> QED BY <3>3, <4>1, <4>3 DEF Follows
    <3>4. \A m \in DOMAIN Pending : m < n => Pending[m] \cap Pending[n] = {}
      BY <3>3 DEF Pending
    <3>5. Pending[n] = DOMAIN Entries(n) /\ n \in DOMAIN Pending
      BY DEF Pending
    <3>6. Order!Show(n)
      BY <3>1, <3>2, <3>4, <3>5 DEF Order!Show, Pending
    <3> QED BY <3>5, <3>6 DEF Order!Next, Pending
  <2>3. CASE UNCHANGED queueVars
    BY <1>s, <2>3 DEF Entries
  <2> QED BY <2>1, <2>2, <2>3
<1>3. CASE \E n \in 1..MaxCommits, s \in Surfaces : meta_wayland_transaction_dma_buf_dispatch(n, s)
  <2>1. PICK k, s : meta_wayland_transaction_dma_buf_dispatch(k, s)
    BY <1>3
  <2>2. /\ transactions' = [transactions EXCEPT ![k].buf_sources = @ \ {s}]
        /\ k \in DOMAIN transactions
        /\ UNCHANGED <<committed_sequence, applied>>
    BY <2>1 DEF meta_wayland_transaction_dma_buf_dispatch
  <2>3. transactions'[k] = [transactions[k] EXCEPT !.buf_sources = transactions[k].buf_sources \ {s}]
    BY <2>2
  <2>4. transactions[k] = [entries |-> transactions[k].entries,
                           buf_sources |-> transactions[k].buf_sources,
                           target |-> transactions[k].target]
    BY <1>0, <2>2 DEF QueueInv, Records
  <2>5. transactions'[k].entries = transactions[k].entries
    BY <2>3, <2>4
  <2> QED BY <1>s, <2>2, <2>5 DEF Entries
<1>4. CASE meta_wayland_transaction_unblock_timed
  <2>1. /\ DOMAIN transactions' = DOMAIN transactions
        /\ \A n \in DOMAIN transactions : Entries(n)' = Entries(n)
    BY <1>0, <1>4, UnblockQueue
  <2>2. UNCHANGED <<committed_sequence, applied>>
    BY <1>4 DEF meta_wayland_transaction_unblock_timed
  <2> QED BY <1>s, <2>1, <2>2
<1>5. CASE \/ AfterUpdate \/ EndUpdate \/ Tick \/ clear_barrier_for_stage_view_surfaces
           \/ UNCHANGED vars
           \/ \E s \in Surfaces : VisibilityChange(s)
           \/ \E v \in Views : BeforeUpdate(v) \/ OtherDamage(v) \/ Reschedule(v)
  <2>1. UNCHANGED queueVars
    BY <1>5 DEF AfterUpdate, EndUpdate, Tick, vars, VisibilityChange, BeforeUpdate, OtherDamage,
                Reschedule, clear_barrier_for_stage_view_surfaces
  <2> QED BY <1>s, <2>1 DEF Entries
<1> QED BY <1>1, <1>2, <1>3, <1>4, <1>5 DEF Next, Internal, Environment

(* The transactions implement the promise made to clients: each surface    *)
(* shows its commits whole, in order and each once.                        *)
THEOREM TransactionOrderCorrect == Spec => ImplementsCommitOrder
<1>1. Init => Order!Init
  BY OrderInit
<1>2. TransactionInv /\ [Next]_vars => [Order!Next]_(Order!vars)
  BY OrderStep
<1> QED BY <1>1, <1>2, TransactionInvariant, PTL DEF Spec, ImplementsCommitOrder, Order!Spec
=============================================================================
