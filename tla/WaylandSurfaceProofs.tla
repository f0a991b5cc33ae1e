------------------------- MODULE WaylandSurfaceProofs -------------------------
(***************************************************************************)
(* What WaylandSurface promises for any number of surfaces, commits and    *)
(* changes of the tree.                                                    *)
(***************************************************************************)
EXTENDS WaylandSurface, FiniteSetTheorems, SequenceTheorems, WellFoundedInduction, TLAPS

-----------------------------------------------------------------------------
(* Ancestors in a tree of surfaces *)
Parents == [Surfaces -> Surfaces \cup {None}]
Acyclic(P) == \A s \in Surfaces : P[s] # None => s \notin Ancestors(P, P[s])

(* The ancestors of s are the least set that has s and is closed. *)
LEMMA AncestorsLeast ==
    ASSUME NEW P \in Parents, NEW s \in Surfaces
    PROVE  /\ s \in Ancestors(P, s) /\ Ancestors(P, s) \subseteq Surfaces
           /\ ClosedUp(P, Ancestors(P, s))
           /\ \A X \in SUBSET Surfaces : s \in X /\ ClosedUp(P, X) => Ancestors(P, s) \subseteq X
<1>1. \A X \in SUBSET Surfaces : s \in X /\ ClosedUp(P, X) => Ancestors(P, s) \subseteq X
  BY DEF Ancestors
<1>2. s \in Ancestors(P, s) /\ Ancestors(P, s) \subseteq Surfaces
  BY DEF Ancestors
<1>3. ASSUME NEW x \in Ancestors(P, s), P[x] # None PROVE P[x] \in Ancestors(P, s)
  <2>1. x \in Surfaces /\ P[x] \in Surfaces
    BY <1>2, <1>3 DEF Parents
  <2> SUFFICES ASSUME NEW X \in SUBSET Surfaces, s \in X, ClosedUp(P, X) PROVE P[x] \in X
    BY <2>1 DEF Ancestors
  <2>2. x \in X
    BY <1>1
  <2> QED BY <1>3, <2>2 DEF ClosedUp
<1> QED BY <1>1, <1>2, <1>3 DEF ClosedUp

LEMMA AncestorsTransitive ==
    ASSUME NEW P \in Parents, NEW s \in Surfaces, NEW x \in Ancestors(P, s)
    PROVE  x \in Surfaces /\ Ancestors(P, x) \subseteq Ancestors(P, s)
<1>1. x \in Surfaces
  BY AncestorsLeast
<1> QED BY <1>1, AncestorsLeast

(* They are s and the ancestors of its parent. *)
LEMMA AncestorsStep ==
    ASSUME NEW P \in Parents, NEW s \in Surfaces
    PROVE  /\ P[s] = None => Ancestors(P, s) = {s}
           /\ P[s] # None => P[s] \in Surfaces /\ Ancestors(P, s) = {s} \cup Ancestors(P, P[s])
<1>1. ASSUME P[s] = None PROVE Ancestors(P, s) = {s}
  <2>1. ClosedUp(P, {s}) /\ {s} \in SUBSET Surfaces
    BY <1>1 DEF ClosedUp
  <2> QED BY <2>1, AncestorsLeast
<1>2. ASSUME P[s] # None PROVE P[s] \in Surfaces /\ Ancestors(P, s) = {s} \cup Ancestors(P, P[s])
  <2>1. P[s] \in Surfaces
    BY <1>2 DEF Parents
  <2> DEFINE X == {s} \cup Ancestors(P, P[s])
  <2>2. P[s] \in Ancestors(P, P[s]) /\ ClosedUp(P, Ancestors(P, P[s])) /\ Ancestors(P, P[s]) \subseteq Surfaces
    BY <2>1, AncestorsLeast
  <2>3. ClosedUp(P, X) /\ X \in SUBSET Surfaces
    BY <2>2 DEF ClosedUp
  <2>4. Ancestors(P, s) \subseteq X
    BY <2>3, AncestorsLeast
  <2>5. s \in Ancestors(P, s) /\ P[s] \in Ancestors(P, s)
    BY <1>2, AncestorsLeast DEF ClosedUp
  <2>6. Ancestors(P, P[s]) \subseteq Ancestors(P, s)
    BY <2>5, AncestorsTransitive
  <2> QED BY <2>1, <2>4, <2>5, <2>6
<1> QED BY <1>1, <1>2

(* Of two ancestors of a surface, one is an ancestor of the other. *)
LEMMA AncestorsComparable ==
    ASSUME NEW P \in Parents, NEW s \in Surfaces, NEW r \in Ancestors(P, s), NEW q \in Ancestors(P, s)
    PROVE  r \in Ancestors(P, q) \/ q \in Ancestors(P, r)
<1> DEFINE X == {x \in Surfaces : r \in Ancestors(P, x) \/ x \in Ancestors(P, r)}
<1>1. r \in Surfaces /\ q \in Surfaces /\ s \in X
  BY AncestorsLeast
<1>2. ASSUME NEW x \in X, P[x] # None PROVE P[x] \in X
  <2>1. x \in Surfaces
    OBVIOUS
  <2>2. P[x] \in Surfaces /\ Ancestors(P, x) = {x} \cup Ancestors(P, P[x])
    BY <1>2, <2>1, AncestorsStep
  <2>3. ClosedUp(P, Ancestors(P, r)) /\ r \in Ancestors(P, r)
    BY <1>1, AncestorsLeast
  <2>4. x \in Ancestors(P, r) => P[x] \in Ancestors(P, r)
    BY <1>2, <2>3 DEF ClosedUp
  <2> QED BY <2>2, <2>3, <2>4
<1>3. X \in SUBSET Surfaces /\ ClosedUp(P, X)
  BY <1>2 DEF ClosedUp
<1> HIDE DEF X
<1>4. q \in X
  BY <1>1, <1>3, AncestorsLeast
<1> QED BY <1>4 DEF X

(* Without cycles, not both. *)
LEMMA AncestorsAntisymmetric ==
    ASSUME NEW P \in Parents, Acyclic(P), NEW q \in Surfaces, NEW r \in Ancestors(P, q),
           q \in Ancestors(P, r)
    PROVE  r = q
<1> SUFFICES ASSUME r # q PROVE FALSE
  OBVIOUS
<1>1. P[q] # None /\ P[q] \in Surfaces /\ r \in Ancestors(P, P[q])
  BY AncestorsStep
<1>2. q \in Ancestors(P, P[q])
  BY <1>1, AncestorsTransitive
<1> QED BY <1>1, <1>2 DEF Acyclic

(* A child is no ancestor of its parent. *)
LEMMA ChildBelow ==
    ASSUME NEW P \in Parents, Acyclic(P), NEW c \in Surfaces, P[c] # None
    PROVE  /\ P[c] \in Surfaces /\ c # P[c]
           /\ c \notin Ancestors(P, P[c])
           /\ P[c] \in Ancestors(P, c)
           /\ Ancestors(P, c) = {c} \cup Ancestors(P, P[c])
<1>1. P[c] \in Surfaces /\ Ancestors(P, c) = {c} \cup Ancestors(P, P[c])
  BY AncestorsStep
<1>2. P[c] \in Ancestors(P, P[c])
  BY <1>1, AncestorsLeast
<1> QED BY <1>1, <1>2 DEF Acyclic

(* A surface without a parent is given p, of which it is no ancestor. *)
LEMMA AncestorsLinked ==
    ASSUME NEW P \in Parents, Acyclic(P), NEW s \in Surfaces, NEW p \in Surfaces,
           P[s] = None, s \notin Ancestors(P, p)
    PROVE  LET Q == [P EXCEPT ![s] = p]
           IN  /\ Q \in Parents /\ Acyclic(Q)
               /\ \A x \in Surfaces : Ancestors(P, x) \subseteq Ancestors(Q, x)
<1> DEFINE Q == [P EXCEPT ![s] = p]
<1>1. Q \in Parents /\ Q[s] = p /\ \A x \in Surfaces \ {s} : Q[x] = P[x]
  BY DEF Parents
<1> HIDE DEF Q
<1>2. \A X \in SUBSET Surfaces : ClosedUp(Q, X) => ClosedUp(P, X)
  BY <1>1 DEF ClosedUp
<1>3. ASSUME NEW x \in Surfaces PROVE Ancestors(P, x) \subseteq Ancestors(Q, x)
  BY <1>1, <1>2, AncestorsLeast
<1>4. ASSUME NEW x \in Surfaces
      PROVE  /\ Ancestors(Q, x) \subseteq Ancestors(P, x) \cup Ancestors(P, p)
             /\ s \notin Ancestors(P, x) => Ancestors(Q, x) \subseteq Ancestors(P, x)
  <2> DEFINE X == Ancestors(P, x)
             Y == Ancestors(P, p)
  <2>1. /\ X \subseteq Surfaces /\ x \in X /\ ClosedUp(P, X)
        /\ Y \subseteq Surfaces /\ p \in Y /\ ClosedUp(P, Y)
    BY AncestorsLeast
  <2> HIDE DEF X, Y
  <2>2. ClosedUp(Q, X \cup Y)
    BY <1>1, <2>1 DEF ClosedUp
  <2>3. s \notin X => ClosedUp(Q, X)
    BY <1>1, <2>1 DEF ClosedUp
  <2>4. X \cup Y \in SUBSET Surfaces /\ X \in SUBSET Surfaces
    BY <2>1
  <2>5. \A Z \in SUBSET Surfaces : x \in Z /\ ClosedUp(Q, Z) => Ancestors(Q, x) \subseteq Z
    BY <1>1, AncestorsLeast
  <2> QED BY <2>1, <2>2, <2>3, <2>4, <2>5 DEF X, Y
<1>5. ASSUME NEW x \in Surfaces, Q[x] # None PROVE x \notin Ancestors(Q, Q[x])
  <2>1. CASE x = s
    BY <1>1, <1>4, <2>1
  <2>2. CASE x # s
    <3>1. P[x] = Q[x] /\ P[x] \in Surfaces
      BY <1>1, <1>5, <2>2, AncestorsStep
    <3>2. x \notin Ancestors(P, P[x])
      BY <1>5, <3>1 DEF Acyclic
    <3>3. SUFFICES ASSUME s \in Ancestors(P, P[x]), x \in Ancestors(P, p) PROVE FALSE
      BY <1>4, <3>1, <3>2
    <3>4. P[x] \in Ancestors(P, p)
      BY <1>5, <3>1, <3>3, AncestorsLeast DEF ClosedUp
    <3> QED BY <3>3, <3>4, AncestorsTransitive
  <2> QED BY <2>1, <2>2
<1> QED BY <1>1, <1>3, <1>5 DEF Acyclic, Q

(* A surface is taken from its parent. *)
LEMMA AncestorsUnlinked ==
    ASSUME NEW P \in Parents, Acyclic(P), NEW s \in Surfaces
    PROVE  LET Q == [P EXCEPT ![s] = None]
           IN  /\ Q \in Parents /\ Acyclic(Q)
               /\ \A x \in Surfaces :
                    /\ s \in Ancestors(P, x) => s \in Ancestors(Q, x)
                    /\ s \notin Ancestors(P, x) => Ancestors(Q, x) = Ancestors(P, x)
<1> DEFINE Q == [P EXCEPT ![s] = None]
<1>1. Q \in Parents /\ Q[s] = None /\ \A x \in Surfaces \ {s} : Q[x] = P[x]
  BY DEF Parents
<1> HIDE DEF Q
<1>2. \A X \in SUBSET Surfaces : /\ ClosedUp(P, X) => ClosedUp(Q, X)
                                 /\ ClosedUp(Q, X) /\ s \notin X => ClosedUp(P, X)
  BY <1>1 DEF ClosedUp
<1>3. ASSUME NEW x \in Surfaces
      PROVE  /\ Ancestors(Q, x) \subseteq Ancestors(P, x)
             /\ s \notin Ancestors(Q, x) => Ancestors(Q, x) = Ancestors(P, x)
  <2>1. /\ Ancestors(Q, x) \in SUBSET Surfaces /\ x \in Ancestors(Q, x) /\ ClosedUp(Q, Ancestors(Q, x))
        /\ Ancestors(P, x) \in SUBSET Surfaces /\ x \in Ancestors(P, x) /\ ClosedUp(P, Ancestors(P, x))
    BY <1>1, AncestorsLeast
  <2>2. Ancestors(Q, x) \subseteq Ancestors(P, x)
    BY <1>1, <1>2, <2>1, AncestorsLeast
  <2>3. s \notin Ancestors(Q, x) => Ancestors(P, x) \subseteq Ancestors(Q, x)
    BY <1>2, <2>1, AncestorsLeast
  <2> QED BY <2>2, <2>3
<1>4. Acyclic(Q)
  <2> SUFFICES ASSUME NEW x \in Surfaces, Q[x] # None PROVE x \notin Ancestors(Q, Q[x])
    BY DEF Acyclic
  <2>1. Q[x] = P[x] /\ Q[x] \in Surfaces
    BY <1>1, AncestorsStep
  <2> QED BY <1>3, <2>1 DEF Acyclic
<1> QED BY <1>1, <1>3, <1>4 DEF Q

-----------------------------------------------------------------------------
(* Lists of surfaces *)
LEMMA InList ==
    ASSUME NEW S, NEW q \in Seq(S)
    PROVE  /\ Len(q) \in Nat /\ DOMAIN q = 1..Len(q) /\ Range(q) \subseteq S
           /\ \A x : x \in Range(q) <=> \E i \in 1..Len(q) : x = q[i]
           /\ \A i \in 1..Len(q) : q[i] \in S
<1>1. Len(q) \in Nat /\ DOMAIN q = 1..Len(q) /\ \A i \in 1..Len(q) : q[i] \in S
  BY LenProperties
<1> QED BY <1>1 DEF Range

LEMMA RemoveAtProperties ==
    ASSUME NEW S, NEW q \in Seq(S), NEW i \in 1..Len(q)
    PROVE  /\ RemoveAt(q, i) \in Seq(S)
           /\ Len(RemoveAt(q, i)) = Len(q) - 1
           /\ \A j \in 1..Len(q) - 1 : RemoveAt(q, i)[j] = IF j < i THEN q[j] ELSE q[j + 1]
<1> DEFINE a == SubSeq(q, 1, i - 1)
           c == SubSeq(q, i + 1, Len(q))
<1>1. Len(q) \in Nat /\ \A j \in 1..Len(q) : q[j] \in S
  BY LenProperties
<1>2. /\ a \in Seq(S) /\ Len(a) = i - 1
      /\ \A j \in 1..i - 1 : a[j] = q[j]
  BY <1>1, SubSeqProperties
<1>3. /\ c \in Seq(S) /\ Len(c) = Len(q) - i
      /\ \A j \in 1..Len(q) - i : c[j] = q[i + j]
  <2>1. i + 1 \in 1..Len(q) + 1 /\ Len(q) - (i + 1) + 1 = Len(q) - i
    BY <1>1
  <2>2. /\ c \in Seq(S)
        /\ Len(c) = IF i + 1 <= Len(q) THEN Len(q) - (i + 1) + 1 ELSE 0
        /\ \A j \in 1..Len(q) - (i + 1) + 1 : c[j] = q[(i + 1) + j - 1]
    BY <1>1, <2>1, SubSeqProperties
  <2>3. \A j \in 1..Len(q) - i : (i + 1) + j - 1 = i + j
    BY <1>1
  <2> HIDE DEF c
  <2>4. Len(c) = Len(q) - i
    BY <1>1, <2>2
  <2>5. 1..Len(q) - (i + 1) + 1 = 1..Len(q) - i
    BY <1>1, <2>1
  <2>6. \A j \in 1..Len(q) - i : c[j] = q[(i + 1) + j - 1]
    BY <2>2, <2>5, Zenon
  <2> QED BY <2>2, <2>3, <2>4, <2>6
<1> HIDE DEF a, c
<1>4. /\ a \o c \in Seq(S) /\ Len(a \o c) = Len(a) + Len(c)
      /\ \A j \in 1..Len(a) + Len(c) : (a \o c)[j] = IF j <= Len(a) THEN a[j] ELSE c[j - Len(a)]
  BY <1>2, <1>3, ConcatProperties, Zenon
<1>5. Len(a) + Len(c) = Len(q) - 1
  BY <1>1, <1>2, <1>3
<1>6. ASSUME NEW j \in 1..Len(q) - 1
      PROVE  (a \o c)[j] = IF j < i THEN q[j] ELSE q[j + 1]
  <2>1. CASE j < i
    <3>1. j <= Len(a) /\ j \in 1..i - 1
      BY <1>2, <2>1
    <3> QED BY <1>2, <1>4, <1>5, <2>1, <3>1
  <2>2. CASE ~(j < i)
    <3>1. ~(j <= Len(a)) /\ j - Len(a) \in 1..Len(q) - i /\ i + (j - Len(a)) = j + 1
      BY <1>1, <1>2, <2>2
    <3> QED BY <1>3, <1>4, <1>5, <2>2, <3>1
  <2> QED BY <2>1, <2>2
<1> QED BY <1>4, <1>5, <1>6 DEF RemoveAt, a, c

LEMMA InsertAtProperties ==
    ASSUME NEW S, NEW q \in Seq(S), NEW i \in 1..Len(q) + 1, NEW e \in S
    PROVE  /\ InsertAt(q, i, e) \in Seq(S)
           /\ Len(InsertAt(q, i, e)) = Len(q) + 1
           /\ \A j \in 1..Len(q) + 1 :
                InsertAt(q, i, e)[j] = IF j < i THEN q[j] ELSE IF j = i THEN e ELSE q[j - 1]
<1> DEFINE a == SubSeq(q, 1, i - 1)
           c == SubSeq(q, i, Len(q))
<1>1. Len(q) \in Nat /\ \A j \in 1..Len(q) : q[j] \in S
  BY LenProperties
<1>2. /\ a \in Seq(S) /\ Len(a) = i - 1
      /\ \A j \in 1..i - 1 : a[j] = q[j]
  BY <1>1, SubSeqProperties
<1>3. /\ c \in Seq(S) /\ Len(c) = Len(q) - i + 1
      /\ \A j \in 1..Len(q) - i + 1 : c[j] = q[i + j - 1]
  BY <1>1, SubSeqProperties
<1>4. <<e>> \in Seq(S) /\ Len(<<e>>) = 1 /\ <<e>>[1] = e
  OBVIOUS
<1> HIDE DEF a, c
<1>5. /\ a \o <<e>> \in Seq(S) /\ Len(a \o <<e>>) = i
      /\ \A j \in 1..i : (a \o <<e>>)[j] = IF j < i THEN q[j] ELSE e
  BY <1>2, <1>4, ConcatProperties
<1> DEFINE f == a \o <<e>>
<1>f. f \in Seq(S) /\ Len(f) = i /\ \A j \in 1..i : f[j] = IF j < i THEN q[j] ELSE e
  BY <1>5
<1> HIDE DEF f
<1>6. /\ f \o c \in Seq(S)
      /\ Len(f \o c) = Len(f) + Len(c)
      /\ \A j \in 1..Len(f) + Len(c) : (f \o c)[j] = IF j <= Len(f) THEN f[j] ELSE c[j - Len(f)]
  BY <1>3, <1>f, ConcatProperties, Zenon
<1>7. Len(f) = i /\ Len(f) + Len(c) = Len(q) + 1
  BY <1>3, <1>f
<1>8. ASSUME NEW j \in 1..(Len(q) + 1)
      PROVE  (f \o c)[j] = IF j < i THEN q[j] ELSE IF j = i THEN e ELSE q[j - 1]
  <2>1. j <= i => (f \o c)[j] = IF j < i THEN q[j] ELSE e
    BY <1>1, <1>f, <1>6, <1>7
  <2>2. ASSUME j > i PROVE (f \o c)[j] = q[j - 1]
    <3>1. j - i \in 1..Len(q) - i + 1 /\ i + (j - i) - 1 = j - 1
      BY <2>2
    <3>2. c[j - i] = q[j - 1]
      BY <1>3, <3>1
    <3>3. (f \o c)[j] = c[j - i]
      BY <1>6, <1>7, <2>2
    <3> QED BY <1>1, <2>2, <3>2, <3>3
  <2>3. j <= i \/ j > i
    OBVIOUS
  <2>4. j <= i => (j < i \/ j = i)
    OBVIOUS
  <2>5. j > i => ~(j < i) /\ ~(j = i)
    OBVIOUS
  <2> QED BY <2>1, <2>2, <2>3, <2>4, <2>5, Zenon
<1> QED BY <1>6, <1>7, <1>8 DEF InsertAt, a, c, f

(* An element of a list of different ones is taken out. *)
LEMMA UnlinkProperties ==
    ASSUME NEW S, NEW q \in Seq(S), IsInjective(q), NEW x
    PROVE  /\ Unlink(q, x) \in Seq(S) /\ IsInjective(Unlink(q, x))
           /\ Range(Unlink(q, x)) = Range(q) \ {x}
<1>1. CASE x \notin Range(q)
  BY <1>1 DEF Unlink
<1>2. CASE x \in Range(q)
  <2> DEFINE i == Position(q, x)
             u == RemoveAt(q, i)
  <2>1. Len(q) \in Nat /\ DOMAIN q = 1..Len(q)
    BY InList
  <2>2. i \in 1..Len(q) /\ q[i] = x
    BY <1>2, <2>1 DEF Position, Range
  <2> HIDE DEF i
  <2>3. /\ u \in Seq(S) /\ Len(u) = Len(q) - 1
        /\ \A j \in 1..Len(q) - 1 : u[j] = IF j < i THEN q[j] ELSE q[j + 1]
    BY <2>2, RemoveAtProperties
  <2>4. Unlink(q, x) = u
    BY <1>2 DEF Unlink, i
  <2> HIDE DEF u
  <2>5. DOMAIN u = 1..Len(q) - 1
    BY <2>3, LenProperties
  <2> DEFINE old(j) == IF j < i THEN j ELSE j + 1
  <2>6. \A j \in 1..Len(q) - 1 : old(j) \in 1..Len(q) /\ old(j) # i /\ u[j] = q[old(j)]
    BY <2>1, <2>2, <2>3
  <2>7. \A j, k \in 1..Len(q) - 1 : old(j) = old(k) => j = k
    BY <2>1, <2>2
  <2>8. \A j \in 1..Len(q) \ {i} : \E k \in 1..Len(q) - 1 : old(k) = j
    <3> TAKE j \in 1..Len(q) \ {i}
    <3>1. CASE j < i
      BY <2>1, <2>2, <3>1
    <3>2. CASE j > i
      <4>1. j - 1 \in 1..Len(q) - 1 /\ old(j - 1) = j
        BY <2>1, <2>2, <3>2
      <4> QED BY <4>1
    <3> QED BY <2>1, <2>2, <3>1, <3>2
  <2> HIDE DEF old
  <2>9. IsInjective(u)
    BY <2>1, <2>5, <2>6, <2>7 DEF IsInjective
  <2>10. Range(u) = Range(q) \ {x}
    <3>1. Range(u) \subseteq Range(q) \ {x}
      BY <2>1, <2>2, <2>5, <2>6 DEF IsInjective, Range
    <3>2. Range(q) \ {x} \subseteq Range(u)
      <4> SUFFICES ASSUME NEW j \in 1..Len(q), q[j] # x PROVE q[j] \in Range(u)
        BY <2>1 DEF Range
      <4>1. PICK k \in 1..Len(q) - 1 : old(k) = j
        BY <2>2, <2>8
      <4>2. u[k] = q[j]
        BY <2>6, <4>1
      <4> QED BY <2>5, <4>2 DEF Range
    <3> QED BY <3>1, <3>2
  <2> QED BY <2>3, <2>4, <2>9, <2>10
<1> QED BY <1>1, <1>2

(* A new element is put into it. *)
LEMMA InsertDifferent ==
    ASSUME NEW S, NEW q \in Seq(S), IsInjective(q), NEW e \in S, e \notin Range(q),
           NEW i \in 1..Len(q) + 1
    PROVE  /\ InsertAt(q, i, e) \in Seq(S) /\ IsInjective(InsertAt(q, i, e))
           /\ Range(InsertAt(q, i, e)) = Range(q) \cup {e}
<1> DEFINE u == InsertAt(q, i, e)
<1>1. Len(q) \in Nat /\ DOMAIN q = 1..Len(q)
  BY InList
<1>2. /\ u \in Seq(S) /\ Len(u) = Len(q) + 1
      /\ \A j \in 1..Len(q) + 1 : u[j] = IF j < i THEN q[j] ELSE IF j = i THEN e ELSE q[j - 1]
  <2>1. i \in 1..Len(q) + 1 /\ e \in S /\ q \in Seq(S)
    OBVIOUS
  <2> QED BY <2>1, InsertAtProperties
<1> HIDE DEF u
<1>3. DOMAIN u = 1..Len(q) + 1
  BY <1>2, LenProperties
<1> DEFINE old(j) == IF j < i THEN j ELSE j - 1
<1>4. \A j \in 1..Len(q) + 1 : IF j = i THEN u[j] = e ELSE old(j) \in 1..Len(q) /\ u[j] = q[old(j)]
  BY <1>1, <1>2
<1>5. \A j, k \in (1..Len(q) + 1) \ {i} : old(j) = old(k) => j = k
  BY <1>1
<1>6. \A j \in 1..Len(q) : \E k \in (1..Len(q) + 1) \ {i} : old(k) = j
  <2> TAKE j \in 1..Len(q)
  <2>1. CASE j < i
    <3>1. j \in (1..Len(q) + 1) \ {i} /\ old(j) = j
      BY <1>1, <2>1
    <3> QED BY <3>1
  <2>2. CASE ~(j < i)
    <3>1. j + 1 \in (1..Len(q) + 1) \ {i} /\ old(j + 1) = j
      BY <1>1, <2>2
    <3> QED BY <3>1
  <2> QED BY <2>1, <2>2
<1>7. i \in 1..Len(q) + 1
  OBVIOUS
<1> HIDE DEF old
<1>8. IsInjective(u)
  <2> SUFFICES ASSUME NEW j \in 1..Len(q) + 1, NEW k \in 1..Len(q) + 1, u[j] = u[k] PROVE j = k
    BY <1>3 DEF IsInjective
  <2>1. \A m \in 1..Len(q) : q[m] # e
    BY <1>1 DEF Range
  <2> QED BY <1>1, <1>4, <1>5, <2>1 DEF IsInjective
<1>9. Range(u) = Range(q) \cup {e}
  <2>1. Range(u) \subseteq Range(q) \cup {e}
    BY <1>1, <1>3, <1>4 DEF Range
  <2>2. Range(q) \cup {e} \subseteq Range(u)
    BY <1>1, <1>3, <1>4, <1>6, <1>7, SMTT(40) DEF Range
  <2> QED BY <2>1, <2>2
<1> QED BY <1>2, <1>8, <1>9 DEF u

(* The lists of a finite set *)
LEMMA InjectionOnto ==
    ASSUME NEW T, IsFiniteSet(T), NEW f \in [1..Cardinality(T) -> T], IsInjective(f)
    PROVE  f \in Seq(T) /\ Range(f) = T
<1>1. Cardinality(T) \in Nat
  BY FS_CardinalityType
<1> DEFINE D == 1..Cardinality(T)
<1>2. IsFiniteSet(D) /\ Cardinality(D) = Cardinality(T)
  BY <1>1, FS_Interval
<1>3. f \in Injection(D, T)
  BY DEF Injection, IsInjective
<1> HIDE DEF D
<1>4. f \in Surjection(D, T)
  BY <1>2, <1>3, FS_Injection
<1>5. Range(f) = T
  BY <1>4 DEF Surjection, Range, D
<1>6. f \in Seq(T)
  BY <1>1 DEF D
<1> QED BY <1>5, <1>6

LEMMA SetToSeqProperties ==
    ASSUME NEW T, IsFiniteSet(T)
    PROVE  SetToSeq(T) \in Seq(T) /\ IsInjective(SetToSeq(T)) /\ Range(SetToSeq(T)) = T
<1>1. PICK f : f \in Bijection(1..Cardinality(T), T)
  BY FS_CardinalityType DEF ExistsBijection
<1>2. f \in [1..Cardinality(T) -> T] /\ IsInjective(f)
  BY <1>1 DEF Bijection, Injection, IsInjective
<1>3. SetToSeq(T) \in [1..Cardinality(T) -> T] /\ IsInjective(SetToSeq(T))
  BY <1>2 DEF SetToSeq
<1> HIDE DEF SetToSeq
<1> QED BY <1>3, InjectionOnto

LEMMA OwnFirst ==
    ASSUME NEW S, NEW q \in Seq(S), IsInjective(q), NEW e \in S, e \notin Range(q)
    PROVE  /\ <<e>> \o q \in Seq(S) /\ IsInjective(<<e>> \o q)
           /\ Range(<<e>> \o q) = {e} \cup Range(q)
<1> DEFINE u == <<e>> \o q
<1>1. Len(q) \in Nat /\ DOMAIN q = 1..Len(q)
  BY InList
<1>2. <<e>> \in Seq(S) /\ Len(<<e>>) = 1 /\ <<e>>[1] = e
  OBVIOUS
<1>3. /\ u \in Seq(S) /\ Len(u) = 1 + Len(q)
      /\ \A j \in 1..1 + Len(q) : u[j] = IF j <= 1 THEN <<e>>[j] ELSE q[j - 1]
  BY <1>2, ConcatProperties
<1> HIDE DEF u
<1>4. DOMAIN u = 1..Len(q) + 1
  BY <1>1, <1>3, LenProperties
<1>5. u[1] = e /\ 1 \in 1..Len(q) + 1
  BY <1>1, <1>2, <1>3
<1>6. \A j \in (1..Len(q) + 1) \ {1} : j - 1 \in 1..Len(q) /\ u[j] = q[j - 1]
  BY <1>1, <1>3
<1>7. \A j \in 1..Len(q) : j + 1 \in (1..Len(q) + 1) \ {1} /\ (j + 1) - 1 = j
  BY <1>1
<1>8. IsInjective(u)
  <2> SUFFICES ASSUME NEW j \in 1..Len(q) + 1, NEW k \in 1..Len(q) + 1, u[j] = u[k] PROVE j = k
    BY <1>4 DEF IsInjective
  <2>1. \A m \in 1..Len(q) : q[m] # e
    BY <1>1 DEF Range
  <2>2. j # 1 /\ k # 1 => j - 1 = k - 1
    BY <1>1, <1>6 DEF IsInjective
  <2>3. (j = 1) <=> (k = 1)
    BY <1>5, <1>6, <2>1
  <2>4. j - 1 = k - 1 => j = k
    OBVIOUS
  <2> QED BY <2>2, <2>3, <2>4
<1>9. Range(u) = {e} \cup Range(q)
  <2>1. Range(u) \subseteq {e} \cup Range(q)
    BY <1>1, <1>4, <1>5, <1>6 DEF Range
  <2>2. Range(q) \subseteq Range(u)
    <3> SUFFICES ASSUME NEW j \in 1..Len(q) PROVE q[j] \in Range(u)
      BY <1>1 DEF Range
    <3>1. u[j + 1] = q[j] /\ j + 1 \in DOMAIN u
      BY <1>4, <1>6, <1>7
    <3> QED BY <3>1 DEF Range
  <2>3. e \in Range(u)
    BY <1>4, <1>5 DEF Range
  <2> QED BY <2>1, <2>2, <2>3
<1> QED BY <1>3, <1>8, <1>9 DEF u

-----------------------------------------------------------------------------
(* The tree of surfaces *)
TreeInv ==
    /\ committed \in Parents /\ committed[Toplevel] = None /\ Acyclic(committed)
    /\ synchronous \in [Surfaces -> BOOLEAN] /\ ~synchronous[Toplevel]
    /\ stack \in [Surfaces -> Seq(Surfaces)]
    /\ TreeAgrees

LEMMA SurfacesFinite == IsFiniteSet(Surfaces) /\ Toplevel \in Surfaces /\ Subsurfaces \subseteq Surfaces
BY SurfaceAssumption, FS_AddElement DEF Surfaces

LEMMA InitTree == Init => TreeInv
<1> SUFFICES ASSUME Init PROVE TreeInv
  OBVIOUS
<1>1. committed \in Parents /\ committed[Toplevel] = None /\ Acyclic(committed)
  BY SurfaceAssumption DEF Init, Parents, Acyclic
<1>2. synchronous \in [Surfaces -> BOOLEAN] /\ ~synchronous[Toplevel]
  <2>1. synchronous = [s \in Surfaces |-> s \in Subsurfaces]
    BY DEF Init
  <2>2. Toplevel \in Surfaces /\ Toplevel \notin Subsurfaces
    BY SurfaceAssumption, SurfacesFinite
  <2>3. synchronous[Toplevel] = (Toplevel \in Subsurfaces)
    BY <2>1, <2>2
  <2>4. \A s \in Surfaces : (s \in Subsurfaces) \in BOOLEAN
    OBVIOUS
  <2> QED BY <2>1, <2>2, <2>3, <2>4
<1>3. ASSUME NEW s \in Surfaces
      PROVE  /\ stack[s] \in Seq(Surfaces) /\ IsInjective(stack[s])
             /\ Range(stack[s]) = {s} \cup {c \in Subsurfaces : committed[c] = s}
  <2> DEFINE T == {c \in Subsurfaces : InitialParent[c] = s}
             q == SetToSeq(T)
  <2>1. IsFiniteSet(T) /\ T \subseteq Surfaces
    BY SurfacesFinite, FS_Subset
  <2>2. s \notin T
    <3> SUFFICES ASSUME InitialParent[s] = s PROVE FALSE
      OBVIOUS
    <3>1. committed[s] = s /\ s # None
      BY SurfaceAssumption DEF Init
    <3> QED BY <1>1, <3>1, ChildBelow
  <2>3. stack[s] = <<s>> \o q /\ \A c \in Subsurfaces : committed[c] = InitialParent[c]
    BY DEF Init
  <2> HIDE DEF T
  <2>4. q \in Seq(T) /\ IsInjective(q) /\ Range(q) = T
    BY <2>1, SetToSeqProperties
  <2> HIDE DEF q
  <2>5. q \in Seq(Surfaces)
    BY <2>1, <2>4
  <2>6. /\ <<s>> \o q \in Seq(Surfaces) /\ IsInjective(<<s>> \o q)
        /\ Range(<<s>> \o q) = {s} \cup Range(q)
    BY <2>2, <2>4, <2>5, OwnFirst
  <2> QED BY <2>3, <2>4, <2>6 DEF T
<1>4. stack \in [Surfaces -> Seq(Surfaces)]
  <2>1. stack = [s \in Surfaces |-> stack[s]]
    BY DEF Init
  <2> QED BY <1>3, <2>1
<1> QED BY <1>1, <1>2, <1>3, <1>4 DEF TreeInv, TreeAgrees

(* Unlinked takes s out of every list but its own. *)
LEMMA UnlinkedProperties ==
    ASSUME TreeInv, NEW s \in Surfaces
    PROVE  /\ Unlinked(s) \in [Surfaces -> Seq(Surfaces)]
           /\ \A p \in Surfaces : /\ IsInjective(Unlinked(s)[p])
                                  /\ Range(Unlinked(s)[p]) = IF p = s THEN Range(stack[p])
                                                             ELSE Range(stack[p]) \ {s}
<1>1. ASSUME NEW p \in Surfaces
      PROVE  /\ Unlinked(s)[p] \in Seq(Surfaces) /\ IsInjective(Unlinked(s)[p])
             /\ Range(Unlinked(s)[p]) = IF p = s THEN Range(stack[p]) ELSE Range(stack[p]) \ {s}
  <2>1. stack[p] \in Seq(Surfaces) /\ IsInjective(stack[p])
    BY DEF TreeInv, TreeAgrees
  <2>2. Unlinked(s)[p] = IF p = s THEN stack[p] ELSE Unlink(stack[p], s)
    BY DEF Unlinked
  <2>3. CASE p = s
    BY <2>1, <2>2, <2>3
  <2>4. CASE p # s
    <3>1. Unlinked(s)[p] = Unlink(stack[p], s)
      BY <2>2, <2>4
    <3>2. /\ Unlink(stack[p], s) \in Seq(Surfaces) /\ IsInjective(Unlink(stack[p], s))
          /\ Range(Unlink(stack[p], s)) = Range(stack[p]) \ {s}
      BY <2>1, UnlinkProperties
    <3> QED BY <2>4, <3>1, <3>2
  <2> QED BY <2>3, <2>4
<1>2. Unlinked(s) = [p \in Surfaces |-> Unlinked(s)[p]]
  BY DEF Unlinked
<1> QED BY <1>1, <1>2

(* What PlaceBeside does to the lists *)
LEMMA Placed ==
    ASSUME TreeInv, NEW s \in Surfaces, NEW parent \in Surfaces, parent # s,
           NEW sibling \in Range(stack[parent]) \ {s}, NEW above,
           PlaceBeside(s, parent, sibling, above)
    PROVE  /\ stack' \in [Surfaces -> Seq(Surfaces)]
           /\ \A p \in Surfaces : /\ IsInjective(stack'[p])
                                  /\ Range(stack'[p]) = IF p = s THEN Range(stack[p])
                                                        ELSE IF p = parent THEN Range(stack[p]) \cup {s}
                                                        ELSE Range(stack[p]) \ {s}
<1> DEFINE rest == Unlinked(s)
           at == Position(rest[parent], sibling)
           i == IF above THEN at + 1 ELSE at
           q == InsertAt(rest[parent], i, s)
<1>1. stack' = [rest EXCEPT ![parent] = q]
  BY DEF PlaceBeside
<1>2. /\ rest \in [Surfaces -> Seq(Surfaces)]
      /\ \A p \in Surfaces : /\ IsInjective(rest[p])
                             /\ Range(rest[p]) = IF p = s THEN Range(stack[p]) ELSE Range(stack[p]) \ {s}
  BY UnlinkedProperties
<1> HIDE DEF rest
<1>3. rest[parent] \in Seq(Surfaces) /\ s \notin Range(rest[parent]) /\ sibling \in Range(rest[parent])
  BY <1>2
<1>4. at \in 1..Len(rest[parent]) /\ Len(rest[parent]) \in Nat
  BY <1>3, InList DEF Position, Range
<1> HIDE DEF at
<1>5. i \in 1..Len(rest[parent]) + 1
  BY <1>4
<1> HIDE DEF i
<1>6. q \in Seq(Surfaces) /\ IsInjective(q) /\ Range(q) = Range(rest[parent]) \cup {s}
  BY <1>2, <1>3, <1>5, InsertDifferent
<1> HIDE DEF q
<1>7. /\ stack' \in [Surfaces -> Seq(Surfaces)] /\ stack'[parent] = q
      /\ \A p \in Surfaces \ {parent} : stack'[p] = rest[p]
  BY <1>1, <1>2, <1>6
<1>8. Range(q) = Range(stack[parent]) \cup {s}
  BY <1>2, <1>6
<1> QED BY <1>2, <1>6, <1>7, <1>8

LEMMA NextTree ==
    ASSUME TreeInv, [Next]_vars
    PROVE  TreeInv'
<1> USE SurfacesFinite
<1>1. ASSUME UNCHANGED treeVars PROVE TreeInv'
  BY <1>1 DEF TreeInv, TreeAgrees, treeVars
<1>2. ASSUME NEW s \in Surfaces, Commit(s) PROVE TreeInv'
  BY <1>1, <1>2 DEF Commit, meta_wayland_surface_commit
<1>3. ASSUME NEW s \in Subsurfaces, wl_subsurface_set_position(s) PROVE TreeInv'
  BY <1>1, <1>3 DEF wl_subsurface_set_position
<1>4. ASSUME NEW s \in Subsurfaces, wl_subsurface_set_sync(s) \/ wl_subsurface_set_desync(s)
      PROVE  TreeInv'
  <2>1. UNCHANGED <<committed, stack>> /\ \E b \in BOOLEAN : synchronous' = [synchronous EXCEPT ![s] = b]
    BY <1>4 DEF wl_subsurface_set_sync, wl_subsurface_set_desync
  <2>2. s # Toplevel
    BY SurfaceAssumption
  <2>3. synchronous' \in [Surfaces -> BOOLEAN] /\ ~synchronous'[Toplevel]
    BY <2>1, <2>2 DEF TreeInv
  <2> QED BY <2>1, <2>3 DEF TreeInv, TreeAgrees
<1>5. ASSUME NEW s \in Subsurfaces, NEW above \in BOOLEAN, subsurface_place(s, above)
      PROVE  TreeInv'
  <2> DEFINE parent == committed[s]
  <2>1. committed \in Parents /\ Acyclic(committed) /\ parent # None
    BY <1>5 DEF TreeInv, subsurface_place
  <2>2. parent \in Surfaces /\ parent # s
    BY <2>1, ChildBelow
  <2>3. PICK sibling \in Range(stack[parent]) \ {s} : PlaceBeside(s, parent, sibling, above)
    BY <1>5 DEF subsurface_place
  <2> HIDE DEF parent
  <2>4. UNCHANGED <<committed, synchronous>>
    BY <1>5 DEF subsurface_place
  <2>5. /\ stack' \in [Surfaces -> Seq(Surfaces)]
        /\ \A p \in Surfaces : /\ IsInjective(stack'[p])
                               /\ Range(stack'[p]) = IF p = s THEN Range(stack[p])
                                                     ELSE IF p = parent THEN Range(stack[p]) \cup {s}
                                                     ELSE Range(stack[p]) \ {s}
    <3>1. s \in Surfaces
      OBVIOUS
    <3> QED BY <2>2, <2>3, <3>1, Placed, Zenon
  <2>6. TreeAgrees'
    <3> SUFFICES ASSUME NEW p \in Surfaces
                 PROVE  Range(stack'[p]) = {p} \cup {c \in Subsurfaces : committed[c] = p}
      BY <2>4, <2>5 DEF TreeAgrees
    <3>1. Range(stack[p]) = {p} \cup {c \in Subsurfaces : committed[c] = p}
      BY DEF TreeInv, TreeAgrees
    <3> QED BY <2>5, <3>1 DEF parent
  <2> QED BY <2>4, <2>5, <2>6 DEF TreeInv
<1>6. ASSUME NEW s \in Subsurfaces, NEW parent \in Surfaces, wl_subcompositor_get_subsurface(s, parent)
      PROVE  TreeInv'
  <2>1. committed \in Parents /\ Acyclic(committed) /\ committed[s] = None /\ s \notin Ancestors(committed, parent)
    BY <1>6 DEF TreeInv, wl_subcompositor_get_subsurface, is_same_or_ancestor
  <2>2. parent # s
    BY <2>1, AncestorsLeast
  <2>3. committed' = [committed EXCEPT ![s] = parent] /\ synchronous' = [synchronous EXCEPT ![s] = TRUE]
    BY <1>6 DEF wl_subcompositor_get_subsurface
  <2>4. s # Toplevel
    BY SurfaceAssumption
  <2>5. committed' \in Parents /\ Acyclic(committed') /\ committed'[Toplevel] = None
    BY <2>1, <2>3, <2>4, AncestorsLinked DEF TreeInv, Parents
  <2>6. synchronous' \in [Surfaces -> BOOLEAN] /\ ~synchronous'[Toplevel]
    BY <2>3, <2>4 DEF TreeInv
  <2>7. ASSUME NEW p \in Surfaces
        PROVE  stack[p] \in Seq(Surfaces) /\ Range(stack[p]) = {p} \cup {c \in Subsurfaces : committed[c] = p}
    BY DEF TreeInv, TreeAgrees
  <2>8. Last(stack[parent]) \in Range(stack[parent]) \ {s}
    <3>1. \E i \in 1..Len(stack[parent]) : parent = stack[parent][i]
      BY <2>7, InList
    <3>2. Len(stack[parent]) \in 1..Len(stack[parent])
      BY <2>7, <3>1, InList
    <3>3. Last(stack[parent]) \in Range(stack[parent])
      BY <2>7, <3>2, InList DEF Last
    <3>4. s \notin Range(stack[parent])
      BY <2>1, <2>2, <2>7, SurfaceAssumption
    <3> QED BY <3>3, <3>4
  <2>9. /\ stack' \in [Surfaces -> Seq(Surfaces)]
        /\ \A p \in Surfaces : /\ IsInjective(stack'[p])
                               /\ Range(stack'[p]) = IF p = s THEN Range(stack[p])
                                                     ELSE IF p = parent THEN Range(stack[p]) \cup {s}
                                                     ELSE Range(stack[p]) \ {s}
    BY <1>6, <2>2, <2>8, Placed DEF wl_subcompositor_get_subsurface
  <2>10. TreeAgrees'
    <3> SUFFICES ASSUME NEW p \in Surfaces
                 PROVE  Range(stack'[p]) = {p} \cup {c \in Subsurfaces : committed'[c] = p}
      BY <2>9 DEF TreeAgrees
    <3>1. committed'[s] = parent /\ \A c \in Subsurfaces \ {s} : committed'[c] = committed[c]
      BY <2>1, <2>3 DEF Parents
    <3>2. {c \in Subsurfaces : committed'[c] = p} = IF p = parent THEN {c \in Subsurfaces : committed[c] = p} \cup {s}
                                                   ELSE {c \in Subsurfaces : committed[c] = p} \ {s}
      BY <2>1, <3>1, SurfaceAssumption
    <3>3. s \notin {c \in Subsurfaces : committed[c] = p}
      BY <2>1, SurfaceAssumption
    <3>4. CASE p = s
      BY <2>2, <2>7, <2>9, <3>2, <3>3, <3>4
    <3>5. CASE p = parent
      BY <2>2, <2>7, <2>9, <3>2, <3>3, <3>5
    <3>6. CASE p \notin {s, parent}
      <4>1. s \notin Range(stack[p])
        BY <2>7, <3>3, <3>6
      <4> QED BY <2>7, <2>9, <3>2, <3>3, <3>6, <4>1
    <3> QED BY <3>4, <3>5, <3>6
  <2> QED BY <2>5, <2>6, <2>9, <2>10 DEF TreeInv
<1>7. ASSUME NEW s \in Subsurfaces, permanently_unmap_subsurface(s) PROVE TreeInv'
  <2>1. committed \in Parents /\ Acyclic(committed) /\ committed[s] # None /\ s # committed[s]
    BY <1>7, ChildBelow DEF TreeInv, permanently_unmap_subsurface
  <2>2. committed' = [committed EXCEPT ![s] = None] /\ synchronous' = synchronous /\ stack' = Unlinked(s)
    BY <1>7 DEF permanently_unmap_subsurface
  <2>3. committed' \in Parents /\ Acyclic(committed') /\ committed'[Toplevel] = None
    BY <2>1, <2>2, AncestorsUnlinked DEF TreeInv, Parents
  <2>4. /\ stack' \in [Surfaces -> Seq(Surfaces)]
        /\ \A p \in Surfaces : /\ IsInjective(stack'[p])
                               /\ Range(stack'[p]) = IF p = s THEN Range(stack[p]) ELSE Range(stack[p]) \ {s}
    BY <2>2, UnlinkedProperties
  <2>5. TreeAgrees'
    <3> SUFFICES ASSUME NEW p \in Surfaces
                 PROVE  Range(stack'[p]) = {p} \cup {c \in Subsurfaces : committed'[c] = p}
      BY <2>4 DEF TreeAgrees
    <3>1. committed'[s] = None /\ \A c \in Subsurfaces \ {s} : committed'[c] = committed[c]
      BY <2>1, <2>2 DEF Parents
    <3>2. Range(stack[p]) = {p} \cup {c \in Subsurfaces : committed[c] = p}
      BY DEF TreeInv, TreeAgrees
    <3>3. {c \in Subsurfaces : committed'[c] = p} = {c \in Subsurfaces : committed[c] = p} \ {s}
      BY <3>1, SurfaceAssumption
    <3> QED BY <2>1, <2>4, <3>2, <3>3
  <2> QED BY <2>2, <2>3, <2>4, <2>5 DEF TreeInv
<1>8. ASSUME NEW n \in 1..commits, Signal(n) PROVE TreeInv'
  BY <1>1, <1>8 DEF Signal
<1>9. ASSUME NEW i \in DOMAIN queue, meta_wayland_transaction_apply(i) PROVE TreeInv'
  BY <1>1, <1>9 DEF meta_wayland_transaction_apply
<1>10. CASE UNCHANGED vars
  BY <1>1, <1>10 DEF vars
<1> QED BY <1>2, <1>3, <1>4, <1>5, <1>6, <1>7, <1>8, <1>9, <1>10 DEF Next

(* The tree is a tree, and each parent lists its children, once: a commit  *)
(* merges the caches of exactly the children, and parent_desynced and      *)
(* is_same_or_ancestor end.                                                *)
THEOREM TreeAgreesCorrect == Spec => []TreeAgrees
<1>1. TreeInv => TreeAgrees
  BY DEF TreeInv
<1> QED BY <1>1, InitTree, NextTree, PTL DEF Spec

-----------------------------------------------------------------------------
(* States, and transactions as partial functions to them.  A cached entry  *)
(* without a commit is empty.                                              *)
Op == [surface : Surfaces, parent : Surfaces \cup {None}, sibling : Surfaces \cup {None}]
States == [commit : Nat, buffer : Nat, acquire : Nat, ops : Seq(Op), timed : BOOLEAN]
Entries == {e \in States : e.commit = 0 => e = NoEntry}
Partial(E) == UNION {[X -> E] : X \in SUBSET Surfaces}

(* The commit whose state t has for s, 0 for none *)
CommitIn(t, s) == IF s \in DOMAIN t THEN t[s].commit ELSE 0

LEMMA PartialIs ==
    ASSUME NEW E, NEW t
    PROVE  /\ t \in Partial(E) => /\ DOMAIN t \subseteq Surfaces /\ t = [s \in DOMAIN t |-> t[s]]
                                  /\ \A s \in DOMAIN t : t[s] \in E
           /\ /\ DOMAIN t \subseteq Surfaces /\ t = [s \in DOMAIN t |-> t[s]]
              /\ \A s \in DOMAIN t : t[s] \in E
              => t \in Partial(E)
<1>1. ASSUME t \in Partial(E)
      PROVE  /\ DOMAIN t \subseteq Surfaces /\ t = [s \in DOMAIN t |-> t[s]]
             /\ \A s \in DOMAIN t : t[s] \in E
  <2>1. PICK X \in SUBSET Surfaces : t \in [X -> E]
    BY <1>1 DEF Partial
  <2> QED BY <2>1
<1>2. ASSUME DOMAIN t \subseteq Surfaces, t = [s \in DOMAIN t |-> t[s]], \A s \in DOMAIN t : t[s] \in E
      PROVE  t \in Partial(E)
  <2>1. t \in [DOMAIN t -> E]
    BY <1>2
  <2> QED BY <1>2, <2>1 DEF Partial
<1> QED BY <1>1, <1>2

LEMMA EntryFacts ==
    /\ NoEntry \in Entries /\ NoEntry.commit = 0 /\ Entries \subseteq States
    /\ \A e \in Entries : HasState(e) <=> e.commit # 0
    /\ \A e \in States : e.commit \in Nat /\ e.ops \in Seq(Op)
    /\ \A e \in States : e.commit # 0 => e \in Entries
<1>1. NoEntry \in States /\ NoEntry.commit = 0 /\ NoEntry.ops = << >>
  BY DEF NoEntry, States
<1>2. ASSUME NEW e \in Entries PROVE HasState(e) <=> e.commit # 0
  BY <1>1 DEF Entries, HasState
<1>3. \A e \in States : e.commit \in Nat /\ e.ops \in Seq(Op)
  BY DEF States
<1> QED BY <1>1, <1>2, <1>3 DEF Entries

LEMMA CommitInType ==
    ASSUME NEW t \in Partial(States), NEW s
    PROVE  CommitIn(t, s) \in Nat
BY PartialIs, EntryFacts DEF CommitIn

LEMMA CachedAreStates == Partial(Entries) \subseteq Partial(States) /\ << >> \in Partial(Entries)
<1>1. ASSUME NEW t \in Partial(Entries) PROVE t \in Partial(States)
  <2>1. /\ DOMAIN t \subseteq Surfaces /\ t = [s \in DOMAIN t |-> t[s]]
        /\ \A s \in DOMAIN t : t[s] \in Entries
    BY PartialIs
  <2>2. \A s \in DOMAIN t : t[s] \in States
    BY <2>1, EntryFacts
  <2> QED BY <2>1, <2>2, PartialIs
<1>2. << >> \in [{} -> Entries] /\ {} \in SUBSET Surfaces
  OBVIOUS
<1>3. << >> \in Partial(Entries)
  BY <1>2 DEF Partial
<1> QED BY <1>1, <1>3

(* Merging one state into another keeps the newer commit. *)
LEMMA StateMerged ==
    ASSUME NEW from \in Entries, NEW to \in Entries, from.commit # 0
    PROVE  /\ meta_wayland_surface_state_merge_into(from, to) \in Entries
           /\ meta_wayland_surface_state_merge_into(from, to).commit = from.commit
<1> DEFINE e == meta_wayland_surface_state_merge_into(from, to)
<1>1. from \in States /\ to \in States
  BY EntryFacts
<1>2. to.ops \o from.ops \in Seq(Op)
  BY <1>1, EntryFacts, ConcatProperties
<1>3. e.commit = from.commit
  BY DEF meta_wayland_surface_state_merge_into
<1>4. e \in States
  BY <1>1, <1>2 DEF States, meta_wayland_surface_state_merge_into
<1> HIDE DEF e
<1> QED BY <1>3, <1>4, EntryFacts DEF e

LEMMA EntryMerged ==
    ASSUME NEW from \in Entries, NEW to \in Entries
    PROVE  /\ meta_wayland_transaction_entry_merge_into(from, to) \in Entries
           /\ meta_wayland_transaction_entry_merge_into(from, to).commit =
                IF from.commit # 0 THEN from.commit ELSE to.commit
BY EntryFacts, StateMerged DEF meta_wayland_transaction_entry_merge_into

LEMMA TransactionMerged ==
    ASSUME NEW from \in Partial(Entries), NEW to \in Partial(Entries)
    PROVE  /\ meta_wayland_transaction_merge_into(from, to) \in Partial(Entries)
           /\ \A s : CommitIn(meta_wayland_transaction_merge_into(from, to), s) =
                       IF CommitIn(from, s) # 0 THEN CommitIn(from, s) ELSE CommitIn(to, s)
<1> DEFINE t == meta_wayland_transaction_merge_into(from, to)
<1>1. /\ DOMAIN from \subseteq Surfaces /\ \A s \in DOMAIN from : from[s] \in Entries
      /\ DOMAIN to \subseteq Surfaces /\ \A s \in DOMAIN to : to[s] \in Entries
  BY PartialIs
<1>2. /\ DOMAIN t = DOMAIN from \cup DOMAIN to /\ t = [s \in DOMAIN t |-> t[s]]
      /\ \A s \in DOMAIN t :
           t[s] = IF s \notin DOMAIN to THEN from[s]
                  ELSE IF s \notin DOMAIN from THEN to[s]
                  ELSE meta_wayland_transaction_entry_merge_into(from[s], to[s])
  BY DEF meta_wayland_transaction_merge_into
<1> HIDE DEF t
<1>3. ASSUME NEW s \in DOMAIN t
      PROVE  /\ t[s] \in Entries
             /\ t[s].commit = IF CommitIn(from, s) # 0 THEN CommitIn(from, s) ELSE CommitIn(to, s)
  <2>1. CASE s \notin DOMAIN to
    BY <1>1, <1>2, <2>1 DEF CommitIn
  <2>2. CASE s \notin DOMAIN from
    BY <1>1, <1>2, <2>2 DEF CommitIn
  <2>3. CASE s \in DOMAIN from /\ s \in DOMAIN to
    <3>1. t[s] = meta_wayland_transaction_entry_merge_into(from[s], to[s])
      BY <1>2, <2>3
    <3> QED BY <1>1, <2>3, <3>1, EntryMerged DEF CommitIn
  <2> QED BY <2>1, <2>2, <2>3
<1>4. t \in Partial(Entries)
  BY <1>1, <1>2, <1>3, PartialIs
<1>5. ASSUME NEW s PROVE CommitIn(t, s) = IF CommitIn(from, s) # 0 THEN CommitIn(from, s) ELSE CommitIn(to, s)
  BY <1>2, <1>3 DEF CommitIn
<1> QED BY <1>4, <1>5 DEF t

(* One entry of a cached transaction is replaced. *)
LEMMA WithProperties ==
    ASSUME NEW t \in Partial(Entries), NEW s \in Surfaces, NEW e \in Entries
    PROVE  /\ With(t, s, e) \in Partial(Entries)
           /\ \A r : CommitIn(With(t, s, e), r) = IF r = s THEN e.commit ELSE CommitIn(t, r)
<1> DEFINE u == With(t, s, e)
<1>1. DOMAIN t \subseteq Surfaces /\ \A r \in DOMAIN t : t[r] \in Entries
  BY PartialIs
<1>2. /\ DOMAIN u = DOMAIN t \cup {s} /\ u = [r \in DOMAIN u |-> u[r]]
      /\ \A r \in DOMAIN u : u[r] = IF r = s THEN e ELSE t[r]
  BY DEF With
<1> HIDE DEF u
<1>3. u \in Partial(Entries)
  BY <1>1, <1>2, PartialIs
<1>4. \A r : CommitIn(u, r) = IF r = s THEN e.commit ELSE CommitIn(t, r)
  BY <1>2 DEF CommitIn
<1> QED BY <1>3, <1>4 DEF u

LEMMA EntryOfProperties ==
    ASSUME NEW t \in Partial(Entries), NEW s
    PROVE  EntryOf(t, s) \in Entries /\ EntryOf(t, s).commit = CommitIn(t, s)
BY PartialIs, EntryFacts DEF EntryOf, CommitIn

(* The surfaces that placement operations mention have no state. *)
LEMMA PlacementAdded ==
    ASSUME NEW t \in Partial(Entries)
    PROVE  /\ meta_wayland_transaction_add_placement_surfaces(t) \in Partial(States)
           /\ \A s : CommitIn(meta_wayland_transaction_add_placement_surfaces(t), s) = CommitIn(t, s)
<1> DEFINE ops == UNION {Range(t[s].ops) : s \in DOMAIN t}
           named == ({op.surface : op \in ops} \cup {op.sibling : op \in ops}) \ {None}
           u == meta_wayland_transaction_add_placement_surfaces(t)
<1>1. DOMAIN t \subseteq Surfaces /\ \A r \in DOMAIN t : t[r] \in Entries
  BY PartialIs
<1>2. ops \subseteq Op
  <2> SUFFICES ASSUME NEW s \in DOMAIN t PROVE Range(t[s].ops) \subseteq Op
    OBVIOUS
  <2>1. t[s].ops \in Seq(Op)
    BY <1>1, EntryFacts
  <2> QED BY <2>1, InList
<1>3. /\ DOMAIN u = DOMAIN t \cup named /\ u = [r \in DOMAIN u |-> u[r]]
      /\ \A r \in DOMAIN u : u[r] = EntryOf(t, r)
  BY DEF meta_wayland_transaction_add_placement_surfaces
<1> HIDE DEF u, ops
<1>4. named \subseteq Surfaces
  BY <1>2 DEF Op
<1> HIDE DEF named
<1>5. \A r : EntryOf(t, r) \in Entries /\ EntryOf(t, r).commit = CommitIn(t, r)
  BY EntryOfProperties
<1>6. u \in Partial(Entries)
  BY <1>1, <1>3, <1>4, <1>5, PartialIs
<1>7. ASSUME NEW r PROVE CommitIn(u, r) = CommitIn(t, r)
  <2>1. r \in DOMAIN u => CommitIn(u, r) = CommitIn(t, r)
    BY <1>3, <1>5 DEF CommitIn
  <2>2. r \notin DOMAIN u => CommitIn(u, r) = 0 /\ CommitIn(t, r) = 0
    BY <1>3 DEF CommitIn
  <2> QED BY <2>1, <2>2
<1> QED BY <1>6, <1>7, CachedAreStates DEF u

-----------------------------------------------------------------------------
(* Folds.  The library's folds are recursive functions on the subsets of a *)
(* finite set.  That there is such a function is shown by induction on the *)
(* size of the subsets, and induction from the least number of a set of    *)
(* numbers.                                                                *)

(* A set of natural numbers has a least one. *)
LEMMA NatLeast ==
    ASSUME NEW T \in SUBSET Nat, T # {}
    PROVE  \E n \in T : \A m \in T : n <= m
<1> DEFINE R == OpToRel(<, Nat)
<1>1. IsWellFoundedOn(R, Nat)
  BY NatLessThanWellFounded
<1>2. \A x, y \in Nat : x < y => <<x, y>> \in R
  BY DEF OpToRel
<1> HIDE DEF R
<1>3. \E n \in T : \A m \in T : <<m, n>> \notin R
  BY <1>1, WFMin
<1>4. \E n \in T : \A m \in T : ~(m < n)
  BY <1>2, <1>3
<1>5. \A m, n \in Nat : ~(m < n) => n <= m
  OBVIOUS
<1> QED BY <1>4, <1>5

(* A set of numbers that has 0 and, with each number, the next has all. *)
LEMMA NatAll ==
    ASSUME NEW T \in SUBSET Nat, 0 \in T, \A n \in T : n + 1 \in T
    PROVE  T = Nat
<1> SUFFICES ASSUME Nat \ T # {} PROVE FALSE
  OBVIOUS
<1>1. PICK n \in Nat \ T : \A m \in Nat \ T : n <= m
  BY NatLeast
<1>2. n # 0 /\ n - 1 \in Nat /\ ~(n <= n - 1)
  BY <1>1
<1>3. n - 1 \in T
  BY <1>1, <1>2
<1>4. (n - 1) + 1 = n
  BY <1>2
<1> QED BY <1>1, <1>3, <1>4

(* The fold of G from base over the subsets of D, taking pick[u] from u. *)
Picks(pick, D) == \A u \in SUBSET D : u # {} => pick[u] \in u
IsFold(f, base, D, pick, G, V) ==
    /\ f \in [SUBSET D -> V]
    /\ \A u \in SUBSET D : f[u] = IF u = {} THEN base ELSE G[pick[u]][f[u \ {pick[u]}]]

LEMMA FoldExists ==
    ASSUME NEW V, NEW base \in V, NEW D, IsFiniteSet(D), NEW pick, Picks(pick, D),
           NEW G \in [D -> [V -> V]]
    PROVE  \E f : IsFold(f, base, D, pick, G, V)
<1> DEFINE Sub(n) == {u \in SUBSET D : Cardinality(u) <= n}
           Folds(f, n) == /\ f \in [Sub(n) -> V]
                          /\ \A u \in Sub(n) :
                               f[u] = IF u = {} THEN base ELSE G[pick[u]][f[u \ {pick[u]}]]
           T == {n \in Nat : \E f : Folds(f, n)}
<1>0. \A u \in SUBSET D : u # {} => pick[u] \in u
  BY DEF Picks
<1>1. \A u \in SUBSET D : IsFiniteSet(u) /\ Cardinality(u) \in Nat
  BY FS_Subset, FS_CardinalityType
<1>2. \A u \in SUBSET D : u # {} =>
        /\ u \ {pick[u]} \in SUBSET D
        /\ Cardinality(u \ {pick[u]}) = Cardinality(u) - 1
  BY <1>0, <1>1, FS_RemoveElement
<1>3. 0 \in T
  <2> DEFINE f == [u \in Sub(0) |-> base]
  <2>1. \A u \in Sub(0) : u = {}
    BY <1>1, FS_EmptySet
  <2>2. Folds(f, 0)
    BY <2>1
  <2> QED BY <2>2
<1>4. ASSUME NEW n \in T PROVE n + 1 \in T
  <2>1. n \in Nat
    OBVIOUS
  <2>0. PICK f : Folds(f, n)
    OBVIOUS
  <2> DEFINE g == [u \in Sub(n + 1) |->
                     IF u = {} THEN base ELSE G[pick[u]][f[u \ {pick[u]}]]]
  <2>2. ASSUME NEW u \in Sub(n + 1), u # {} PROVE u \ {pick[u]} \in Sub(n)
    <3>1. u \in SUBSET D /\ Cardinality(u) <= n + 1
      BY <2>2
    <3>2. Cardinality(u) - 1 <= n
      BY <1>1, <2>1, <3>1
    <3> QED BY <1>2, <2>2, <3>1, <3>2
  <2>3. Sub(n) \subseteq Sub(n + 1)
    BY <1>1, <2>1
  <2>4. \A u \in Sub(n) : g[u] = f[u]
    BY <2>0, <2>3
  <2>5. g \in [Sub(n + 1) -> V]
    <3> SUFFICES ASSUME NEW u \in Sub(n + 1), u # {}
                 PROVE  G[pick[u]][f[u \ {pick[u]}]] \in V
      OBVIOUS
    <3>1. f[u \ {pick[u]}] \in V
      BY <2>0, <2>2
    <3>2. pick[u] \in D
      BY <1>0
    <3>3. G[pick[u]] \in [V -> V]
      BY <3>2
    <3> QED BY <3>1, <3>3
  <2>6. \A u \in Sub(n + 1) : g[u] = IF u = {} THEN base ELSE G[pick[u]][g[u \ {pick[u]}]]
    BY <2>2, <2>4
  <2>7. Folds(g, n + 1)
    BY <2>5, <2>6
  <2> HIDE DEF Folds, g
  <2> QED BY <2>1, <2>7
<1> HIDE DEF T
<1>5. T \in SUBSET Nat
  BY DEF T
<1>6. Cardinality(D) \in T
  BY <1>1, <1>3, <1>4, <1>5, NatAll
<1> USE DEF T
<1>7. PICK f : Folds(f, Cardinality(D))
  BY <1>6
<1>8. Sub(Cardinality(D)) = SUBSET D
  BY FS_Subset
<1> QED BY <1>7, <1>8 DEF IsFold

(* The greatest of the first k numbers. *)
LEMMA MaxOfFirst ==
    ASSUME NEW k \in Nat \ {0}
    PROVE  Max(1..k) = k
<1>1. k \in 1..k /\ \A y \in 1..k : k >= y
  OBVIOUS
<1>2. Max(1..k) \in 1..k /\ \A y \in 1..k : Max(1..k) >= y
  BY <1>1 DEF Max
<1>3. Max(1..k) >= k /\ k >= Max(1..k)
  BY <1>1, <1>2
<1> QED BY <1>2, <1>3

(* The greatest of some of the first n numbers. *)
LEMMA MaxOfSome ==
    ASSUME NEW n \in Nat, NEW u \in SUBSET (1..n), u # {}
    PROVE  Max(u) \in u
<1> DEFINE T == {d \in Nat : \E x \in u : d = n - x}
<1>1. PICK x0 \in u : TRUE
  OBVIOUS
<1>2. n - x0 \in T
  BY <1>1
<1>3. T \in SUBSET Nat /\ T # {}
  BY <1>2
<1>4. PICK d \in T : \A m \in T : d <= m
  BY <1>3, NatLeast
<1>5. PICK x \in u : d = n - x
  BY <1>4
<1>6. ASSUME NEW y \in u PROVE x >= y
  <2>1. n - y \in T
    OBVIOUS
  <2>2. d <= n - y
    BY <1>4, <2>1
  <2> QED BY <1>5, <2>2
<1>7. \E z \in u : \A y \in u : z >= y
  BY <1>6
<1> QED BY <1>7 DEF Max

(* The same, for a fold from the left over n elements. *)
IsLeftFold(f, base, n, G, V) ==
    /\ f \in [SUBSET (1..n) -> V]
    /\ \A u \in SUBSET (1..n) : f[u] = IF u = {} THEN base ELSE G[Max(u)][f[u \ {Max(u)}]]

LEMMA FoldLeftExists ==
    ASSUME NEW V, NEW base \in V, NEW n \in Nat, NEW G \in [1..n -> [V -> V]]
    PROVE  \E f : IsLeftFold(f, base, n, G, V)
<1> DEFINE D == 1..n
           pick == [u \in SUBSET D |-> Max(u)]
<1>1. IsFiniteSet(D)
  BY FS_Interval
<1>2. Picks(pick, D)
  BY MaxOfSome DEF Picks
<1>3. \A u \in SUBSET D : pick[u] = Max(u)
  OBVIOUS
<1>4. G \in [D -> [V -> V]]
  OBVIOUS
<1>5. SUBSET (1..n) = SUBSET D
  OBVIOUS
<1> HIDE DEF pick, D
<1>6. PICK f : IsFold(f, base, D, pick, G, V)
  BY <1>1, <1>2, <1>4, FoldExists
<1>7. /\ f \in [SUBSET D -> V]
      /\ \A u \in SUBSET D : f[u] = IF u = {} THEN base ELSE G[Max(u)][f[u \ {Max(u)}]]
  BY <1>3, <1>6 DEF IsFold
<1> QED BY <1>5, <1>7 DEF IsLeftFold

(* What is so at 0, and at k + 1 if it is at k, is so up to n. *)
LEMMA UpTo ==
    ASSUME NEW n \in Nat, NEW T, 0 \in T, \A k \in 0..n - 1 : k \in T => k + 1 \in T
    PROVE  \A k \in 0..n : k \in T
<1> DEFINE U == {k \in Nat : k <= n => k \in T}
<1>1. U \in SUBSET Nat /\ 0 \in U
  OBVIOUS
<1>2. ASSUME NEW k \in U PROVE k + 1 \in U
  <2>1. k \in Nat /\ (k <= n => k \in T)
    OBVIOUS
  <2>2. k + 1 <= n => k \in 0..n - 1 /\ k <= n
    BY <2>1
  <2> QED BY <2>1, <2>2
<1> HIDE DEF U
<1>3. U = Nat
  BY <1>1, <1>2, NatAll
<1> QED BY <1>3 DEF U

(* A function that satisfies the equation of a fold from the left gives    *)
(* the results of the fold for the first k elements.                       *)
LEMMA FirstOf ==
    ASSUME NEW n \in Nat, NEW k \in 1..n
    PROVE  /\ 1..k \in SUBSET (1..n) /\ 1..k # {} /\ Max(1..k) = k
           /\ (1..k) \ {k} = 1..k - 1
           /\ 1..0 = {} /\ 1..n \in SUBSET (1..n)
<1>1. Max(1..k) = k
  BY MaxOfFirst
<1>2. k \in 1..k
  OBVIOUS
<1> QED BY <1>1, <1>2

(* MergeChildren goes through the children from the lowest to the highest. *)
LEMMA MergeFolds ==
    ASSUME transaction \in [Surfaces -> Partial(Entries)],
           NEW s, NEW t \in Partial(Entries), Unlink(stack[s], s) \in Seq(Surfaces)
    PROVE  LET chain == Unlink(stack[s], s)
           IN  \E f :
                 /\ f[0] = t
                 /\ \A k \in 1..Len(chain) :
                      f[k] = meta_wayland_transaction_merge_into(transaction[chain[k]], f[k - 1])
                 /\ MergeChildren(s, t) = f[Len(chain)]
<1> DEFINE chain == Unlink(stack[s], s)
           n == Len(chain)
           V == Partial(Entries)
           Step(x, q) == meta_wayland_transaction_merge_into(transaction[chain[x]], q)
           G == [x \in 1..n |-> [q \in V |-> Step(x, q)]]
           Is(f) == f = [u \in SUBSET (1..n) |->
                           IF u = {} THEN t ELSE Step(Max(u), f[u \ {Max(u)}])]
           iter == CHOOSE f : Is(f)
           g == [k \in 0..n |-> iter[1..k]]
<1>1. n \in Nat /\ DOMAIN chain = 1..n /\ \A x \in 1..n : chain[x] \in Surfaces
  BY LenProperties
<1>2. MergeChildren(s, t) = iter[1..n]
  BY <1>1 DEF MergeChildren, FoldLeft, MapThenFoldSet
<1>3. \A x \in 1..n, q \in V : Step(x, q) \in V
  BY <1>1, TransactionMerged
<1>4. G \in [1..n -> [V -> V]]
  BY <1>3
<1>5. \A x \in 1..n, q \in V : G[x][q] = Step(x, q)
  OBVIOUS
<1> HIDE DEF G, Step, n, chain, V
<1>6. PICK f : IsLeftFold(f, t, n, G, V)
  <2>1. t \in V
    BY DEF V
  <2> QED BY <1>1, <1>4, <2>1, FoldLeftExists
<1>7. Is(f)
  <2>1. ASSUME NEW u \in SUBSET (1..n), u # {}
        PROVE  G[Max(u)][f[u \ {Max(u)}]] = Step(Max(u), f[u \ {Max(u)}])
    <3>1. Max(u) \in 1..n /\ u \ {Max(u)} \in SUBSET (1..n)
      BY <1>1, <2>1, MaxOfSome
    <3>2. f[u \ {Max(u)}] \in V
      BY <1>6, <3>1 DEF IsLeftFold
    <3> QED BY <1>5, <3>1, <3>2
  <2>2. \A u \in SUBSET (1..n) :
          f[u] = IF u = {} THEN t ELSE Step(Max(u), f[u \ {Max(u)}])
    BY <1>6, <2>1 DEF IsLeftFold
  <2> QED BY <1>6, <2>2 DEF IsLeftFold
<1>8. Is(iter)
  BY <1>7
<1>9. \A u \in SUBSET (1..n) :
        iter[u] = IF u = {} THEN t ELSE Step(Max(u), iter[u \ {Max(u)}])
  BY <1>8
<1> HIDE DEF iter
<1>10. g[0] = t /\ g[n] = iter[1..n]
  <2>1. 1..0 = {} /\ {} \in SUBSET (1..n) /\ 0 \in 0..n /\ n \in 0..n
    BY <1>1
  <2> QED BY <1>9, <2>1
<1>11. ASSUME NEW k \in 1..n PROVE g[k] = Step(k, g[k - 1])
  <2>1. k \in 0..n /\ k - 1 \in 0..n
    BY <1>1
  <2>2. iter[1..k] = Step(k, iter[1..k - 1])
    <3> DEFINE u == 1..k
    <3>1. u \in SUBSET (1..n) /\ u # {} /\ Max(u) = k /\ u \ {k} = 1..k - 1
      BY <1>1, FirstOf
    <3> HIDE DEF u
    <3>2. iter[u] = Step(k, iter[u \ {k}])
      BY <1>9, <3>1
    <3>3. iter[u] = Step(k, iter[1..k - 1])
      BY <3>1, <3>2
    <3> QED BY <3>3 DEF u
  <2> QED BY <2>1, <2>2
<1> HIDE DEF g
<1> QED BY <1>2, <1>10, <1>11 DEF Step, n, chain

Children(p) == {c \in Surfaces : committed[c] = p}

(* M has, of each surface, the state that a child of p has cached, or else *)
(* the one of t.                                                           *)
MergedFrom(p, t, M) ==
    /\ M \in Partial(Entries)
    /\ \A s : \/ /\ \A c \in Children(p) : CommitIn(transaction[c], s) = 0
                 /\ CommitIn(M, s) = CommitIn(t, s)
              \/ \E c \in Children(p) : /\ CommitIn(transaction[c], s) # 0
                                        /\ CommitIn(M, s) = CommitIn(transaction[c], s)

LEMMA ChildrenMerged ==
    ASSUME TreeInv, transaction \in [Surfaces -> Partial(Entries)],
           NEW p \in Surfaces, NEW t \in Partial(Entries)
    PROVE  MergedFrom(p, t, MergeChildren(p, t))
<1> DEFINE chain == Unlink(stack[p], p)
           n == Len(chain)
<1>1. stack[p] \in Seq(Surfaces) /\ IsInjective(stack[p])
      /\ Range(stack[p]) = {p} \cup {c \in Subsurfaces : committed[c] = p}
  BY DEF TreeInv, TreeAgrees
<1>2. chain \in Seq(Surfaces) /\ Range(chain) = Range(stack[p]) \ {p}
  BY <1>1, UnlinkProperties
<1>3. committed \in Parents /\ Acyclic(committed) /\ committed[Toplevel] = None
  BY DEF TreeInv
<1>4. Range(chain) = Children(p)
  <2>1. p # None /\ Surfaces = Subsurfaces \cup {Toplevel}
    BY SurfaceAssumption DEF Surfaces
  <2>2. committed[p] # p
    BY <1>3, <2>1, ChildBelow
  <2>3. Children(p) = {c \in Subsurfaces : committed[c] = p}
    BY <1>3, <2>1 DEF Children
  <2> QED BY <1>1, <1>2, <2>2, <2>3
<1>5. PICK f : /\ f[0] = t
               /\ \A k \in 1..n :
                    f[k] = meta_wayland_transaction_merge_into(transaction[chain[k]], f[k - 1])
               /\ MergeChildren(p, t) = f[n]
  BY <1>2, MergeFolds
<1>6. n \in Nat /\ \A k \in 1..n : chain[k] \in Children(p)
  BY <1>2, <1>4, InList
<1>7. \A c \in Children(p) : \E k \in 1..n : c = chain[k]
  BY <1>2, <1>4, InList
<1>8. \A c \in Children(p) : transaction[c] \in Partial(Entries)
  BY DEF Children
<1> HIDE DEF n, chain
<1> DEFINE Had(k, s) == \E j \in 1..k : /\ CommitIn(transaction[chain[j]], s) # 0
                                        /\ CommitIn(f[k], s) = CommitIn(transaction[chain[j]], s)
           Hadnot(k, s) == /\ \A j \in 1..k : CommitIn(transaction[chain[j]], s) = 0
                           /\ CommitIn(f[k], s) = CommitIn(t, s)
           T(s) == {k \in 0..n : f[k] \in Partial(Entries) /\ (Had(k, s) \/ Hadnot(k, s))}
<1>9. ASSUME NEW s PROVE n \in T(s)
  <2>1. 0 \in T(s)
    <3>1. Hadnot(0, s)
      BY <1>5
    <3> HIDE DEF Had, Hadnot
    <3> QED BY <1>5, <1>6, <3>1
  <2>2. ASSUME NEW k \in 0..n - 1, k \in T(s) PROVE k + 1 \in T(s)
    <3>1. k + 1 \in 1..n /\ (k + 1) - 1 = k /\ k + 1 \in 0..n /\ k \in Nat
      BY <1>6
    <3> DEFINE b == transaction[chain[k + 1]]
    <3>2. f[k + 1] = meta_wayland_transaction_merge_into(b, f[k]) /\ b \in Partial(Entries)
      BY <1>5, <1>6, <1>8, <3>1
    <3>3. f[k] \in Partial(Entries) /\ (Had(k, s) \/ Hadnot(k, s))
      BY <2>2
    <3> HIDE DEF b
    <3>4. /\ f[k + 1] \in Partial(Entries)
          /\ CommitIn(f[k + 1], s) = IF CommitIn(b, s) # 0 THEN CommitIn(b, s) ELSE CommitIn(f[k], s)
      BY <3>2, <3>3, TransactionMerged
    <3>5. 1..k + 1 = 1..k \cup {k + 1} /\ k + 1 \in 1..k + 1
      BY <3>1
    <3>6. Had(k + 1, s) \/ Hadnot(k + 1, s)
      <4>1. CASE CommitIn(b, s) # 0
        BY <3>4, <3>5, <4>1 DEF b
      <4>2. CASE CommitIn(b, s) = 0
        BY <3>3, <3>4, <3>5, <4>2 DEF b
      <4> QED BY <4>1, <4>2
    <3> HIDE DEF Had, Hadnot
    <3> QED BY <3>1, <3>4, <3>6
  <2> DEFINE U == T(s)
  <2>3. 0 \in U /\ \A k \in 0..n - 1 : k \in U => k + 1 \in U
    BY <2>1, <2>2
  <2> HIDE DEF U
  <2>4. \A k \in 0..n : k \in U
    BY <1>6, <2>3, UpTo
  <2> QED BY <1>6, <2>4 DEF U
<1>10. f[n] \in Partial(Entries) /\ \A s : Had(n, s) \/ Hadnot(n, s)
  <2> HIDE DEF Had, Hadnot
  <2> QED BY <1>9
<1>11. ASSUME NEW s
       PROVE  \/ /\ \A c \in Children(p) : CommitIn(transaction[c], s) = 0
                 /\ CommitIn(f[n], s) = CommitIn(t, s)
              \/ \E c \in Children(p) : /\ CommitIn(transaction[c], s) # 0
                                        /\ CommitIn(f[n], s) = CommitIn(transaction[c], s)
  <2>1. CASE Had(n, s)
    BY <1>6, <2>1
  <2>2. CASE Hadnot(n, s)
    BY <1>7, <2>2
  <2> QED BY <1>10, <2>1, <2>2
<1> QED BY <1>5, <1>10, <1>11 DEF MergedFrom

-----------------------------------------------------------------------------
(* Types, as far as the proofs need them *)
TypeInv ==
    /\ commits \in Nat
    /\ pending \in [Surfaces -> [ops : Seq(Op), timed : BOOLEAN]]
    /\ transaction \in [Surfaces -> Partial(Entries)]
    /\ queue \in Seq(Partial(States))
    /\ content \in [Surfaces -> Nat]
    /\ latest \in [Surfaces -> Nat]

LEMMA InitTypes == Init => TypeInv
<1> SUFFICES ASSUME Init PROVE TypeInv
  OBVIOUS
<1>1. pending \in [Surfaces -> [ops : Seq(Op), timed : BOOLEAN]]
  BY DEF Init
<1>2. transaction \in [Surfaces -> Partial(Entries)]
  BY CachedAreStates DEF Init
<1>3. queue \in Seq(Partial(States))
  BY DEF Init
<1> QED BY <1>1, <1>2, <1>3 DEF Init, TypeInv

Synced(s) == meta_wayland_subsurface_is_synchronized(s)

(* What a commit of s starts from, and what it is with those of the        *)
(* children merged into it                                                 *)
Base(s, r) ==
    IF r = s THEN commits + 1 ELSE IF Synced(s) THEN CommitIn(transaction[s], r) ELSE 0
Gathers(s, W) ==
    \A r : \/ /\ \A c \in Children(s) : CommitIn(transaction[c], r) = 0
              /\ CommitIn(W, r) = Base(s, r)
           \/ \E c \in Children(s) : /\ CommitIn(transaction[c], r) # 0
                                     /\ CommitIn(W, r) = CommitIn(transaction[c], r)

(* What a commit of s does, W being the whole transaction and Z the one    *)
(* that is queued                                                          *)
Commits(s, W, Z) ==
    /\ W \in Partial(Entries) /\ Z \in Partial(States) /\ Gathers(s, W)
    /\ \A r : CommitIn(Z, r) = CommitIn(W, r)
    /\ commits' = commits + 1 /\ latest' = [latest EXCEPT ![s] = commits + 1]
    /\ transaction' = [c \in Surfaces |-> IF c = s /\ Synced(s) THEN W
                                          ELSE IF committed[c] = s THEN << >>
                                          ELSE transaction[c]]
    /\ queue' = IF Synced(s) THEN queue ELSE Append(queue, Z)
    /\ UNCHANGED <<treeVars, content, client>>
    /\ pending' \in [Surfaces -> [ops : Seq(Op), timed : BOOLEAN]]

LEMMA CommitStep ==
    ASSUME TypeInv, TreeInv, NEW s \in Surfaces, Commit(s)
    PROVE  \/ UNCHANGED <<commits, pending, transaction, treeVars, content, queue, latest, client>>
           \/ \E W, Z : Commits(s, W, Z)
<1>1. PICK attach \in BOOLEAN, stamp \in BOOLEAN : meta_wayland_surface_commit(s, attach, stamp)
  BY DEF Commit
<1> DEFINE n == commits + 1
           state == [commit |-> n,
                     buffer |-> IF attach THEN n ELSE 0,
                     acquire |-> IF attach /\ "syncobj" \in client THEN n ELSE 0,
                     ops |-> pending[s].ops,
                     timed |-> stamp \/ pending[s].timed]
           base == IF Synced(s) THEN transaction[s] ELSE << >>
           fresh == ~HasState(EntryOf(base, s))
           entry == IF fresh THEN state ELSE meta_wayland_surface_state_merge_into(state, base[s])
           merged == With(base, s, entry)
           W == MergeChildren(s, merged)
           Z == meta_wayland_transaction_add_placement_surfaces(W)
<1>2. CASE stamp /\ pending[s].timed
  BY <1>1, <1>2 DEF meta_wayland_surface_commit, appliedVars
<1>3. CASE ~(stamp /\ pending[s].timed)
  <2>1. /\ commits' = n /\ latest' = [latest EXCEPT ![s] = n]
        /\ pending' = [pending EXCEPT ![s] = [ops |-> << >>, timed |-> ~fresh /\ state.timed]]
        /\ transaction' = [c \in Surfaces |-> IF c = s /\ Synced(s) THEN W
                                              ELSE IF committed[c] = s THEN << >>
                                              ELSE transaction[c]]
        /\ queue' = IF Synced(s) THEN queue ELSE Append(queue, Z)
        /\ UNCHANGED <<treeVars, content, client>>
    BY <1>1, <1>3 DEF meta_wayland_surface_commit, appliedVars, Synced
  <2>2. pending[s].ops \in Seq(Op) /\ pending[s].timed \in BOOLEAN /\ n \in Nat /\ n # 0
    BY DEF TypeInv
  <2>3. state.timed \in BOOLEAN
    BY <2>2
  <2>4. pending' \in [Surfaces -> [ops : Seq(Op), timed : BOOLEAN]]
    <3>1. (~fresh /\ state.timed) \in BOOLEAN
      OBVIOUS
    <3> DEFINE v == ~fresh /\ state.timed
    <3> HIDE DEF v
    <3>2. v \in BOOLEAN
      BY <3>1 DEF v
    <3>3. [ops |-> << >>, timed |-> v] \in [ops : Seq(Op), timed : BOOLEAN]
      BY <3>2
    <3>4. pending' = [pending EXCEPT ![s] = [ops |-> << >>, timed |-> v]]
      BY <2>1 DEF v
    <3> QED BY <3>3, <3>4 DEF TypeInv
  <2>5. state \in Entries /\ state.commit = n
    <3> DEFINE v == stamp \/ pending[s].timed
               b == IF attach THEN n ELSE 0
               a == IF attach /\ "syncobj" \in client THEN n ELSE 0
               ops == pending[s].ops
    <3>1. v \in BOOLEAN /\ b \in Nat /\ a \in Nat /\ ops \in Seq(Op)
      BY <2>2
    <3>2. state = [commit |-> n, buffer |-> b, acquire |-> a, ops |-> ops, timed |-> v]
      OBVIOUS
    <3> HIDE DEF v, b, a, ops, state, n
    <3>3. state \in States /\ state.commit = n
      BY <2>2, <3>1, <3>2 DEF States
    <3> QED BY <2>2, <3>3, EntryFacts
  <2> HIDE DEF state, n
  <2>6. base \in Partial(Entries)
    BY CachedAreStates DEF TypeInv
  <2>7. entry \in Entries /\ entry.commit = n
    <3>1. CASE fresh
      BY <2>5, <3>1
    <3>2. CASE ~fresh
      <4>1. ~HasState(NoEntry)
        BY DEF HasState, NoEntry
      <4>2. s \in DOMAIN base
        BY <3>2, <4>1 DEF EntryOf
      <4> HIDE DEF base
      <4>3. base[s] \in Entries
        BY <2>6, <4>2, PartialIs
      <4>4. entry = meta_wayland_surface_state_merge_into(state, base[s])
        BY <3>2
      <4> QED BY <2>2, <2>5, <4>3, <4>4, StateMerged
    <3> HIDE DEF fresh
    <3> QED BY <3>1, <3>2
  <2> HIDE DEF entry
  <2>8. \A r : CommitIn(base, r) = IF Synced(s) THEN CommitIn(transaction[s], r) ELSE 0
    BY DEF CommitIn
  <2> HIDE DEF base
  <2>9. /\ merged \in Partial(Entries)
        /\ \A r : CommitIn(merged, r) = IF r = s THEN n ELSE CommitIn(base, r)
    BY <2>6, <2>7, WithProperties
  <2>10. \A r : CommitIn(merged, r) = Base(s, r)
    BY <2>8, <2>9 DEF Base, n
  <2> HIDE DEF merged
  <2>11. /\ W \in Partial(Entries)
         /\ \A r : \/ /\ \A c \in Children(s) : CommitIn(transaction[c], r) = 0
                      /\ CommitIn(W, r) = CommitIn(merged, r)
                   \/ \E c \in Children(s) : /\ CommitIn(transaction[c], r) # 0
                                             /\ CommitIn(W, r) = CommitIn(transaction[c], r)
    <3>1. transaction \in [Surfaces -> Partial(Entries)]
      BY DEF TypeInv
    <3>2. MergedFrom(s, merged, W)
      BY <2>9, <3>1, ChildrenMerged
    <3> HIDE DEF W
    <3> QED BY <3>2 DEF MergedFrom
  <2> HIDE DEF W
  <2>12. Gathers(s, W)
    BY <2>10, <2>11 DEF Gathers
  <2>13. Z \in Partial(States) /\ \A r : CommitIn(Z, r) = CommitIn(W, r)
    BY <2>11, PlacementAdded
  <2> HIDE DEF Z
  <2>14. Commits(s, W, Z)
    BY <2>1, <2>4, <2>11, <2>12, <2>13 DEF Commits, n
  <2> QED BY <2>14
<1> QED BY <1>2, <1>3

(* What the other actions do to transactions and the queue *)
LEMMA PositionStep ==
    ASSUME TypeInv, NEW s \in Surfaces, wl_subsurface_set_position(s)
    PROVE  /\ transaction' \in [Surfaces -> Partial(Entries)]
           /\ \A c \in Surfaces : \A r : CommitIn(transaction'[c], r) = CommitIn(transaction[c], r)
           /\ UNCHANGED <<commits, pending, treeVars, content, queue, latest, client>>
<1>1. transaction[s] \in Partial(Entries)
  BY DEF TypeInv
<1> DEFINE t == With(transaction[s], s, EntryOf(transaction[s], s))
<1>2. EntryOf(transaction[s], s) \in Entries /\ EntryOf(transaction[s], s).commit = CommitIn(transaction[s], s)
  BY <1>1, EntryOfProperties
<1>3. t \in Partial(Entries) /\ \A r : CommitIn(t, r) = CommitIn(transaction[s], r)
  BY <1>1, <1>2, WithProperties
<1>4. transaction' = [transaction EXCEPT ![s] = t]
  BY DEF wl_subsurface_set_position
<1> HIDE DEF t
<1> QED BY <1>3, <1>4 DEF TypeInv, wl_subsurface_set_position, appliedVars

(* o is an order in which parent_desynced visits D, R what it queues. *)
Ordering(D, o) ==
    /\ D \subseteq Subsurfaces /\ o \in Seq(D) /\ Range(o) = D /\ IsInjective(o)
    /\ \A i, j \in 1..Len(o) : i < j => o[j] \notin Ancestors(committed, o[i])
Releases(D, o, R) ==
    /\ R \in Seq(Partial(States)) /\ Len(R) = Len(o)
    /\ \A i \in 1..Len(o) : \A r : CommitIn(R[i], r) = CommitIn(transaction[o[i]], r)
    /\ queue' = queue \o R
    /\ transaction' = [c \in Surfaces |-> IF c \in D THEN << >> ELSE transaction[c]]

Visited(s, sync) ==
    IF Synchronized(sync, s) THEN {} ELSE {c \in Desynced(sync, s) : transaction[c] # << >>}

LEMMA DesyncStep ==
    ASSUME TypeInv, NEW s \in Surfaces, wl_subsurface_set_desync(s)
    PROVE  LET sync == [synchronous EXCEPT ![s] = FALSE]
               D == Visited(s, sync)
           IN  /\ synchronous' = sync
               /\ \E o, R : Ordering(D, o) /\ Releases(D, o, R)
               /\ UNCHANGED <<commits, pending, committed, stack, content, latest, client>>
<1> DEFINE sync == [synchronous EXCEPT ![s] = FALSE]
           D == Visited(s, sync)
<1>1. PICK o \in DesyncOrders(D) :
        queue' = queue \o [i \in DOMAIN o |-> meta_wayland_transaction_add_placement_surfaces(transaction[o[i]])]
  BY DEF wl_subsurface_set_desync, Visited
<1>2. /\ synchronous' = sync
      /\ transaction' = [c \in Surfaces |-> IF c \in D THEN << >> ELSE transaction[c]]
      /\ UNCHANGED <<commits, pending, committed, stack, content, latest, client>>
  BY DEF wl_subsurface_set_desync, Visited, appliedVars
<1>3. D \subseteq Subsurfaces /\ IsFiniteSet(D)
  <2>1. D \subseteq Subsurfaces
    BY DEF Visited, Desynced
  <2> HIDE DEF D
  <2> QED BY <2>1, SurfaceAssumption, FS_Subset
<1> HIDE DEF D
<1>4. Cardinality(D) \in Nat
  BY <1>3, FS_CardinalityType
<1>5. o \in [1..Cardinality(D) -> D] /\ IsInjective(o)
  BY <1>1, <1>4 DEF DesyncOrders, SetToSeqs, IsInjective
<1>6. o \in Seq(D) /\ Range(o) = D
  BY <1>3, <1>5, InjectionOnto
<1>7. DOMAIN o = 1..Len(o) /\ Len(o) \in Nat /\ \A i \in 1..Len(o) : o[i] \in D
  BY <1>6, InList
<1>8. Ordering(D, o)
  <2>1. \A i, j \in DOMAIN o : i < j => o[j] \notin is_same_or_ancestor(o[i])
    BY <1>1 DEF DesyncOrders
  <2> QED BY <1>3, <1>5, <1>6, <1>7, <2>1 DEF Ordering, is_same_or_ancestor
<1> DEFINE R == [i \in DOMAIN o |-> meta_wayland_transaction_add_placement_surfaces(transaction[o[i]])]
<1>9. DOMAIN R = 1..Len(o) /\ R = [i \in 1..Len(o) |-> R[i]]
  BY <1>7
<1>10. \A i \in 1..Len(o) :
         /\ R[i] \in Partial(States)
         /\ \A r : CommitIn(R[i], r) = CommitIn(transaction[o[i]], r)
  <2> TAKE i \in 1..Len(o)
  <2>1. R[i] = meta_wayland_transaction_add_placement_surfaces(transaction[o[i]])
    BY <1>7
  <2>2. transaction[o[i]] \in Partial(Entries)
    BY <1>3, <1>7, SurfacesFinite DEF TypeInv
  <2> HIDE DEF R
  <2> QED BY <2>1, <2>2, PlacementAdded
<1>11. queue' = queue \o R
  BY <1>1
<1> HIDE DEF R
<1>12. R \in Seq(Partial(States)) /\ Len(R) = Len(o)
  BY <1>7, <1>9, <1>10
<1>13. Releases(D, o, R)
  BY <1>2, <1>10, <1>11, <1>12 DEF Releases
<1> QED BY <1>2, <1>8, <1>13 DEF D

(* A transaction of placement operations only is queued. *)
LEMMA UnmapStep ==
    ASSUME TypeInv, TreeInv, NEW s \in Surfaces, permanently_unmap_subsurface(s)
    PROVE  /\ \E Z \in Partial(States) : queue' = Append(queue, Z)
           /\ "reparents" \in client
           /\ committed' = [committed EXCEPT ![s] = None]
           /\ UNCHANGED <<commits, pending, transaction, synchronous, content, latest, client>>
<1> DEFINE op == [surface |-> s, parent |-> None, sibling |-> None]
           Z == [r \in {s, committed[s]} |-> IF r = s THEN NoEntry ELSE [NoEntry EXCEPT !.ops = <<op>>]]
<1>1. committed[s] \in Surfaces
  BY DEF TreeInv, Parents, permanently_unmap_subsurface
<1>2. <<op>> \in Seq(Op)
  BY DEF Op
<1>3. [NoEntry EXCEPT !.ops = <<op>>] \in States
  <2> HIDE DEF op
  <2> QED BY <1>2 DEF States, NoEntry
<1>4. NoEntry \in States
  BY EntryFacts
<1> HIDE DEF op
<1>5. Z \in [{s, committed[s]} -> States] /\ {s, committed[s]} \in SUBSET Surfaces
  BY <1>1, <1>3, <1>4
<1>6. Z \in Partial(States)
  <2> HIDE DEF Z
  <2> QED BY <1>5 DEF Partial
<1>7. queue' = Append(queue, Z)
  BY DEF permanently_unmap_subsurface, op
<1> HIDE DEF Z
<1> QED BY <1>6, <1>7 DEF permanently_unmap_subsurface, appliedVars

LEMMA PlaceTyped ==
    ASSUME TypeInv, TreeInv, NEW s \in Surfaces, NEW parent \in Surfaces,
           NEW sibling \in Surfaces, NEW above, PlaceBeside(s, parent, sibling, above)
    PROVE  pending' \in [Surfaces -> [ops : Seq(Op), timed : BOOLEAN]]
<1> DEFINE op == [surface |-> s, parent |-> parent, sibling |-> sibling]
<1>1. op \in Op
  BY DEF Op
<1>2. pending' = [pending EXCEPT ![parent].ops = Append(@, op)]
  BY DEF PlaceBeside
<1> HIDE DEF op
<1>3. pending[parent] \in [ops : Seq(Op), timed : BOOLEAN]
  BY DEF TypeInv
<1>4. Append(pending[parent].ops, op) \in Seq(Op)
  BY <1>1, <1>3, AppendProperties
<1>5. [pending[parent] EXCEPT !.ops = Append(pending[parent].ops, op)] \in [ops : Seq(Op), timed : BOOLEAN]
  BY <1>3, <1>4
<1> DEFINE e == [pending[parent] EXCEPT !.ops = Append(pending[parent].ops, op)]
<1>6. pending' = [pending EXCEPT ![parent] = e]
  BY <1>2
<1> HIDE DEF e
<1>7. e \in [ops : Seq(Op), timed : BOOLEAN]
  BY <1>5 DEF e
<1> QED BY <1>6, <1>7 DEF TypeInv

(* Placing a sub-surface and giving it a parent *)
LEMMA PlaceStep ==
    ASSUME TypeInv, TreeInv, NEW s \in Surfaces, NEW above, subsurface_place(s, above)
    PROVE  /\ pending' \in [Surfaces -> [ops : Seq(Op), timed : BOOLEAN]]
           /\ UNCHANGED <<commits, transaction, synchronous, committed, content, queue, latest, client>>
<1>1. committed[s] \in Surfaces
  BY DEF TreeInv, Parents, subsurface_place
<1>2. PICK sibling \in Range(stack[committed[s]]) \ {s} : PlaceBeside(s, committed[s], sibling, above)
  BY DEF subsurface_place
<1>3. sibling \in Surfaces
  BY <1>1, <1>2, InList DEF TreeInv
<1> QED BY <1>1, <1>2, <1>3, PlaceTyped DEF subsurface_place, appliedVars

LEMMA GetStep ==
    ASSUME TypeInv, TreeInv, NEW s \in Surfaces, NEW parent \in Surfaces,
           wl_subcompositor_get_subsurface(s, parent)
    PROVE  /\ pending' \in [Surfaces -> [ops : Seq(Op), timed : BOOLEAN]]
           /\ committed[s] = None /\ s \notin Ancestors(committed, parent)
           /\ committed' = [committed EXCEPT ![s] = parent]
           /\ synchronous' = [synchronous EXCEPT ![s] = TRUE]
           /\ UNCHANGED <<commits, transaction, content, queue, latest, client>>
<1>1. /\ PlaceBeside(s, parent, Last(stack[parent]), TRUE)
      /\ committed[s] = None /\ s \notin Ancestors(committed, parent)
      /\ committed' = [committed EXCEPT ![s] = parent]
      /\ synchronous' = [synchronous EXCEPT ![s] = TRUE]
      /\ UNCHANGED <<commits, transaction, content, queue, latest, client>>
  BY DEF wl_subcompositor_get_subsurface, appliedVars, is_same_or_ancestor
<1>2. stack[parent] \in Seq(Surfaces) /\ parent \in Range(stack[parent])
  BY DEF TreeInv, TreeAgrees
<1>3. \E i \in 1..Len(stack[parent]) : parent = stack[parent][i]
  BY <1>2, InList
<1>4. Len(stack[parent]) \in 1..Len(stack[parent])
  BY <1>2, <1>3, InList
<1>5. Last(stack[parent]) \in Surfaces
  BY <1>2, <1>4, InList DEF Last
<1>6. pending' \in [Surfaces -> [ops : Seq(Op), timed : BOOLEAN]]
  BY <1>1, <1>5, PlaceTyped
<1> QED BY <1>1, <1>6

(* Applying the i-th transaction *)
LEMMA ApplyStep ==
    ASSUME TypeInv, NEW i \in DOMAIN queue, meta_wayland_transaction_apply(i)
    PROVE  /\ i \in 1..Len(queue) /\ queue' = RemoveAt(queue, i)
           /\ \A s \in Surfaces, j \in 1..(i - 1) :
                CommitIn(queue[i], s) # 0 => CommitIn(queue[j], s) = 0
           /\ content' \in [Surfaces -> Nat]
           /\ \A s \in Surfaces : content'[s] = IF CommitIn(queue[i], s) # 0 THEN CommitIn(queue[i], s)
                                                ELSE content[s]
           /\ UNCHANGED <<commits, pending, transaction, treeVars, latest, client>>
<1> DEFINE t == queue[i]
<1>1. i \in 1..Len(queue) /\ queue[i] \in Partial(States)
  BY InList DEF TypeInv
<1>2. /\ queue' = RemoveAt(queue, i)
      /\ \A j \in 1..(i - 1) : DOMAIN queue[j] \cap DOMAIN t = {}
      /\ content' = [s \in Surfaces |-> IF s \in DOMAIN t /\ t[s].commit # 0 THEN t[s].commit ELSE content[s]]
      /\ UNCHANGED <<commits, pending, transaction, treeVars, latest, client>>
  BY DEF meta_wayland_transaction_apply
<1> HIDE DEF t
<1>3. \A s \in Surfaces : CommitIn(t, s) \in Nat
  BY <1>1, CommitInType DEF t
<1>4. \A s \in Surfaces : content'[s] = IF CommitIn(t, s) # 0 THEN CommitIn(t, s) ELSE content[s]
  BY <1>2 DEF CommitIn
<1>5. content' \in [Surfaces -> Nat]
  <2>1. \A s \in Surfaces : content'[s] \in Nat
    BY <1>3, <1>4 DEF TypeInv
  <2>2. content' = [s \in Surfaces |-> content'[s]]
    BY <1>2
  <2> QED BY <2>1, <2>2
<1>6. \A s \in Surfaces, j \in 1..(i - 1) : CommitIn(t, s) # 0 => CommitIn(queue[j], s) = 0
  BY <1>2 DEF CommitIn
<1> QED BY <1>1, <1>2, <1>4, <1>5, <1>6 DEF t

LEMMA NextTypes ==
    ASSUME TypeInv, TreeInv, [Next]_vars
    PROVE  TypeInv'
<1> USE SurfacesFinite
<1>0. ASSUME UNCHANGED <<commits, pending, transaction, content, queue, latest>> PROVE TypeInv'
  BY <1>0 DEF TypeInv
<1>1. ASSUME NEW s \in Surfaces, Commit(s) PROVE TypeInv'
  <2>1. SUFFICES ASSUME NEW W, NEW Z, Commits(s, W, Z) PROVE TypeInv'
    BY <1>0, <1>1, CommitStep
  <2>2. commits' \in Nat /\ latest' \in [Surfaces -> Nat] /\ content' \in [Surfaces -> Nat]
    BY <2>1 DEF Commits, TypeInv
  <2>3. transaction' \in [Surfaces -> Partial(Entries)]
    BY <2>1, CachedAreStates DEF Commits, TypeInv
  <2>4. queue' \in Seq(Partial(States))
    BY <2>1, AppendProperties DEF Commits, TypeInv
  <2> QED BY <2>1, <2>2, <2>3, <2>4 DEF Commits, TypeInv
<1>2. ASSUME NEW s \in Subsurfaces, wl_subsurface_set_position(s) PROVE TypeInv'
  BY <1>2, PositionStep DEF TypeInv
<1>3. ASSUME NEW s \in Subsurfaces, wl_subsurface_set_sync(s) PROVE TypeInv'
  BY <1>0, <1>3 DEF wl_subsurface_set_sync, appliedVars
<1>4. ASSUME NEW s \in Subsurfaces, wl_subsurface_set_desync(s) PROVE TypeInv'
  <2> DEFINE D == Visited(s, [synchronous EXCEPT ![s] = FALSE])
  <2>1. PICK o, R : Ordering(D, o) /\ Releases(D, o, R)
    BY <1>4, DesyncStep
  <2>2. UNCHANGED <<commits, pending, content, latest>>
    BY <1>4, DesyncStep
  <2> HIDE DEF D
  <2>3. queue' \in Seq(Partial(States))
    BY <2>1, ConcatProperties DEF Releases, TypeInv
  <2>4. transaction' \in [Surfaces -> Partial(Entries)]
    BY <2>1, CachedAreStates DEF Releases, TypeInv
  <2> QED BY <2>2, <2>3, <2>4 DEF TypeInv
<1>5. ASSUME NEW s \in Subsurfaces, NEW above \in BOOLEAN, subsurface_place(s, above) PROVE TypeInv'
  <2>1. /\ pending' \in [Surfaces -> [ops : Seq(Op), timed : BOOLEAN]]
        /\ UNCHANGED <<commits, transaction, synchronous, committed, content, queue, latest, client>>
    BY <1>5, PlaceStep, Zenon
  <2> QED BY <2>1 DEF TypeInv
<1>6. ASSUME NEW s \in Subsurfaces, NEW parent \in Surfaces, wl_subcompositor_get_subsurface(s, parent)
      PROVE  TypeInv'
  BY <1>6, GetStep DEF TypeInv
<1>7. ASSUME NEW s \in Subsurfaces, permanently_unmap_subsurface(s) PROVE TypeInv'
  <2>1. /\ \E Z \in Partial(States) : queue' = Append(queue, Z)
        /\ UNCHANGED <<commits, pending, transaction, content, latest>>
    BY <1>7, UnmapStep
  <2> QED BY <2>1, AppendProperties DEF TypeInv
<1>8. ASSUME NEW n \in 1..commits, Signal(n) PROVE TypeInv'
  BY <1>0, <1>8 DEF Signal, appliedVars
<1>9. ASSUME NEW i \in DOMAIN queue, meta_wayland_transaction_apply(i) PROVE TypeInv'
  <2>1. /\ i \in 1..Len(queue) /\ queue' = RemoveAt(queue, i) /\ content' \in [Surfaces -> Nat]
        /\ UNCHANGED <<commits, pending, transaction, treeVars, latest, client>>
    BY <1>9, ApplyStep
  <2>2. queue' \in Seq(Partial(States))
    BY <2>1, RemoveAtProperties DEF TypeInv
  <2> QED BY <2>1, <2>2 DEF TypeInv
<1>10. CASE UNCHANGED vars
  BY <1>0, <1>10 DEF vars, appliedVars
<1> QED BY <1>1, <1>2, <1>3, <1>4, <1>5, <1>6, <1>7, <1>8, <1>9, <1>10 DEF Next

-----------------------------------------------------------------------------
(* CachedOnlyIfSynchronized *)
CachedInv ==
    \A r \in Surfaces : (\E s \in Surfaces : CommitIn(transaction[r], s) # 0) => Synced(r)

(* Synchronized in the tree P *)
SyncedIn(P, sync, r) == \E x \in Ancestors(P, r) \cap Subsurfaces : sync[x] \/ P[x] = None

LEMMA SyncedIs ==
    ASSUME NEW s
    PROVE  /\ Synced(s) <=> SyncedIn(committed, synchronous, s)
           /\ Synced(s)' <=> SyncedIn(committed', synchronous', s)
           /\ \A sync : Synchronized(sync, s) <=> SyncedIn(committed, sync, s)
BY DEF Synced, meta_wayland_subsurface_is_synchronized, Synchronized, is_same_or_ancestor, SyncedIn

(* What is cached remains so, where the synchronized stay synchronized. *)
LEMMA CachedStays ==
    ASSUME CachedInv,
           \A r \in Surfaces : \A s \in Surfaces :
             CommitIn(transaction[r], s)' # 0 => CommitIn(transaction[r], s) # 0 \/ Synced(r)',
           \A r \in Surfaces : Synced(r) => Synced(r)'
    PROVE  CachedInv'
BY DEF CachedInv

LEMMA SyncedUp ==
    ASSUME NEW P \in Parents, NEW sync, NEW r \in Surfaces, NEW x \in Ancestors(P, r), SyncedIn(P, sync, x)
    PROVE  SyncedIn(P, sync, r)
<1>1. x \in Surfaces /\ Ancestors(P, x) \subseteq Ancestors(P, r)
  BY AncestorsTransitive
<1> QED BY <1>1 DEF SyncedIn

LEMMA EmptyCommit == \A s : CommitIn(<< >>, s) = 0
BY DEF CommitIn

(* set_desync leaves cached what is still synchronized. *)
LEMMA NotVisited ==
    ASSUME TreeInv, NEW s \in Subsurfaces, NEW r \in Surfaces, Synced(r),
           transaction[r] # << >>,
           r \notin Visited(s, [synchronous EXCEPT ![s] = FALSE])
    PROVE  SyncedIn(committed, [synchronous EXCEPT ![s] = FALSE], r)
<1> DEFINE sync == [synchronous EXCEPT ![s] = FALSE]
           P == committed
<1>0. P \in Parents /\ Acyclic(P) /\ P[Toplevel] = None /\ s \in Surfaces
  BY SurfacesFinite DEF TreeInv
<1>1. ~sync[s] /\ \A x \in Surfaces \ {s} : sync[x] = synchronous[x]
  BY <1>0 DEF TreeInv
<1> SUFFICES SyncedIn(P, sync, r)
  OBVIOUS
<1> HIDE DEF sync
<1>2. PICK x \in Ancestors(P, r) \cap Subsurfaces : synchronous[x] \/ P[x] = None
  BY SyncedIs DEF SyncedIn
<1>3. CASE s \notin Ancestors(P, r)
  <2>1. x # s /\ x \in Surfaces
    BY <1>2, <1>3, SurfacesFinite
  <2> QED BY <1>1, <1>2, <2>1 DEF SyncedIn
<1>4. CASE s \in Ancestors(P, r) /\ Synchronized(sync, s)
  <2>1. SyncedIn(P, sync, s)
    BY <1>4, SyncedIs
  <2> HIDE DEF P
  <2> QED BY <1>0, <1>4, <2>1, SyncedUp DEF P
<1>5. CASE s \in Ancestors(P, r) /\ ~Synchronized(sync, s)
  <2>1. r \notin Desynced(sync, s)
    BY <1>5 DEF Visited, sync
  <2>2. r \in Subsurfaces
    <3> SUFFICES ASSUME r = Toplevel PROVE FALSE
      BY DEF Surfaces
    <3>1. Ancestors(P, r) = {r}
      BY <1>0, AncestorsStep
    <3> QED BY <1>5, <3>1, SurfaceAssumption
  <2>3. PICK y \in Ancestors(P, r) : s \in Ancestors(P, y) /\ sync[y]
    BY <1>5, <2>1, <2>2 DEF Desynced, is_same_or_ancestor
  <2>4. y \in Surfaces
    BY <1>0, <2>3, AncestorsLeast
  <2>5. y \in Subsurfaces
    <3> SUFFICES ASSUME y = Toplevel PROVE FALSE
      BY <2>4 DEF Surfaces
    <3>1. Ancestors(P, y) = {y}
      BY <1>0, <2>4, AncestorsStep
    <3> QED BY <2>3, <3>1, SurfaceAssumption
  <2> QED BY <2>3, <2>5 DEF SyncedIn
<1> QED BY <1>3, <1>4, <1>5

LEMMA NextCached ==
    ASSUME TypeInv, TreeInv, CachedInv, [Next]_vars
    PROVE  CachedInv'
<1> USE SurfacesFinite
<1>0. ASSUME UNCHANGED <<transaction, committed, synchronous>> PROVE CachedInv'
  <2>1. \A r \in Surfaces : Synced(r) <=> Synced(r)'
    BY <1>0, SyncedIs
  <2> QED BY <1>0, <2>1 DEF CachedInv
<1>1. ASSUME NEW s \in Surfaces, Commit(s) PROVE CachedInv'
  <2>1. SUFFICES ASSUME NEW W, NEW Z, Commits(s, W, Z) PROVE CachedInv'
    BY <1>0, <1>1, CommitStep DEF treeVars
  <2>2. \A r \in Surfaces : Synced(r) <=> Synced(r)'
    BY <2>1, SyncedIs DEF Commits, treeVars
  <2>3. \A r \in Surfaces : transaction'[r] = IF r = s /\ Synced(s) THEN W
                                              ELSE IF committed[r] = s THEN << >> ELSE transaction[r]
    BY <2>1 DEF Commits
  <2>4. \A r \in Surfaces : \A x \in Surfaces :
          CommitIn(transaction[r], x)' # 0 => CommitIn(transaction[r], x) # 0 \/ Synced(r)'
    BY <2>2, <2>3, EmptyCommit DEF CommitIn
  <2> QED BY <2>2, <2>4, CachedStays
<1>2. ASSUME NEW s \in Subsurfaces, wl_subsurface_set_position(s) PROVE CachedInv'
  <2>1. /\ \A c \in Surfaces : \A r : CommitIn(transaction'[c], r) = CommitIn(transaction[c], r)
        /\ UNCHANGED treeVars
    BY <1>2, PositionStep
  <2>2. \A r \in Surfaces : Synced(r) <=> Synced(r)'
    BY <2>1, SyncedIs DEF treeVars
  <2>3. \A c \in Surfaces : \A r : CommitIn(transaction[c], r)' = CommitIn(transaction[c], r)
    BY <2>1 DEF CommitIn
  <2> QED BY <2>2, <2>3, CachedStays
<1>3. ASSUME NEW s \in Subsurfaces, wl_subsurface_set_sync(s) PROVE CachedInv'
  <2>1. UNCHANGED <<transaction, committed>> /\ synchronous' = [synchronous EXCEPT ![s] = TRUE]
    BY <1>3 DEF wl_subsurface_set_sync
  <2>2. \A x \in Subsurfaces : synchronous[x] => synchronous'[x]
    BY <2>1 DEF TreeInv
  <2>3. \A r \in Surfaces : Synced(r) => Synced(r)'
    BY <2>1, <2>2, SyncedIs DEF SyncedIn
  <2>4. \A r \in Surfaces : \A x \in Surfaces : CommitIn(transaction[r], x)' = CommitIn(transaction[r], x)
    BY <2>1 DEF CommitIn
  <2> QED BY <2>3, <2>4, CachedStays
<1>4. ASSUME NEW s \in Subsurfaces, wl_subsurface_set_desync(s) PROVE CachedInv'
  <2> DEFINE sync == [synchronous EXCEPT ![s] = FALSE]
             D == Visited(s, sync)
  <2>1. \E o, R : Ordering(D, o) /\ Releases(D, o, R)
    BY <1>4, DesyncStep
  <2>2. synchronous' = sync /\ committed' = committed
    BY <1>4, DesyncStep
  <2>3. \A c \in Surfaces : transaction'[c] = IF c \in D THEN << >> ELSE transaction[c]
    BY <2>1 DEF Releases
  <2> HIDE DEF D
  <2> SUFFICES ASSUME NEW r \in Surfaces, NEW x \in Surfaces, CommitIn(transaction'[r], x) # 0
               PROVE  SyncedIn(committed, sync, r)
    BY <2>2, SyncedIs DEF CachedInv, CommitIn
  <2>4. r \notin D /\ transaction'[r] = transaction[r]
    BY <2>3, EmptyCommit
  <2>5. transaction[r] # << >> /\ Synced(r)
    BY <2>4, EmptyCommit DEF CachedInv
  <2> QED BY <2>4, <2>5, NotVisited DEF D
<1>5. ASSUME NEW s \in Subsurfaces, NEW above \in BOOLEAN, subsurface_place(s, above) PROVE CachedInv'
  BY <1>0, <1>5 DEF subsurface_place
<1>6. ASSUME NEW s \in Subsurfaces, NEW parent \in Surfaces, wl_subcompositor_get_subsurface(s, parent)
      PROVE  CachedInv'
  <2>1. /\ committed[s] = None /\ s \notin Ancestors(committed, parent)
        /\ committed' = [committed EXCEPT ![s] = parent]
        /\ synchronous' = [synchronous EXCEPT ![s] = TRUE]
        /\ transaction' = transaction
    BY <1>6, GetStep
  <2>2. committed \in Parents /\ Acyclic(committed)
    BY DEF TreeInv
  <2>3. \A x \in Surfaces : Ancestors(committed, x) \subseteq Ancestors(committed', x)
    BY <2>1, <2>2, AncestorsLinked
  <2>4. \A x \in Subsurfaces : synchronous[x] \/ committed[x] = None => synchronous'[x] \/ committed'[x] = None
    BY <2>1, <2>2 DEF TreeInv, Parents
  <2>5. \A r \in Surfaces : Synced(r) => Synced(r)'
    BY <2>3, <2>4, SyncedIs DEF SyncedIn
  <2>6. \A r \in Surfaces : \A x \in Surfaces : CommitIn(transaction[r], x)' = CommitIn(transaction[r], x)
    BY <2>1 DEF CommitIn
  <2> QED BY <2>5, <2>6, CachedStays
<1>7. ASSUME NEW s \in Subsurfaces, permanently_unmap_subsurface(s) PROVE CachedInv'
  <2>1. /\ committed' = [committed EXCEPT ![s] = None]
        /\ UNCHANGED <<transaction, synchronous>>
    BY <1>7, UnmapStep
  <2>2. committed \in Parents /\ Acyclic(committed)
    BY DEF TreeInv
  <2>3. \A x \in Surfaces :
          /\ s \in Ancestors(committed, x) => s \in Ancestors(committed', x)
          /\ s \notin Ancestors(committed, x) => Ancestors(committed', x) = Ancestors(committed, x)
    BY <2>1, <2>2, AncestorsUnlinked
  <2>4. committed'[s] = None /\ \A x \in Subsurfaces \ {s} : committed'[x] = committed[x]
    BY <2>1, <2>2 DEF Parents
  <2>5. \A r \in Surfaces : Synced(r) => Synced(r)'
    BY <2>1, <2>3, <2>4, SyncedIs DEF SyncedIn
  <2>6. \A r \in Surfaces : \A x \in Surfaces : CommitIn(transaction[r], x)' = CommitIn(transaction[r], x)
    BY <2>1 DEF CommitIn
  <2> QED BY <2>5, <2>6, CachedStays
<1>8. ASSUME NEW n \in 1..commits, Signal(n) PROVE CachedInv'
  BY <1>0, <1>8 DEF Signal, treeVars
<1>9. ASSUME NEW i \in DOMAIN queue, meta_wayland_transaction_apply(i) PROVE CachedInv'
  BY <1>0, <1>9 DEF meta_wayland_transaction_apply, treeVars
<1>10. CASE UNCHANGED vars
  BY <1>0, <1>10 DEF vars, treeVars
<1> QED BY <1>1, <1>2, <1>3, <1>4, <1>5, <1>6, <1>7, <1>8, <1>9, <1>10 DEF Next

(* TreeInv, TypeInv and CachedInv together *)
SurfaceInv == TreeInv /\ TypeInv /\ CachedInv

LEMMA SurfaceInvariant == Spec => []SurfaceInv
<1>1. Init => SurfaceInv
  <2> SUFFICES ASSUME Init PROVE CachedInv
    BY InitTree, InitTypes DEF SurfaceInv
  <2>1. \A r \in Surfaces : transaction[r] = << >>
    BY DEF Init
  <2> QED BY <2>1, EmptyCommit DEF CachedInv
<1>2. SurfaceInv /\ [Next]_vars => SurfaceInv'
  BY NextTree, NextTypes, NextCached DEF SurfaceInv
<1> QED BY <1>1, <1>2, PTL DEF Spec

(* A state waits in the cache of a surface only while the surface is       *)
(* synchronized: parent_desynced releases all that set_desync sets free,   *)
(* and neither reparenting nor destroying a sub-surface strands one.       *)
THEOREM CachedOnlyIfSynchronizedCorrect == Spec => []CachedOnlyIfSynchronized
<1>1. SurfaceInv => CachedOnlyIfSynchronized
  BY DEF SurfaceInv, CachedInv, CachedOnlyIfSynchronized, Cached, CommitIn, Synced
<1> QED BY <1>1, SurfaceInvariant, PTL

-----------------------------------------------------------------------------
(* The states of s in order of age: its content n, the transactions q that *)
(* are queued, the caches c of its ancestors from the root down, and the   *)
(* last commit l, which is one of them.                                    *)
Ordered(P, s, n, l, q, c) ==
    /\ n <= l
    /\ \A i \in DOMAIN q : q[i] # 0 => n < q[i] /\ q[i] <= l
    /\ \A r \in Surfaces : c[r] # 0 => r \in Ancestors(P, s) /\ n < c[r] /\ c[r] <= l
    /\ \A i, j \in DOMAIN q : i < j /\ q[i] # 0 /\ q[j] # 0 => q[i] < q[j]
    /\ \A i \in DOMAIN q : \A r \in Surfaces : q[i] # 0 /\ c[r] # 0 => q[i] < c[r]
    /\ \A r, t \in Surfaces : r # t /\ c[r] # 0 /\ c[t] # 0 /\ r \in Ancestors(P, t) => c[r] < c[t]
    /\ \/ n = l
       \/ \E i \in DOMAIN q : q[i] = l
       \/ \E r \in Surfaces : c[r] = l

InQueue(q, s) == [i \in DOMAIN q |-> CommitIn(q[i], s)]
InCaches(t, s) == [r \in Surfaces |-> CommitIn(t[r], s)]

OrderInv ==
    "reparents" \notin client => \A s \in Surfaces :
       /\ latest[s] <= commits
       /\ Ordered(committed, s, content[s], latest[s], InQueue(queue, s), InCaches(transaction, s))

(* Only one child of p has a state of s cached. *)
LEMMA OneChild ==
    ASSUME NEW P \in Parents, Acyclic(P), NEW s \in Surfaces, NEW p \in Surfaces,
           NEW k \in Surfaces, P[k] = p, k \in Ancestors(P, s)
    PROVE  /\ s # p /\ p \in Ancestors(P, s) /\ p # k /\ p \in Ancestors(P, k)
           /\ \A r \in Ancestors(P, p) : r # k /\ r \in Ancestors(P, k)
           /\ \A x \in Ancestors(P, s) : x # k /\ P[x] = p => FALSE
           /\ \A x \in Ancestors(P, s) : \/ x = k \/ x \in Ancestors(P, p)
                                         \/ x # p /\ k \in Ancestors(P, x)
<1>1. p # None
  BY SurfaceAssumption
<1>2. /\ k # p /\ k \notin Ancestors(P, p) /\ p \in Ancestors(P, k)
      /\ Ancestors(P, k) = {k} \cup Ancestors(P, p)
  BY <1>1, ChildBelow
<1>3. s # p
  BY <1>2
<1>4. Ancestors(P, k) \subseteq Ancestors(P, s)
  BY AncestorsTransitive
<1>5. ASSUME NEW x \in Ancestors(P, s)
      PROVE  \/ x = k \/ x \in Ancestors(P, p)
             \/ x # p /\ k \in Ancestors(P, x)
  <2>1. x \in Ancestors(P, k) \/ k \in Ancestors(P, x)
    BY AncestorsComparable
  <2> QED BY <1>2, <2>1
<1>6. ASSUME NEW x \in Ancestors(P, s), x # k, P[x] = p PROVE FALSE
  <2>1. x \in Surfaces
    BY AncestorsLeast
  <2>2. x \notin Ancestors(P, p) /\ Ancestors(P, x) = {x} \cup Ancestors(P, p)
    BY <1>1, <1>6, <2>1, ChildBelow
  <2> QED BY <1>2, <1>5, <1>6, <2>2
<1> QED BY <1>2, <1>3, <1>4, <1>5, <1>6

(* A commit of p that is cached: W is what p has of s afterwards. *)
CachesCommit(P, s, n, l, N, q, c, p, W, b, m, d) ==
    /\ P \in Parents /\ Acyclic(P) /\ s \in Surfaces /\ n \in Nat /\ l \in Nat
    /\ N \in Nat /\ q \in [1..N -> Nat] /\ c \in [Surfaces -> Nat]
    /\ Ordered(P, s, n, l, q, c)
    /\ p \in Surfaces /\ W \in Nat /\ b \in Nat /\ m \in Nat
    /\ \/ s = p /\ b = m /\ l < m
       \/ s # p /\ b = c[p] /\ m = l
    /\ \/ W = b /\ \A k \in Surfaces : P[k] = p => c[k] = 0
       \/ \E k \in Surfaces : P[k] = p /\ c[k] # 0 /\ W = c[k]
    /\ d \in [Surfaces -> Nat]
    /\ \A x \in Surfaces : d[x] = IF x = p THEN W ELSE IF P[x] = p THEN 0 ELSE c[x]

LEMMA OrderedCache ==
    ASSUME NEW P, NEW s, NEW n, NEW l, NEW N, NEW q, NEW c, NEW p, NEW W, NEW b, NEW m, NEW d,
           CachesCommit(P, s, n, l, N, q, c, p, W, b, m, d)
    PROVE  Ordered(P, s, n, m, q, d)
<1> USE DEF CachesCommit
<1>0. DOMAIN q = 1..N /\ \A i \in 1..N : q[i] \in Nat
  OBVIOUS
<1>1. \A x \in Surfaces : c[x] \in Nat /\ (c[x] # 0 => x \in Ancestors(P, s) /\ n < c[x] /\ c[x] <= l)
  BY DEF Ordered
<1>2. CASE s = p
  <2>1. W = m /\ l < m /\ n <= l
    <3>1. \A k \in Surfaces : P[k] = p /\ c[k] # 0 => FALSE
      BY <1>1, <1>2, OneChild
    <3> QED BY <1>2, <3>1 DEF Ordered
  <2>2. \A x \in Surfaces \ {p} : d[x] # 0 => d[x] = c[x] /\ x \in Ancestors(P, p) /\ n < d[x] /\ d[x] <= l
    BY <1>1, <1>2
  <2>3. d[p] = m
    BY <2>1
  <2>4. \A r \in Surfaces : d[r] # 0 => r \in Ancestors(P, s) /\ n < d[r] /\ d[r] <= m
    <3> TAKE r \in Surfaces
    <3>1. CASE r = p
      BY <1>2, <2>1, <2>3, <3>1, AncestorsLeast
    <3>2. CASE r # p
      BY <1>2, <2>1, <2>2, <3>2
    <3> QED BY <3>1, <3>2
  <2>5. ASSUME NEW r \in Surfaces, NEW t \in Surfaces, r # t, d[r] # 0, d[t] # 0, r \in Ancestors(P, t)
        PROVE  d[r] < d[t]
    <3>1. CASE t = p
      BY <2>1, <2>2, <2>3, <2>5, <3>1
    <3>2. CASE r = p
      <4>1. t \in Ancestors(P, p)
        BY <2>2, <2>5, <3>2
      <4> QED BY <2>5, <3>2, <4>1, AncestorsAntisymmetric
    <3>3. CASE r # p /\ t # p
      BY <2>2, <2>5, <3>3 DEF Ordered
    <3> QED BY <3>1, <3>2, <3>3
  <2>6. \A i \in 1..N : \A r \in Surfaces : q[i] # 0 /\ d[r] # 0 => q[i] < d[r]
    <3> TAKE i \in 1..N
    <3> TAKE r \in Surfaces
    <3>1. CASE r = p
      BY <1>0, <2>1, <2>3, <3>1 DEF Ordered
    <3>2. CASE r # p
      BY <1>0, <2>2, <3>2 DEF Ordered
    <3> QED BY <3>1, <3>2
  <2>7. \A i \in 1..N : q[i] # 0 => n < q[i] /\ q[i] <= m
    BY <1>0, <2>1 DEF Ordered
  <2>8. n <= m
    BY <2>1
  <2> QED BY <1>0, <2>3, <2>4, <2>5, <2>6, <2>7, <2>8 DEF Ordered
<1>3. CASE s # p /\ \A k \in Surfaces : P[k] = p => c[k] = 0
  <2>1. W = c[p] /\ m = l
    BY <1>3
  <2>2. \A x \in Surfaces : d[x] = c[x]
    BY <1>3, <2>1
  <2>3. d = c
    BY <2>2
  <2> QED BY <2>1, <2>3
<1>4. CASE s # p /\ \E k \in Surfaces : P[k] = p /\ c[k] # 0
  <2>1. PICK k \in Surfaces : P[k] = p /\ c[k] # 0 /\ W = c[k]
    BY <1>4
  <2>2. m = l /\ k \in Ancestors(P, s)
    BY <1>1, <1>4, <2>1
  <2>3. /\ p \in Ancestors(P, s) /\ p # k /\ p \in Ancestors(P, k)
        /\ \A r \in Ancestors(P, p) : r # k /\ r \in Ancestors(P, k)
        /\ \A x \in Ancestors(P, s) : x # k /\ P[x] = p => FALSE
        /\ \A x \in Ancestors(P, s) : \/ x = k \/ x \in Ancestors(P, p)
                                      \/ x # p /\ k \in Ancestors(P, x)
    BY <2>1, <2>2, OneChild
  <2>4. d[p] = c[k]
    BY <2>1
  <2>5. \A x \in Surfaces \ {p} : d[x] # 0 => d[x] = c[x] /\ x # k /\ x \in Ancestors(P, s)
    BY <1>1, <2>1
  <2>6. \A r \in Surfaces : d[r] # 0 => r \in Ancestors(P, s) /\ n < d[r] /\ d[r] <= l
    BY <1>1, <2>1, <2>3, <2>4, <2>5
  <2>7. ASSUME NEW r \in Surfaces, NEW t \in Surfaces, r # t, d[r] # 0, d[t] # 0, r \in Ancestors(P, t)
        PROVE  d[r] < d[t]
    <3>1. CASE t = p
      <4>1. r # k /\ r \in Ancestors(P, k) /\ d[r] = c[r]
        BY <2>3, <2>5, <2>7, <3>1
      <4>2. c[r] < c[k]
        BY <2>1, <2>7, <4>1 DEF Ordered
      <4> QED BY <2>4, <3>1, <4>1, <4>2
    <3>2. CASE r = p
      <4>1. d[t] = c[t] /\ t # k /\ t \in Ancestors(P, s)
        BY <2>5, <2>7, <3>2
      <4>2. t \notin Ancestors(P, p)
        BY <2>7, <3>2, AncestorsAntisymmetric
      <4>3. k \in Ancestors(P, t)
        BY <2>3, <4>1, <4>2
      <4>4. c[k] < c[t]
        BY <2>1, <2>7, <4>1, <4>3 DEF Ordered
      <4> QED BY <2>4, <3>2, <4>1, <4>4
    <3>3. CASE r # p /\ t # p
      BY <2>5, <2>7, <3>3 DEF Ordered
    <3> QED BY <3>1, <3>2, <3>3
  <2>8. \A i \in 1..N : \A r \in Surfaces : q[i] # 0 /\ d[r] # 0 => q[i] < d[r]
    <3> TAKE i \in 1..N
    <3> TAKE r \in Surfaces
    <3>1. CASE r = p
      BY <1>0, <2>1, <2>4, <3>1 DEF Ordered
    <3>2. CASE r # p
      BY <1>0, <2>5, <3>2 DEF Ordered
    <3> QED BY <3>1, <3>2
  <2>9. \/ n = l \/ (\E i \in 1..N : q[i] = l) \/ (\E r \in Surfaces : d[r] = l)
    <3>1. SUFFICES ASSUME NEW r \in Surfaces, c[r] = l, n # l PROVE d[k] = l \/ d[p] = l \/ d[r] = l
      BY <1>0 DEF Ordered
    <3>2. n <= l /\ l # 0
      BY <3>1 DEF Ordered
    <3>3. CASE r = k
      BY <2>4, <3>1, <3>3
    <3>4. CASE r = p
      <4>1. c[p] < c[k] /\ c[k] <= l
        BY <1>1, <2>1, <2>3, <3>1, <3>2, <3>4 DEF Ordered
      <4> QED BY <1>1, <3>1, <3>4, <4>1
    <3>5. CASE r # k /\ r # p
      <4>1. P[r] # p
        BY <1>1, <2>3, <3>1, <3>2, <3>5
      <4> QED BY <3>1, <3>5, <4>1
    <3> QED BY <3>3, <3>4, <3>5
  <2> QED BY <1>0, <2>2, <2>6, <2>7, <2>8, <2>9 DEF Ordered
<1> QED BY <1>2, <1>3, <1>4

(* A commit of p that is queued: W is what it has of s, and nothing is     *)
(* cached above.                                                           *)
QueuesCommit(P, s, n, l, N, q, c, p, W, b, m, z, d) ==
    /\ P \in Parents /\ Acyclic(P) /\ s \in Surfaces /\ n \in Nat /\ l \in Nat
    /\ N \in Nat /\ q \in [1..N -> Nat] /\ c \in [Surfaces -> Nat]
    /\ Ordered(P, s, n, l, q, c)
    /\ p \in Surfaces /\ \A x \in Ancestors(P, p) : c[x] = 0
    /\ W \in Nat /\ b \in Nat /\ m \in Nat
    /\ \/ s = p /\ b = m /\ l < m
       \/ s # p /\ b = 0 /\ m = l
    /\ \/ W = b /\ \A k \in Surfaces : P[k] = p => c[k] = 0
       \/ \E k \in Surfaces : P[k] = p /\ c[k] # 0 /\ W = c[k]
    /\ z \in [1..N + 1 -> Nat] /\ (\A i \in 1..N : z[i] = q[i]) /\ z[N + 1] = W
    /\ d \in [Surfaces -> Nat]
    /\ \A x \in Surfaces : d[x] = IF P[x] = p THEN 0 ELSE c[x]

LEMMA OrderedQueue ==
    ASSUME NEW P, NEW s, NEW n, NEW l, NEW N, NEW q, NEW c, NEW p, NEW W, NEW b, NEW m, NEW z, NEW d,
           QueuesCommit(P, s, n, l, N, q, c, p, W, b, m, z, d)
    PROVE  Ordered(P, s, n, m, z, d)
<1> USE DEF QueuesCommit
<1>0. /\ DOMAIN q = 1..N /\ \A i \in 1..N : q[i] \in Nat
      /\ DOMAIN z = 1..N + 1 /\ 1..N + 1 = 1..N \cup {N + 1} /\ \A i \in 1..N : i # N + 1
      /\ \A i \in 1..N : i < N + 1 /\ ~(N + 1 < i)
      /\ ~(N + 1 < N + 1)
  OBVIOUS
<1>1. \A x \in Surfaces : c[x] \in Nat /\ (c[x] # 0 => x \in Ancestors(P, s) /\ n < c[x] /\ c[x] <= l)
  BY DEF Ordered
<1>2. /\ n <= l
      /\ \A i \in 1..N : q[i] # 0 => n < q[i] /\ q[i] <= l
      /\ \A i, j \in 1..N : i < j /\ q[i] # 0 /\ q[j] # 0 => q[i] < q[j]
  BY <1>0 DEF Ordered
<1>3. CASE s = p
  <2>1. \A x \in Surfaces : c[x] = 0 /\ d[x] = 0
    BY <1>1, <1>3
  <2>2. W = m /\ l < m
    BY <1>3, <2>1
  <2>3. n <= m /\ n < m
    BY <1>2, <2>2
  <2>4. \A i \in 1..N + 1 : z[i] # 0 => n < z[i] /\ z[i] <= m
    <3> TAKE i \in 1..N + 1
    <3>1. CASE i \in 1..N
      <4>1. z[i] = q[i] /\ q[i] \in Nat /\ (q[i] # 0 => n < q[i] /\ q[i] <= l)
        BY <1>0, <1>2, <3>1
      <4> QED BY <2>2, <4>1
    <3>2. CASE i = N + 1
      BY <2>2, <2>3, <3>2
    <3> QED BY <1>0, <3>1, <3>2
  <2>5. \A i, j \in 1..N + 1 : i < j /\ z[i] # 0 /\ z[j] # 0 => z[i] < z[j]
    <3> TAKE i, j \in 1..N + 1
    <3>1. CASE i \in 1..N /\ j \in 1..N
      BY <1>2, <3>1
    <3>2. CASE i \in 1..N /\ j = N + 1
      BY <1>0, <1>2, <2>2, <3>2
    <3>3. CASE i = N + 1
      BY <1>0, <3>3
    <3> QED BY <1>0, <3>1, <3>2, <3>3
  <2>6. \E i \in 1..N + 1 : z[i] = m
    BY <1>0, <2>2
  <2> QED BY <1>0, <2>1, <2>3, <2>4, <2>5, <2>6 DEF Ordered
<1>4. CASE s # p /\ \A k \in Surfaces : P[k] = p => c[k] = 0
  <2>1. W = 0 /\ m = l
    BY <1>4
  <2>2. \A x \in Surfaces : d[x] = c[x]
    BY <1>4
  <2>3. d = c
    BY <2>2
  <2>4. \A i \in 1..N + 1 : z[i] # 0 => i \in 1..N /\ z[i] = q[i]
    BY <1>0, <2>1
  <2>5. \A i \in 1..N + 1 : \A r \in Surfaces : z[i] # 0 /\ c[r] # 0 => z[i] < c[r]
    BY <1>0, <2>4 DEF Ordered
  <2>6. \/ n = l \/ (\E i \in 1..N + 1 : z[i] = l) \/ (\E r \in Surfaces : c[r] = l)
    BY <1>0 DEF Ordered
  <2>7. \A i \in 1..N + 1 : z[i] # 0 => n < z[i] /\ z[i] <= l
    BY <1>2, <2>4
  <2>8. \A i, j \in 1..N + 1 : i < j /\ z[i] # 0 /\ z[j] # 0 => z[i] < z[j]
    BY <1>2, <2>4
  <2>9. \A r, t \in Surfaces : r # t /\ c[r] # 0 /\ c[t] # 0 /\ r \in Ancestors(P, t) => c[r] < c[t]
    BY DEF Ordered
  <2> QED BY <1>0, <1>1, <1>2, <2>1, <2>3, <2>5, <2>6, <2>7, <2>8, <2>9 DEF Ordered
<1>5. CASE s # p /\ \E k \in Surfaces : P[k] = p /\ c[k] # 0
  <2>1. PICK k \in Surfaces : P[k] = p /\ c[k] # 0 /\ W = c[k]
    BY <1>5
  <2>2. m = l /\ k \in Ancestors(P, s) /\ n < W /\ W <= l
    BY <1>1, <1>5, <2>1
  <2>3. /\ \A x \in Ancestors(P, s) : x # k /\ P[x] = p => FALSE
        /\ \A x \in Ancestors(P, s) : \/ x = k \/ x \in Ancestors(P, p)
                                      \/ x # p /\ k \in Ancestors(P, x)
    BY <2>1, <2>2, OneChild
  <2>4. \A x \in Surfaces : d[x] # 0 => d[x] = c[x] /\ x # k /\ k \in Ancestors(P, x)
    BY <1>1, <2>1, <2>3
  <2>5. \A x \in Surfaces : d[x] # 0 => W < d[x]
    BY <2>1, <2>4 DEF Ordered
  <2>6. \A i \in 1..N : q[i] # 0 => q[i] < W
    BY <1>0, <2>1 DEF Ordered
  <2>7. \A i \in 1..N + 1 : \A r \in Surfaces : z[i] # 0 /\ d[r] # 0 => z[i] < d[r]
    <3> TAKE i \in 1..N + 1
    <3> TAKE r \in Surfaces
    <3>1. CASE i = N + 1
      BY <2>5, <3>1
    <3>2. CASE i \in 1..N
      BY <1>0, <2>4, <3>2 DEF Ordered
    <3> QED BY <1>0, <3>1, <3>2
  <2>8. \A i, j \in 1..N + 1 : i < j /\ z[i] # 0 /\ z[j] # 0 => z[i] < z[j]
    <3> TAKE i, j \in 1..N + 1
    <3>1. CASE i \in 1..N /\ j \in 1..N
      BY <1>2, <3>1
    <3>2. CASE i \in 1..N /\ j = N + 1
      BY <2>6, <3>2
    <3>3. CASE i = N + 1
      BY <1>0, <3>3
    <3> QED BY <1>0, <3>1, <3>2, <3>3
  <2>9. \A i \in 1..N + 1 : z[i] # 0 => n < z[i] /\ z[i] <= l
    BY <1>0, <1>2, <2>2
  <2>10. \A r \in Surfaces : d[r] # 0 => r \in Ancestors(P, s) /\ n < d[r] /\ d[r] <= l
    BY <1>1, <2>4
  <2>11. \A r, t \in Surfaces : r # t /\ d[r] # 0 /\ d[t] # 0 /\ r \in Ancestors(P, t) => d[r] < d[t]
    BY <2>4 DEF Ordered
  <2>12. \/ n = l \/ (\E i \in 1..N + 1 : z[i] = l) \/ (\E r \in Surfaces : d[r] = l)
    <3>1. (\E i \in 1..N : q[i] = l) => \E i \in 1..N + 1 : z[i] = l
      BY <1>0
    <3>2. SUFFICES ASSUME NEW r \in Surfaces, c[r] = l, n # l PROVE z[N + 1] = l \/ d[r] = l
      BY <1>0, <3>1 DEF Ordered
    <3>3. l # 0
      BY <1>2, <3>2
    <3>4. CASE r = k
      BY <2>1, <3>2, <3>4
    <3>5. CASE r # k
      <4>1. P[r] # p
        BY <1>1, <2>3, <3>2, <3>3, <3>5
      <4> QED BY <3>2, <4>1
    <3> QED BY <3>4, <3>5
  <2> QED BY <1>0, <1>2, <2>2, <2>7, <2>8, <2>9, <2>10, <2>11, <2>12 DEF Ordered
<1> QED BY <1>3, <1>4, <1>5

(* The tree grows above a surface that had no parent. *)
LEMMA OrderedLinked ==
    ASSUME NEW P \in Parents, NEW Q \in Parents, Acyclic(Q),
           \A x \in Surfaces : Ancestors(P, x) \subseteq Ancestors(Q, x),
           NEW s \in Surfaces, NEW n, NEW l, NEW q, NEW c, Ordered(P, s, n, l, q, c)
    PROVE  Ordered(Q, s, n, l, q, c)
<1>1. \A r \in Surfaces : c[r] # 0 => r \in Ancestors(Q, s) /\ r \in Ancestors(P, s) /\ n < c[r] /\ c[r] <= l
  BY DEF Ordered
<1>2. ASSUME NEW r \in Surfaces, NEW t \in Surfaces, r # t, c[r] # 0, c[t] # 0, r \in Ancestors(Q, t)
      PROVE  c[r] < c[t]
  <2>1. r \in Ancestors(P, t) \/ t \in Ancestors(P, r)
    BY <1>1, <1>2, AncestorsComparable
  <2>2. t \notin Ancestors(Q, r)
    BY <1>2, AncestorsAntisymmetric
  <2>3. r \in Ancestors(P, t)
    BY <2>1, <2>2
  <2> QED BY <1>2, <2>3 DEF Ordered
<1>3. \A r, t \in Surfaces : r # t /\ c[r] # 0 /\ c[t] # 0 /\ r \in Ancestors(Q, t) => c[r] < c[t]
  BY <1>2
<1> QED BY <1>1, <1>3 DEF Ordered

(* The caches of D are queued in the order o, and nothing is cached above. *)
ReleasesCaches(P, s, n, l, N, q, c, D, M, o, z, d) ==
    /\ P \in Parents /\ Acyclic(P) /\ s \in Surfaces /\ n \in Nat /\ l \in Nat
    /\ N \in Nat /\ q \in [1..N -> Nat] /\ c \in [Surfaces -> Nat]
    /\ Ordered(P, s, n, l, q, c)
    /\ D \in SUBSET Surfaces /\ M \in Nat /\ o \in [1..M -> D]
    /\ \A x \in D : \E j \in 1..M : o[j] = x
    /\ \A i, j \in 1..M : i < j => o[i] # o[j] /\ o[j] \notin Ancestors(P, o[i])
    /\ \A x \in D, y \in Surfaces \ D : c[y] # 0 => y \notin Ancestors(P, x)
    /\ z \in [1..N + M -> Nat]
    /\ \A i \in 1..N : z[i] = q[i]
    /\ \A j \in 1..M : z[N + j] = c[o[j]]
    /\ d \in [Surfaces -> Nat] /\ \A x \in Surfaces : d[x] = IF x \in D THEN 0 ELSE c[x]

LEMMA OrderedReleased ==
    ASSUME NEW P, NEW s, NEW n, NEW l, NEW N, NEW q, NEW c, NEW D, NEW M, NEW o, NEW z, NEW d,
           ReleasesCaches(P, s, n, l, N, q, c, D, M, o, z, d)
    PROVE  Ordered(P, s, n, l, z, d)
<1> USE DEF ReleasesCaches
<1>0. /\ DOMAIN q = 1..N /\ \A i \in 1..N : q[i] \in Nat
      /\ DOMAIN z = 1..N + M /\ \A j \in 1..M : o[j] \in D /\ o[j] \in Surfaces
      /\ 1..N \subseteq 1..N + M /\ \A j \in 1..M : N + j \in 1..N + M
  OBVIOUS
<1>1. \A x \in Surfaces : c[x] \in Nat /\ (c[x] # 0 => x \in Ancestors(P, s) /\ n < c[x] /\ c[x] <= l)
  BY DEF Ordered
<1>2. /\ n <= l
      /\ \A i \in 1..N : q[i] # 0 => n < q[i] /\ q[i] <= l
      /\ \A i, j \in 1..N : i < j /\ q[i] # 0 /\ q[j] # 0 => q[i] < q[j]
      /\ \A i \in 1..N : \A r \in Surfaces : q[i] # 0 /\ c[r] # 0 => q[i] < c[r]
      /\ \A r, t \in Surfaces : r # t /\ c[r] # 0 /\ c[t] # 0 /\ r \in Ancestors(P, t) => c[r] < c[t]
  BY <1>0 DEF Ordered
<1>3. ASSUME NEW i \in 1..N + M
      PROVE  \/ i \in 1..N /\ z[i] = q[i]
             \/ \E j \in 1..M : i = N + j /\ z[i] = c[o[j]]
  <2>1. CASE i \in 1..N
    BY <2>1
  <2>2. CASE i \notin 1..N
    <3>1. i - N \in 1..M /\ N + (i - N) = i
      BY <2>2
    <3> QED BY <3>1
  <2> QED BY <2>1, <2>2
<1>4. \A i \in 1..N + M : z[i] # 0 => n < z[i] /\ z[i] <= l
  BY <1>0, <1>1, <1>2, <1>3
<1>5. \A x \in Surfaces : d[x] # 0 => x \notin D /\ d[x] = c[x]
  OBVIOUS
<1>6. \A r \in Surfaces : d[r] # 0 => r \in Ancestors(P, s) /\ n < d[r] /\ d[r] <= l
  BY <1>1, <1>5
<1>7. ASSUME NEW i \in 1..N + M, NEW k \in 1..N + M, i < k, z[i] # 0, z[k] # 0 PROVE z[i] < z[k]
  <2>1. CASE i \in 1..N /\ k \in 1..N
    BY <1>2, <1>7, <2>1
  <2>2. CASE i \in 1..N /\ k \notin 1..N
    <3>1. PICK j \in 1..M : z[k] = c[o[j]]
      BY <1>3, <2>2
    <3> QED BY <1>0, <1>2, <1>7, <2>2, <3>1
  <2>3. CASE i \notin 1..N /\ k \notin 1..N
    <3>1. PICK j \in 1..M : i = N + j /\ z[i] = c[o[j]]
      BY <1>3, <2>3
    <3>2. PICK g \in 1..M : k = N + g /\ z[k] = c[o[g]]
      BY <1>3, <2>3
    <3>3. j < g
      BY <1>7, <3>1, <3>2
    <3>4. o[j] # o[g] /\ o[g] \notin Ancestors(P, o[j])
      BY <3>3
    <3>5. o[j] \in Ancestors(P, s) /\ o[g] \in Ancestors(P, s)
      BY <1>0, <1>1, <1>7, <3>1, <3>2
    <3>6. o[j] \in Ancestors(P, o[g])
      BY <3>4, <3>5, AncestorsComparable
    <3> QED BY <1>0, <1>2, <1>7, <3>1, <3>2, <3>4, <3>6
  <2>4. CASE i \notin 1..N /\ k \in 1..N
    <3>1. i <= N
      BY <1>7, <2>4
    <3> QED BY <2>4, <3>1
  <2> QED BY <2>1, <2>2, <2>3, <2>4
<1>8. ASSUME NEW i \in 1..N + M, NEW r \in Surfaces, z[i] # 0, d[r] # 0 PROVE z[i] < d[r]
  <2>1. d[r] = c[r] /\ r \notin D
    BY <1>5, <1>8
  <2>2. CASE i \in 1..N
    BY <1>2, <1>8, <2>1, <2>2
  <2>3. CASE i \notin 1..N
    <3>1. PICK j \in 1..M : i = N + j /\ z[i] = c[o[j]]
      BY <1>3, <2>3
    <3>2. r \notin Ancestors(P, o[j]) /\ r # o[j]
      BY <1>0, <1>8, <2>1
    <3>3. o[j] \in Ancestors(P, s) /\ r \in Ancestors(P, s)
      BY <1>0, <1>1, <1>8, <2>1, <3>1
    <3>4. o[j] \in Ancestors(P, r)
      BY <3>2, <3>3, AncestorsComparable
    <3> QED BY <1>0, <1>2, <1>8, <2>1, <3>1, <3>2, <3>4
  <2> QED BY <2>2, <2>3
<1>9. \A r, t \in Surfaces : r # t /\ d[r] # 0 /\ d[t] # 0 /\ r \in Ancestors(P, t) => d[r] < d[t]
  BY <1>2, <1>5
<1>10. \/ n = l \/ (\E i \in 1..N + M : z[i] = l) \/ (\E r \in Surfaces : d[r] = l)
  <2>1. (\E i \in 1..N : q[i] = l) => \E i \in 1..N + M : z[i] = l
    BY <1>0
  <2>2. SUFFICES ASSUME NEW r \in Surfaces, c[r] = l
                 PROVE  (\E i \in 1..N + M : z[i] = l) \/ d[r] = l
    BY <1>0, <2>1 DEF Ordered
  <2>3. CASE r \in D
    <3>1. PICK j \in 1..M : o[j] = r
      BY <2>3
    <3> QED BY <1>0, <2>2, <3>1
  <2> QED BY <2>2, <2>3
<1> QED BY <1>0, <1>2, <1>4, <1>6, <1>7, <1>8, <1>9, <1>10 DEF Ordered

(* The i-th transaction is applied: none before it has a state of s, if it *)
(* has one.                                                                *)
AppliesOne(P, s, n, l, N, q, c, i, z, k) ==
    /\ n \in Nat /\ l \in Nat
    /\ N \in Nat /\ q \in [1..N -> Nat] /\ c \in [Surfaces -> Nat]
    /\ Ordered(P, s, n, l, q, c)
    /\ i \in 1..N /\ \A j \in 1..(i - 1) : q[i] # 0 => q[j] = 0
    /\ z \in [1..N - 1 -> Nat]
    /\ \A j \in 1..N - 1 : z[j] = IF j < i THEN q[j] ELSE q[j + 1]
    /\ k \in Nat /\ k = IF q[i] # 0 THEN q[i] ELSE n

LEMMA OrderedApplied ==
    ASSUME NEW P, NEW s, NEW n, NEW l, NEW N, NEW q, NEW c, NEW i, NEW z, NEW k,
           AppliesOne(P, s, n, l, N, q, c, i, z, k)
    PROVE  Ordered(P, s, k, l, z, c) /\ n <= k
<1> USE DEF AppliesOne
<1>0. /\ DOMAIN q = 1..N /\ \A j \in 1..N : q[j] \in Nat
      /\ DOMAIN z = 1..N - 1
  OBVIOUS
<1>1. /\ n <= l
      /\ \A j \in 1..N : q[j] # 0 => n < q[j] /\ q[j] <= l
      /\ \A j, g \in 1..N : j < g /\ q[j] # 0 /\ q[g] # 0 => q[j] < q[g]
      /\ \A j \in 1..N : \A r \in Surfaces : q[j] # 0 /\ c[r] # 0 => q[j] < c[r]
      /\ \A r \in Surfaces : c[r] \in Nat /\ (c[r] # 0 => r \in Ancestors(P, s) /\ n < c[r] /\ c[r] <= l)
  BY <1>0 DEF Ordered
<1>2. n <= k /\ k <= l
  BY <1>1
<1> DEFINE old(j) == IF j < i THEN j ELSE j + 1
<1>3. \A j \in 1..N - 1 : old(j) \in 1..N /\ old(j) # i /\ z[j] = q[old(j)]
  OBVIOUS
<1>4. \A j, g \in 1..N - 1 : j < g => old(j) < old(g)
  OBVIOUS
<1>5. \A j \in 1..N \ {i} : \E g \in 1..N - 1 : old(g) = j
  <2> TAKE j \in 1..N \ {i}
  <2>1. CASE j < i
    <3>1. j \in 1..N - 1 /\ old(j) = j
      BY <2>1
    <3> QED BY <3>1
  <2>2. CASE j > i
    <3>1. j - 1 \in 1..N - 1 /\ old(j - 1) = j
      BY <2>2
    <3> QED BY <3>1
  <2> QED BY <2>1, <2>2
<1>6. \A j \in 1..N \ {i} : q[j] # 0 => k < q[j]
  <2> SUFFICES ASSUME NEW j \in 1..N \ {i}, q[j] # 0 PROVE k < q[j]
    OBVIOUS
  <2>1. CASE j < i
    <3>1. j \in 1..(i - 1)
      BY <2>1
    <3> QED BY <1>1, <3>1
  <2>2. CASE j > i
    BY <1>1, <2>2
  <2> QED BY <2>1, <2>2
<1> HIDE DEF old
<1>7. \A j \in 1..N - 1 : z[j] # 0 => k < z[j] /\ z[j] <= l
  BY <1>1, <1>3, <1>6
<1>8. \A r \in Surfaces : c[r] # 0 => r \in Ancestors(P, s) /\ k < c[r] /\ c[r] <= l
  BY <1>1
<1>9. \A j, g \in 1..N - 1 : j < g /\ z[j] # 0 /\ z[g] # 0 => z[j] < z[g]
  BY <1>1, <1>3, <1>4
<1>10. \A j \in 1..N - 1 : \A r \in Surfaces : z[j] # 0 /\ c[r] # 0 => z[j] < c[r]
  BY <1>1, <1>3
<1>11. \/ k = l \/ (\E j \in 1..N - 1 : z[j] = l) \/ (\E r \in Surfaces : c[r] = l)
  <2>1. CASE n = l
    BY <1>2, <2>1
  <2>2. ASSUME NEW j \in 1..N, q[j] = l PROVE k = l \/ \E g \in 1..N - 1 : z[g] = l
    <3>1. CASE j = i
      <4>1. q[i] = 0 => n = l
        BY <1>1, <2>2, <3>1
      <4> QED BY <2>2, <3>1, <4>1
    <3>2. CASE j # i
      BY <1>3, <1>5, <2>2, <3>2
    <3> QED BY <3>1, <3>2
  <2> QED BY <1>0, <2>1, <2>2 DEF Ordered
<1>12. \A r, t \in Surfaces : r # t /\ c[r] # 0 /\ c[t] # 0 /\ r \in Ancestors(P, t) => c[r] < c[t]
  BY DEF Ordered
<1> QED BY <1>0, <1>2, <1>7, <1>8, <1>9, <1>10, <1>11, <1>12 DEF Ordered

LEMMA Views ==
    ASSUME NEW q \in Seq(Partial(States)), NEW t \in [Surfaces -> Partial(Entries)], NEW s
    PROVE  /\ Len(q) \in Nat /\ InQueue(q, s) \in [1..Len(q) -> Nat] /\ InCaches(t, s) \in [Surfaces -> Nat]
           /\ \A i \in 1..Len(q) : InQueue(q, s)[i] = CommitIn(q[i], s)
           /\ \A r \in Surfaces : InCaches(t, s)[r] = CommitIn(t[r], s)
<1>1. Len(q) \in Nat /\ DOMAIN q = 1..Len(q) /\ \A i \in 1..Len(q) : q[i] \in Partial(States)
  BY InList
<1>2. \A i \in 1..Len(q) : CommitIn(q[i], s) \in Nat
  BY <1>1, CommitInType
<1>3. \A r \in Surfaces : t[r] \in Partial(States)
  BY CachedAreStates
<1>4. \A r \in Surfaces : CommitIn(t[r], s) \in Nat
  BY <1>3, CommitInType
<1> QED BY <1>1, <1>2, <1>4 DEF InQueue, InCaches

LEMMA OrderStays ==
    ASSUME OrderInv, UNCHANGED <<commits, committed, content, queue, latest, client>>,
           \A c \in Surfaces : \A r : CommitIn(transaction'[c], r) = CommitIn(transaction[c], r)
    PROVE  OrderInv'
<1>1. \A s : InCaches(transaction', s) = InCaches(transaction, s)
  BY DEF InCaches
<1> QED BY <1>1 DEF OrderInv

(* Nothing is cached above a surface that is not synchronized. *)
LEMMA NothingAbove ==
    ASSUME TreeInv, CachedInv, NEW p \in Surfaces, ~Synced(p), NEW x \in Ancestors(committed, p),
           NEW s \in Surfaces
    PROVE  CommitIn(transaction[x], s) = 0
<1>1. committed \in Parents
  BY DEF TreeInv
<1>2. x \in Surfaces
  BY <1>1, AncestorsTransitive
<1>3. ~SyncedIn(committed, synchronous, x)
  BY <1>1, SyncedIs, SyncedUp
<1>4. ~Synced(x)
  BY <1>3, SyncedIs
<1> QED BY <1>2, <1>4 DEF CachedInv

LEMMA CommitOrder ==
    ASSUME SurfaceInv, SurfaceInv', OrderInv, NEW p \in Surfaces, NEW W, NEW Z, Commits(p, W, Z)
    PROVE  OrderInv'
<1>0. TreeInv /\ TypeInv /\ CachedInv /\ TypeInv'
  BY DEF SurfaceInv
<1>1. /\ W \in Partial(Entries) /\ Z \in Partial(States) /\ Gathers(p, W)
      /\ \A r : CommitIn(Z, r) = CommitIn(W, r)
      /\ commits' = commits + 1 /\ latest' = [latest EXCEPT ![p] = commits + 1]
      /\ \A c \in Surfaces : transaction'[c] = IF c = p /\ Synced(p) THEN W
                                               ELSE IF committed[c] = p THEN << >>
                                               ELSE transaction[c]
      /\ queue' = IF Synced(p) THEN queue ELSE Append(queue, Z)
      /\ committed' = committed /\ content' = content /\ client' = client
  BY DEF Commits, treeVars
<1>2. /\ committed \in Parents /\ Acyclic(committed) /\ commits \in Nat
      /\ latest \in [Surfaces -> Nat] /\ content \in [Surfaces -> Nat]
      /\ queue \in Seq(Partial(States)) /\ queue' \in Seq(Partial(States))
      /\ transaction \in [Surfaces -> Partial(Entries)] /\ transaction' \in [Surfaces -> Partial(Entries)]
  BY <1>0 DEF TreeInv, TypeInv
<1> SUFFICES ASSUME "reparents" \notin client, NEW s \in Surfaces
             PROVE  /\ latest'[s] <= commits'
                    /\ Ordered(committed, s, content[s], latest'[s], InQueue(queue', s), InCaches(transaction', s))
  BY <1>1 DEF OrderInv
<1> DEFINE c == InCaches(transaction, s)
           d == InCaches(transaction', s)
           q == InQueue(queue, s)
           z == InQueue(queue', s)
           w == CommitIn(W, s)
           b == Base(p, s)
           l == latest[s]
           m == latest'[s]
           N == Len(queue)
           n == content[s]
<1>3. /\ latest[s] <= commits
      /\ Ordered(committed, s, content[s], latest[s], q, c)
  BY DEF OrderInv
<1>4. /\ N \in Nat /\ q \in [1..N -> Nat] /\ c \in [Surfaces -> Nat] /\ d \in [Surfaces -> Nat]
      /\ z \in [1..Len(queue') -> Nat]
      /\ \A i \in 1..N : q[i] = CommitIn(queue[i], s)
      /\ \A i \in 1..Len(queue') : z[i] = CommitIn(queue'[i], s)
      /\ \A r \in Surfaces : c[r] = CommitIn(transaction[r], s)
      /\ \A r \in Surfaces : d[r] = CommitIn(transaction'[r], s)
  BY <1>2, Views
<1>5. l \in Nat /\ m \in Nat /\ m = (IF s = p THEN commits + 1 ELSE l) /\ n \in Nat
  BY <1>1, <1>2
<1>6. m <= commits' /\ (s = p => l < m) /\ (s # p => m = l)
  BY <1>1, <1>2, <1>3, <1>5
<1>7. w \in Nat
  BY <1>1, CachedAreStates, CommitInType
<1>8. b = IF s = p THEN m ELSE IF Synced(p) THEN c[p] ELSE 0
  BY <1>4, <1>5 DEF Base
<1>9. b \in Nat
  BY <1>4, <1>5, <1>8
<1>10. \/ w = b /\ \A k \in Surfaces : committed[k] = p => c[k] = 0
       \/ \E k \in Surfaces : committed[k] = p /\ c[k] # 0 /\ w = c[k]
  <2>1. \A k \in Surfaces : committed[k] = p <=> k \in Children(p)
    BY <1>0, SurfaceAssumption DEF Children, TreeInv, Surfaces
  <2>2. Children(p) \subseteq Surfaces
    BY SurfacesFinite DEF Children
  <2>3. \/ /\ \A k \in Children(p) : CommitIn(transaction[k], s) = 0
           /\ w = b
        \/ \E k \in Children(p) : CommitIn(transaction[k], s) # 0 /\ w = CommitIn(transaction[k], s)
    BY <1>1 DEF Gathers
  <2> HIDE DEF c, w, b
  <2> QED BY <1>4, <2>1, <2>2, <2>3
<1>11. \A x \in Surfaces : d[x] = IF x = p /\ Synced(p) THEN w
                                  ELSE IF committed[x] = p THEN 0 ELSE c[x]
  <2> TAKE x \in Surfaces
  <2>1. d[x] = CommitIn(transaction'[x], s) /\ c[x] = CommitIn(transaction[x], s)
    BY <1>4
  <2> HIDE DEF c, d
  <2> QED BY <1>1, <2>1, EmptyCommit
<1>12. CASE Synced(p)
  <2>1. z = q
    BY <1>1, <1>12
  <2> HIDE DEF c, d, q, z, w, b, l, m, N, n
  <2>2. Ordered(committed, s, n, l, q, c)
    BY <1>3 DEF l, n
  <2>3. \/ s = p /\ b = m /\ l < m
        \/ s # p /\ b = c[p] /\ m = l
    BY <1>6, <1>8, <1>12
  <2>4. \A x \in Surfaces : d[x] = IF x = p THEN w ELSE IF committed[x] = p THEN 0 ELSE c[x]
    BY <1>11, <1>12
  <2>5. Ordered(committed, s, n, m, q, d)
    <3>1. /\ committed \in Parents /\ Acyclic(committed) /\ N \in Nat
          /\ q \in [1..N -> Nat] /\ c \in [Surfaces -> Nat] /\ d \in [Surfaces -> Nat]
          /\ n \in Nat /\ l \in Nat /\ m \in Nat
      BY <1>2, <1>4, <1>5
    <3>2. CachesCommit(committed, s, n, l, N, q, c, p, w, b, m, d)
      BY <1>7, <1>9, <1>10, <2>2, <2>3, <2>4, <3>1 DEF CachesCommit
    <3> QED BY <3>2, OrderedCache
  <2> QED BY <1>6, <2>1, <2>5 DEF m, n, d, z, q
<1>13. CASE ~Synced(p)
  <2>1. queue' = Append(queue, Z)
    BY <1>1, <1>13
  <2>2. /\ Len(queue') = N + 1 /\ queue'[N + 1] = Z
        /\ \A i \in 1..N : queue'[i] = queue[i]
    BY <1>1, <1>2, <2>1, AppendProperties
  <2>3. \A x \in Ancestors(committed, p) : c[x] = 0
    <3> TAKE x \in Ancestors(committed, p)
    <3>1. x \in Surfaces
      BY <1>2, AncestorsTransitive
    <3>2. CommitIn(transaction[x], s) = 0
      BY <1>0, <1>13, NothingAbove
    <3> QED BY <1>4, <3>1, <3>2
  <2>4. N + 1 \in 1..N + 1 /\ \A i \in 1..N : i \in 1..N + 1
    BY <1>4
  <2> HIDE DEF c, d, q, z, w, b, l, m, N, n
  <2>5. z \in [1..N + 1 -> Nat]
    BY <1>4, <2>2
  <2>6. z[N + 1] = w
    BY <1>1, <1>4, <2>2, <2>4 DEF w
  <2>7. \A i \in 1..N : z[i] = q[i]
    BY <1>4, <2>2, <2>4
  <2>8. Ordered(committed, s, n, l, q, c)
    BY <1>3 DEF l, n
  <2>9. \/ s = p /\ b = m /\ l < m
        \/ s # p /\ b = 0 /\ m = l
    BY <1>6, <1>8, <1>13
  <2>10. \A x \in Surfaces : d[x] = IF committed[x] = p THEN 0 ELSE c[x]
    BY <1>11, <1>13
  <2>11. Ordered(committed, s, n, m, z, d)
    <3>1. /\ committed \in Parents /\ Acyclic(committed) /\ N \in Nat
          /\ q \in [1..N -> Nat] /\ c \in [Surfaces -> Nat] /\ d \in [Surfaces -> Nat]
          /\ n \in Nat /\ l \in Nat /\ m \in Nat
      BY <1>2, <1>4, <1>5
    <3>2. QueuesCommit(committed, s, n, l, N, q, c, p, w, b, m, z, d)
      BY <1>7, <1>9, <1>10, <2>3, <2>5, <2>6, <2>7, <2>8, <2>9, <2>10, <3>1 DEF QueuesCommit
    <3> QED BY <3>2, OrderedQueue
  <2> QED BY <1>6, <2>11 DEF m, n, d, z
<1> QED BY <1>12, <1>13

(* Nothing is still cached above what set_desync releases. *)
LEMMA NothingAboveVisited ==
    ASSUME TreeInv, CachedInv, NEW p \in Subsurfaces,
           NEW x \in Visited(p, [synchronous EXCEPT ![p] = FALSE]),
           NEW y \in Surfaces \ Visited(p, [synchronous EXCEPT ![p] = FALSE]),
           NEW s \in Surfaces, CommitIn(transaction[y], s) # 0
    PROVE  y \notin Ancestors(committed, x)
<1> SUFFICES ASSUME y \in Ancestors(committed, x) PROVE FALSE
  OBVIOUS
<1> DEFINE sync == [synchronous EXCEPT ![p] = FALSE]
<1>1. committed \in Parents /\ p \in Surfaces
  BY SurfacesFinite DEF TreeInv
<1>2. /\ ~SyncedIn(committed, sync, p)
      /\ x \in Subsurfaces /\ p \in Ancestors(committed, x)
      /\ \A u \in Ancestors(committed, x) : p \in Ancestors(committed, u) => ~sync[u]
  <2>1. ~Synchronized(sync, p) /\ x \in Desynced(sync, p)
    BY DEF Visited
  <2> HIDE DEF sync
  <2> QED BY <2>1, SyncedIs DEF Desynced, is_same_or_ancestor
<1>3. Synced(y) /\ transaction[y] # << >>
  BY EmptyCommit DEF CachedInv
<1>4. SyncedIn(committed, sync, y)
  BY <1>3, NotVisited
<1> HIDE DEF sync
<1>5. x \in Surfaces /\ SyncedIn(committed, sync, x)
  BY <1>1, <1>2, <1>4, SyncedUp, SurfacesFinite
<1>6. PICK u \in Ancestors(committed, x) \cap Subsurfaces : sync[u] \/ committed[u] = None
  BY <1>5 DEF SyncedIn
<1>7. u \in Surfaces
  BY SurfacesFinite
<1>8. CASE p \in Ancestors(committed, u)
  <2>1. committed[u] = None
    BY <1>2, <1>6, <1>8
  <2>2. Ancestors(committed, u) = {u}
    BY <1>1, <1>7, <2>1, AncestorsStep
  <2>3. p = u
    BY <1>8, <2>2
  <2> QED BY <1>2, <1>6, <2>2, <2>3 DEF SyncedIn
<1>9. CASE u \in Ancestors(committed, p)
  BY <1>2, <1>6, <1>9 DEF SyncedIn
<1> QED BY <1>1, <1>2, <1>5, <1>6, <1>8, <1>9, AncestorsComparable

LEMMA DesyncOrder ==
    ASSUME SurfaceInv, SurfaceInv', OrderInv, NEW p \in Subsurfaces, wl_subsurface_set_desync(p)
    PROVE  OrderInv'
<1>0. TreeInv /\ TypeInv /\ CachedInv /\ TypeInv' /\ p \in Surfaces
  BY SurfacesFinite DEF SurfaceInv
<1> DEFINE D == Visited(p, [synchronous EXCEPT ![p] = FALSE])
<1>1. PICK o, R : Ordering(D, o) /\ Releases(D, o, R)
  BY <1>0, DesyncStep
<1>2. UNCHANGED <<commits, committed, content, latest, client>>
  BY <1>0, DesyncStep
<1>3. ASSUME NEW x \in D, NEW y \in Surfaces \ D, NEW s \in Surfaces, CommitIn(transaction[y], s) # 0
      PROVE  y \notin Ancestors(committed, x)
  BY <1>0, <1>3, NothingAboveVisited
<1> HIDE DEF D
<1>4. /\ committed \in Parents /\ Acyclic(committed)
      /\ latest \in [Surfaces -> Nat] /\ content \in [Surfaces -> Nat]
      /\ queue \in Seq(Partial(States)) /\ queue' \in Seq(Partial(States))
      /\ transaction \in [Surfaces -> Partial(Entries)] /\ transaction' \in [Surfaces -> Partial(Entries)]
  BY <1>0 DEF TreeInv, TypeInv
<1>5. /\ D \in SUBSET Surfaces /\ o \in Seq(D) /\ Range(o) = D /\ IsInjective(o)
      /\ \A i, j \in 1..Len(o) : i < j => o[j] \notin Ancestors(committed, o[i])
      /\ R \in Seq(Partial(States)) /\ Len(R) = Len(o) /\ queue' = queue \o R
      /\ \A i \in 1..Len(o) : \A r : CommitIn(R[i], r) = CommitIn(transaction[o[i]], r)
      /\ \A x \in Surfaces : transaction'[x] = IF x \in D THEN << >> ELSE transaction[x]
  BY <1>1, SurfacesFinite DEF Ordering, Releases
<1> SUFFICES ASSUME "reparents" \notin client, NEW s \in Surfaces
             PROVE  /\ latest[s] <= commits
                    /\ Ordered(committed, s, content[s], latest[s], InQueue(queue', s), InCaches(transaction', s))
  BY <1>2 DEF OrderInv
<1> DEFINE c == InCaches(transaction, s)
           d == InCaches(transaction', s)
           q == InQueue(queue, s)
           z == InQueue(queue', s)
           l == latest[s]
           n == content[s]
           N == Len(queue)
           M == Len(o)
<1>6. latest[s] <= commits /\ Ordered(committed, s, n, l, q, c)
  BY DEF OrderInv
<1>7. /\ N \in Nat /\ q \in [1..N -> Nat] /\ c \in [Surfaces -> Nat] /\ d \in [Surfaces -> Nat]
      /\ z \in [1..Len(queue') -> Nat]
      /\ \A i \in 1..N : q[i] = CommitIn(queue[i], s)
      /\ \A i \in 1..Len(queue') : z[i] = CommitIn(queue'[i], s)
      /\ \A r \in Surfaces : c[r] = CommitIn(transaction[r], s)
      /\ \A r \in Surfaces : d[r] = CommitIn(transaction'[r], s)
  BY <1>4, Views
<1>8. l \in Nat /\ n \in Nat
  BY <1>4
<1>9. /\ M \in Nat /\ DOMAIN o = 1..M /\ o \in [1..M -> D]
      /\ \A x \in D : \E j \in 1..M : o[j] = x
  BY <1>5, InList
<1>10. \A i, j \in 1..M : i < j => o[i] # o[j] /\ o[j] \notin Ancestors(committed, o[i])
  <2>1. \A i, j \in 1..M : i < j => i # j
    BY <1>9
  <2> QED BY <1>5, <1>9, <2>1 DEF IsInjective
<1>11. /\ Len(queue') = N + M
       /\ \A i \in 1..N : queue'[i] = queue[i]
       /\ \A j \in 1..M : queue'[N + j] = R[j]
  <2>1. Len(queue \o R) = Len(queue) + Len(R)
    BY <1>4, <1>5, ConcatProperties
  <2>2. \A i \in 1..N + M : (queue \o R)[i] = IF i <= N THEN queue[i] ELSE R[i - N]
    BY <1>4, <1>5, <2>1, ConcatProperties
  <2>3. /\ \A i \in 1..N : i \in 1..N + M /\ i <= N
        /\ \A j \in 1..M : N + j \in 1..N + M /\ ~(N + j <= N) /\ N + j - N = j
    BY <1>7, <1>9
  <2> QED BY <1>5, <2>1, <2>2, <2>3
<1>12. /\ \A i \in 1..N : i \in 1..N + M
       /\ \A j \in 1..M : N + j \in 1..N + M
  BY <1>7, <1>9
<1>13. \A x \in Surfaces : d[x] = IF x \in D THEN 0 ELSE c[x]
  <2> TAKE x \in Surfaces
  <2>1. d[x] = CommitIn(transaction'[x], s) /\ c[x] = CommitIn(transaction[x], s)
    BY <1>7
  <2> HIDE DEF c, d
  <2> QED BY <1>5, <2>1, EmptyCommit
<1> HIDE DEF c, d, q, z, l, n, N, M
<1>14. \A i \in 1..N : z[i] = q[i]
  BY <1>7, <1>11, <1>12
<1>15. \A j \in 1..M : z[N + j] = c[o[j]]
  <2> TAKE j \in 1..M
  <2>1. o[j] \in Surfaces
    BY <1>5, <1>9
  <2>2. CommitIn(R[j], s) = CommitIn(transaction[o[j]], s)
    BY <1>5 DEF M
  <2> QED BY <1>7, <1>11, <1>12, <2>1, <2>2
<1>16. \A x \in D, y \in Surfaces \ D : c[y] # 0 => y \notin Ancestors(committed, x)
  BY <1>3, <1>7
<1>17. z \in [1..N + M -> Nat]
  BY <1>7, <1>11
<1>18. D \in SUBSET Surfaces
  BY <1>5
<1>19. ReleasesCaches(committed, s, n, l, N, q, c, D, M, o, z, d)
  BY <1>4, <1>6, <1>7, <1>8, <1>9, <1>10, <1>13, <1>14, <1>15, <1>16, <1>17, <1>18 DEF ReleasesCaches
<1>20. Ordered(committed, s, n, l, z, d)
  BY <1>19, OrderedReleased
<1> QED BY <1>6, <1>20 DEF n, l, z, d

LEMMA ApplyOrder ==
    ASSUME SurfaceInv, SurfaceInv', OrderInv, NEW i \in DOMAIN queue, meta_wayland_transaction_apply(i)
    PROVE  OrderInv' /\ ("reparents" \notin client => GoesForward)
<1>0. TypeInv /\ TypeInv'
  BY DEF SurfaceInv
<1>1. /\ i \in 1..Len(queue) /\ queue' = RemoveAt(queue, i)
      /\ \A s \in Surfaces, j \in 1..(i - 1) :
           CommitIn(queue[i], s) # 0 => CommitIn(queue[j], s) = 0
      /\ content' \in [Surfaces -> Nat]
      /\ \A s \in Surfaces : content'[s] = IF CommitIn(queue[i], s) # 0 THEN CommitIn(queue[i], s)
                                           ELSE content[s]
      /\ UNCHANGED <<commits, transaction, committed, latest, client>>
  BY <1>0, ApplyStep DEF treeVars
<1>2. /\ latest \in [Surfaces -> Nat] /\ content \in [Surfaces -> Nat]
      /\ queue \in Seq(Partial(States)) /\ queue' \in Seq(Partial(States))
      /\ transaction \in [Surfaces -> Partial(Entries)]
  BY <1>0 DEF TypeInv
<1>3. ASSUME "reparents" \notin client, NEW s \in Surfaces
      PROVE  /\ latest[s] <= commits /\ content[s] <= content'[s]
             /\ Ordered(committed, s, content'[s], latest[s], InQueue(queue', s), InCaches(transaction, s))
  <2> DEFINE c == InCaches(transaction, s)
             q == InQueue(queue, s)
             z == InQueue(queue', s)
             l == latest[s]
             n == content[s]
             k == content'[s]
             N == Len(queue)
  <2>1. latest[s] <= commits /\ Ordered(committed, s, n, l, q, c)
    BY <1>3 DEF OrderInv
  <2>2. /\ N \in Nat /\ q \in [1..N -> Nat] /\ c \in [Surfaces -> Nat]
        /\ z \in [1..Len(queue') -> Nat]
        /\ \A j \in 1..N : q[j] = CommitIn(queue[j], s)
        /\ \A j \in 1..Len(queue') : z[j] = CommitIn(queue'[j], s)
    BY <1>2, Views
  <2>3. l \in Nat /\ n \in Nat /\ k \in Nat
    BY <1>1, <1>2
  <2>4. /\ Len(queue') = N - 1
        /\ \A j \in 1..N - 1 : queue'[j] = IF j < i THEN queue[j] ELSE queue[j + 1]
    BY <1>1, <1>2, RemoveAtProperties
  <2>5. /\ \A j \in 1..N - 1 : j \in 1..N /\ j + 1 \in 1..N
        /\ \A j \in 1..(i - 1) : j \in 1..N
    BY <1>1, <2>2
  <2>6. k = IF q[i] # 0 THEN q[i] ELSE n
    BY <1>1, <2>2
  <2> HIDE DEF c, q, z, l, n, k, N
  <2>7. i \in 1..N
    BY <1>1 DEF N
  <2>8. \A j \in 1..(i - 1) : q[i] # 0 => q[j] = 0
    BY <1>1, <2>2, <2>5, <2>7
  <2>9. \A j \in 1..N - 1 : z[j] = IF j < i THEN q[j] ELSE q[j + 1]
    BY <2>2, <2>4, <2>5
  <2>10. AppliesOne(committed, s, n, l, N, q, c, i, z, k)
    BY <2>1, <2>2, <2>3, <2>4, <2>6, <2>7, <2>8, <2>9 DEF AppliesOne
  <2>11. Ordered(committed, s, k, l, z, c) /\ n <= k
    BY <2>10, OrderedApplied
  <2> QED BY <2>1, <2>11 DEF n, k, l, z, c
<1>4. OrderInv'
  BY <1>1, <1>3 DEF OrderInv
<1>5. "reparents" \notin client => GoesForward
  BY <1>1, <1>2, <1>3 DEF GoesForward
<1> QED BY <1>4, <1>5

LEMMA GetOrder ==
    ASSUME SurfaceInv, SurfaceInv', OrderInv, NEW p \in Subsurfaces, NEW parent \in Surfaces,
           wl_subcompositor_get_subsurface(p, parent)
    PROVE  OrderInv'
<1>1. TreeInv /\ TypeInv /\ TreeInv' /\ p \in Surfaces
  BY SurfacesFinite DEF SurfaceInv
<1>2. /\ committed[p] = None /\ p \notin Ancestors(committed, parent)
      /\ committed' = [committed EXCEPT ![p] = parent]
      /\ UNCHANGED <<commits, transaction, content, queue, latest, client>>
  BY <1>1, GetStep
<1>3. committed \in Parents /\ Acyclic(committed) /\ committed' \in Parents /\ Acyclic(committed')
  BY <1>1 DEF TreeInv
<1>4. \A x \in Surfaces : Ancestors(committed, x) \subseteq Ancestors(committed', x)
  BY <1>1, <1>2, <1>3, AncestorsLinked
<1> SUFFICES ASSUME "reparents" \notin client, NEW s \in Surfaces
             PROVE  /\ latest[s] <= commits
                    /\ Ordered(committed', s, content[s], latest[s], InQueue(queue, s), InCaches(transaction, s))
  BY <1>2 DEF OrderInv
<1> DEFINE q == InQueue(queue, s)
           c == InCaches(transaction, s)
           n == content[s]
           l == latest[s]
<1>5. latest[s] <= commits /\ Ordered(committed, s, n, l, q, c)
  BY DEF OrderInv
<1> HIDE DEF q, c, n, l
<1>6. Ordered(committed', s, n, l, q, c)
  BY <1>3, <1>4, <1>5, OrderedLinked
<1> QED BY <1>5, <1>6 DEF q, c, n, l

OrderKept == OrderInv' /\ ("reparents" \notin client => GoesForward)

LEMMA NextOrder ==
    ASSUME SurfaceInv, SurfaceInv', OrderInv, [Next]_vars
    PROVE  OrderKept
<1> USE SurfacesFinite
<1>0. TreeInv /\ TypeInv /\ content \in [Surfaces -> Nat]
  BY DEF SurfaceInv, TypeInv
<1>a. ASSUME content' = content, OrderInv' PROVE OrderKept
  <2>1. \A s \in Surfaces : content'[s] >= content[s]
    BY <1>0, <1>a
  <2> QED BY <1>a, <2>1 DEF GoesForward, OrderKept
<1>b. ASSUME UNCHANGED <<commits, transaction, committed, content, queue, latest, client>> PROVE OrderKept
  <2>1. \A c \in Surfaces : \A r : CommitIn(transaction'[c], r) = CommitIn(transaction[c], r)
    BY <1>b
  <2>2. OrderInv'
    BY <1>b, <2>1, OrderStays
  <2> QED BY <1>a, <1>b, <2>2
<1>1. ASSUME NEW s \in Surfaces, Commit(s) PROVE OrderKept
  <2>1. CASE UNCHANGED <<commits, pending, transaction, treeVars, content, queue, latest, client>>
    BY <1>b, <2>1 DEF treeVars
  <2>2. ASSUME NEW W, NEW Z, Commits(s, W, Z) PROVE OrderKept
    <3>1. OrderInv'
      BY <2>2, CommitOrder
    <3>2. content' = content
      BY <2>2 DEF Commits
    <3> QED BY <1>a, <3>1, <3>2
  <2> QED BY <1>0, <1>1, <2>1, <2>2, CommitStep
<1>2. ASSUME NEW s \in Subsurfaces, wl_subsurface_set_position(s) PROVE OrderKept
  <2>1. /\ \A c \in Surfaces : \A r : CommitIn(transaction'[c], r) = CommitIn(transaction[c], r)
        /\ UNCHANGED <<commits, committed, content, queue, latest, client>>
    BY <1>0, <1>2, PositionStep DEF treeVars
  <2>2. OrderInv'
    BY <2>1, OrderStays
  <2> QED BY <1>a, <2>1, <2>2
<1>3. ASSUME NEW s \in Subsurfaces, wl_subsurface_set_sync(s) PROVE OrderKept
  BY <1>b, <1>3 DEF wl_subsurface_set_sync, appliedVars
<1>4. ASSUME NEW s \in Subsurfaces, wl_subsurface_set_desync(s) PROVE OrderKept
  <2>1. content' = content
    BY <1>4 DEF wl_subsurface_set_desync, appliedVars
  <2> QED BY <1>a, <1>4, <2>1, DesyncOrder
<1>5. ASSUME NEW s \in Subsurfaces, NEW above \in BOOLEAN, subsurface_place(s, above) PROVE OrderKept
  <2>1. UNCHANGED <<commits, transaction, committed, content, queue, latest, client>>
    BY <1>5 DEF subsurface_place, appliedVars
  <2> QED BY <1>b, <2>1
<1>6. ASSUME NEW s \in Subsurfaces, NEW parent \in Surfaces, wl_subcompositor_get_subsurface(s, parent)
      PROVE  OrderKept
  <2>1. content' = content
    BY <1>6 DEF wl_subcompositor_get_subsurface, appliedVars
  <2> QED BY <1>a, <1>6, <2>1, GetOrder
<1>7. ASSUME NEW s \in Subsurfaces, permanently_unmap_subsurface(s) PROVE OrderKept
  BY <1>7 DEF permanently_unmap_subsurface, OrderInv, OrderKept
<1>8. ASSUME NEW n \in 1..commits, Signal(n) PROVE OrderKept
  BY <1>b, <1>8 DEF Signal, appliedVars, treeVars
<1>9. ASSUME NEW i \in DOMAIN queue, meta_wayland_transaction_apply(i) PROVE OrderKept
  BY <1>9, ApplyOrder DEF OrderKept
<1>10. CASE UNCHANGED vars
  <2>1. UNCHANGED <<commits, transaction, committed, content, queue, latest, client>>
    BY <1>10 DEF vars, appliedVars, treeVars
  <2> QED BY <1>b, <2>1
<1> QED BY <1>1, <1>2, <1>3, <1>4, <1>5, <1>6, <1>7, <1>8, <1>9, <1>10 DEF Next

LEMMA InitOrder == Init => OrderInv
<1> SUFFICES ASSUME Init, NEW s \in Surfaces
             PROVE  /\ latest[s] <= commits
                    /\ Ordered(committed, s, content[s], latest[s], InQueue(queue, s), InCaches(transaction, s))
  BY DEF OrderInv
<1>1. latest[s] = 0 /\ content[s] = 0 /\ commits = 0 /\ DOMAIN queue = {}
  BY DEF Init
<1>2. \A r \in Surfaces : InCaches(transaction, s)[r] = 0
  BY EmptyCommit DEF Init, InCaches
<1>3. DOMAIN InQueue(queue, s) = {}
  BY <1>1 DEF InQueue
<1> QED BY <1>1, <1>2, <1>3 DEF Ordered

LEMMA OrderInvariant == Spec => [](SurfaceInv /\ OrderInv)
<1>1. SurfaceInv /\ SurfaceInv' /\ OrderInv /\ [Next]_vars => OrderInv'
  BY NextOrder DEF OrderKept
<1> QED BY <1>1, InitOrder, SurfaceInvariant, PTL DEF Spec

(* The last commit of a surface is on screen, queued or cached: neither    *)
(* merging the children's caches into a commit nor releasing caches in     *)
(* several transactions loses it, as long as the client takes no           *)
(* sub-surface from its parent.                                            *)
THEOREM NothingLostCorrect == Spec => []NothingLost
<1>1. ASSUME SurfaceInv, OrderInv PROVE NothingLost
  <2> SUFFICES ASSUME "reparents" \notin client, NEW s \in Surfaces
               PROVE  latest[s] \in {content[s]} \cup {queue[i][s].commit : i \in Queued(s)}
                                                 \cup {transaction[r][s].commit : r \in Cached(s)}
    BY DEF NothingLost
  <2>1. /\ content[s] <= latest[s]
        /\ \/ content[s] = latest[s]
           \/ \E i \in DOMAIN queue : CommitIn(queue[i], s) = latest[s]
           \/ \E r \in Surfaces : CommitIn(transaction[r], s) = latest[s]
    BY <1>1 DEF OrderInv, Ordered, InQueue, InCaches
  <2>2. content[s] \in Nat /\ latest[s] \in Nat
    BY <1>1 DEF SurfaceInv, TypeInv
  <2>3. latest[s] = 0 => content[s] = latest[s]
    BY <2>1, <2>2
  <2>4. ASSUME NEW i \in DOMAIN queue, CommitIn(queue[i], s) = latest[s], latest[s] # 0
        PROVE  i \in Queued(s) /\ queue[i][s].commit = latest[s]
    BY <2>4 DEF CommitIn, Queued
  <2>5. ASSUME NEW r \in Surfaces, CommitIn(transaction[r], s) = latest[s], latest[s] # 0
        PROVE  r \in Cached(s) /\ transaction[r][s].commit = latest[s]
    BY <2>5 DEF CommitIn, Cached
  <2> QED BY <2>1, <2>3, <2>4, <2>5
<1>2. SurfaceInv /\ OrderInv => NothingLost
  BY <1>1
<1> QED BY <1>2, OrderInvariant, PTL

(* No surface goes back to the content of an earlier commit, whichever     *)
(* transactions are applied first of those that may be, as long as the     *)
(* client takes no sub-surface from its parent.                            *)
THEOREM NeverGoesBackCorrect == Spec => NeverGoesBack
<1>1. SurfaceInv /\ SurfaceInv' /\ OrderInv /\ [Next]_vars => ["reparents" \notin client => GoesForward]_vars
  BY NextOrder DEF OrderKept
<1> QED BY <1>1, OrderInvariant, PTL DEF Spec, NeverGoesBack
=============================================================================
