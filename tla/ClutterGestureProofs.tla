------------------------- MODULE ClutterGestureProofs -------------------------
(***************************************************************************)
(* What ClutterGesture promises for any number of gestures, touch points,  *)
(* pointers and presses, and whatever gestures may not cancel one another. *)
(***************************************************************************)
EXTENDS ClutterGesture, FiniteSetTheorems, SequenceTheorems, WellFoundedInduction, TLAPS

-----------------------------------------------------------------------------
(* Folds.  The library's folds are recursive functions on the subsets of a *)
(* finite set.  That there is such a function is shown by induction on the *)
(* size of the subsets, and induction from the least number of a set of    *)
(* numbers.                                                                *)

(* A set of natural numbers has a least one. *)
LEMMA NatLeast ==
    ASSUME NEW T \in SUBSET Nat, T # {}
    PROVE  \E n \in T : \A m \in T : n <= m
<1> DEFINE R == OpToRel(<, Nat)
<1>1. IsWellFoundedOn(R, Nat)
  BY NatLessThanWellFounded
<1>2. \A x, y \in Nat : x < y => <<x, y>> \in R
  BY DEF OpToRel
<1> HIDE DEF R
<1>3. \E n \in T : \A m \in T : <<m, n>> \notin R
  BY <1>1, WFMin
<1>4. \E n \in T : \A m \in T : ~(m < n)
  BY <1>2, <1>3
<1>5. \A m, n \in Nat : ~(m < n) => n <= m
  OBVIOUS
<1> QED BY <1>4, <1>5

(* A set of numbers that has 0 and, with each number, the next has all. *)
LEMMA NatAll ==
    ASSUME NEW T \in SUBSET Nat, 0 \in T, \A n \in T : n + 1 \in T
    PROVE  T = Nat
<1> SUFFICES ASSUME Nat \ T # {} PROVE FALSE
  OBVIOUS
<1>1. PICK n \in Nat \ T : \A m \in Nat \ T : n <= m
  BY NatLeast
<1>2. n # 0 /\ n - 1 \in Nat /\ ~(n <= n - 1)
  BY <1>1
<1>3. n - 1 \in T
  BY <1>1, <1>2
<1>4. (n - 1) + 1 = n
  BY <1>2
<1> QED BY <1>1, <1>3, <1>4

(* The fold of G from base over the subsets of D, taking pick[u] from u. *)
Picks(pick, D) == \A u \in SUBSET D : u # {} => pick[u] \in u
IsFold(f, base, D, pick, G, V) ==
    /\ f \in [SUBSET D -> V]
    /\ \A u \in SUBSET D : f[u] = IF u = {} THEN base ELSE G[pick[u]][f[u \ {pick[u]}]]

LEMMA FoldExists ==
    ASSUME NEW V, NEW base \in V, NEW D, IsFiniteSet(D), NEW pick, Picks(pick, D),
           NEW G \in [D -> [V -> V]]
    PROVE  \E f : IsFold(f, base, D, pick, G, V)
<1> DEFINE Sub(n) == {u \in SUBSET D : Cardinality(u) <= n}
           Folds(f, n) == /\ f \in [Sub(n) -> V]
                          /\ \A u \in Sub(n) :
                               f[u] = IF u = {} THEN base ELSE G[pick[u]][f[u \ {pick[u]}]]
           T == {n \in Nat : \E f : Folds(f, n)}
<1>0. \A u \in SUBSET D : u # {} => pick[u] \in u
  BY DEF Picks
<1>1. \A u \in SUBSET D : IsFiniteSet(u) /\ Cardinality(u) \in Nat
  BY FS_Subset, FS_CardinalityType
<1>2. \A u \in SUBSET D : u # {} =>
        /\ u \ {pick[u]} \in SUBSET D
        /\ Cardinality(u \ {pick[u]}) = Cardinality(u) - 1
  BY <1>0, <1>1, FS_RemoveElement
<1>3. 0 \in T
  <2> DEFINE f == [u \in Sub(0) |-> base]
  <2>1. \A u \in Sub(0) : u = {}
    BY <1>1, FS_EmptySet
  <2>2. Folds(f, 0)
    BY <2>1
  <2> QED BY <2>2
<1>4. ASSUME NEW n \in T PROVE n + 1 \in T
  <2>1. n \in Nat
    OBVIOUS
  <2>0. PICK f : Folds(f, n)
    OBVIOUS
  <2> DEFINE g == [u \in Sub(n + 1) |->
                     IF u = {} THEN base ELSE G[pick[u]][f[u \ {pick[u]}]]]
  <2>2. ASSUME NEW u \in Sub(n + 1), u # {} PROVE u \ {pick[u]} \in Sub(n)
    <3>1. u \in SUBSET D /\ Cardinality(u) <= n + 1
      BY <2>2
    <3>2. Cardinality(u) - 1 <= n
      BY <1>1, <2>1, <3>1
    <3> QED BY <1>2, <2>2, <3>1, <3>2
  <2>3. Sub(n) \subseteq Sub(n + 1)
    BY <1>1, <2>1
  <2>4. \A u \in Sub(n) : g[u] = f[u]
    BY <2>0, <2>3
  <2>5. g \in [Sub(n + 1) -> V]
    <3> SUFFICES ASSUME NEW u \in Sub(n + 1), u # {}
                 PROVE  G[pick[u]][f[u \ {pick[u]}]] \in V
      OBVIOUS
    <3>1. f[u \ {pick[u]}] \in V
      BY <2>0, <2>2
    <3>2. pick[u] \in D
      BY <1>0
    <3>3. G[pick[u]] \in [V -> V]
      BY <3>2
    <3> QED BY <3>1, <3>3
  <2>6. \A u \in Sub(n + 1) : g[u] = IF u = {} THEN base ELSE G[pick[u]][g[u \ {pick[u]}]]
    BY <2>2, <2>4
  <2>7. Folds(g, n + 1)
    BY <2>5, <2>6
  <2> HIDE DEF Folds, g
  <2> QED BY <2>1, <2>7
<1> HIDE DEF T
<1>5. T \in SUBSET Nat
  BY DEF T
<1>6. Cardinality(D) \in T
  BY <1>1, <1>3, <1>4, <1>5, NatAll
<1> USE DEF T
<1>7. PICK f : Folds(f, Cardinality(D))
  BY <1>6
<1>8. Sub(Cardinality(D)) = SUBSET D
  BY FS_Subset
<1> QED BY <1>7, <1>8 DEF IsFold

(* The greatest of the first k numbers. *)
LEMMA MaxOfFirst ==
    ASSUME NEW k \in Nat \ {0}
    PROVE  Max(1..k) = k
<1>1. k \in 1..k /\ \A y \in 1..k : k >= y
  OBVIOUS
<1>2. Max(1..k) \in 1..k /\ \A y \in 1..k : Max(1..k) >= y
  BY <1>1 DEF Max
<1>3. Max(1..k) >= k /\ k >= Max(1..k)
  BY <1>1, <1>2
<1> QED BY <1>2, <1>3

(* The greatest of some of the first n numbers. *)
LEMMA MaxOfSome ==
    ASSUME NEW n \in Nat, NEW u \in SUBSET (1..n), u # {}
    PROVE  Max(u) \in u
<1> DEFINE T == {d \in Nat : \E x \in u : d = n - x}
<1>1. PICK x0 \in u : TRUE
  OBVIOUS
<1>2. n - x0 \in T
  BY <1>1
<1>3. T \in SUBSET Nat /\ T # {}
  BY <1>2
<1>4. PICK d \in T : \A m \in T : d <= m
  BY <1>3, NatLeast
<1>5. PICK x \in u : d = n - x
  BY <1>4
<1>6. ASSUME NEW y \in u PROVE x >= y
  <2>1. n - y \in T
    OBVIOUS
  <2>2. d <= n - y
    BY <1>4, <2>1
  <2> QED BY <1>5, <2>2
<1>7. \E z \in u : \A y \in u : z >= y
  BY <1>6
<1> QED BY <1>7 DEF Max

(* The same, for a fold from the left over n elements. *)
IsLeftFold(f, base, n, G, V) ==
    /\ f \in [SUBSET (1..n) -> V]
    /\ \A u \in SUBSET (1..n) : f[u] = IF u = {} THEN base ELSE G[Max(u)][f[u \ {Max(u)}]]

LEMMA FoldLeftExists ==
    ASSUME NEW V, NEW base \in V, NEW n \in Nat, NEW G \in [1..n -> [V -> V]]
    PROVE  \E f : IsLeftFold(f, base, n, G, V)
<1> DEFINE D == 1..n
           pick == [u \in SUBSET D |-> Max(u)]
<1>1. IsFiniteSet(D)
  BY FS_Interval
<1>2. Picks(pick, D)
  BY MaxOfSome DEF Picks
<1>3. \A u \in SUBSET D : pick[u] = Max(u)
  OBVIOUS
<1>4. G \in [D -> [V -> V]]
  OBVIOUS
<1>5. SUBSET (1..n) = SUBSET D
  OBVIOUS
<1> HIDE DEF pick, D
<1>6. PICK f : IsFold(f, base, D, pick, G, V)
  BY <1>1, <1>2, <1>4, FoldExists
<1>7. /\ f \in [SUBSET D -> V]
      /\ \A u \in SUBSET D : f[u] = IF u = {} THEN base ELSE G[Max(u)][f[u \ {Max(u)}]]
  BY <1>3, <1>6 DEF IsFold
<1> QED BY <1>5, <1>7 DEF IsLeftFold

(* What is so at 0, and at k + 1 if it is at k, is so up to n. *)
LEMMA UpTo ==
    ASSUME NEW n \in Nat, NEW T, 0 \in T, \A k \in 0..n - 1 : k \in T => k + 1 \in T
    PROVE  \A k \in 0..n : k \in T
<1> DEFINE U == {k \in Nat : k <= n => k \in T}
<1>1. U \in SUBSET Nat /\ 0 \in U
  OBVIOUS
<1>2. ASSUME NEW k \in U PROVE k + 1 \in U
  <2>1. k \in Nat /\ (k <= n => k \in T)
    OBVIOUS
  <2>2. k + 1 <= n => k \in 0..n - 1 /\ k <= n
    BY <2>1
  <2> QED BY <2>1, <2>2
<1> HIDE DEF U
<1>3. U = Nat
  BY <1>1, <1>2, NatAll
<1> QED BY <1>3 DEF U

(* A function that satisfies the equation of a fold from the left gives    *)
(* the results of the fold for the first k elements.                       *)
LEMMA FirstOf ==
    ASSUME NEW n \in Nat, NEW k \in 1..n
    PROVE  /\ 1..k \in SUBSET (1..n) /\ 1..k # {} /\ Max(1..k) = k
           /\ (1..k) \ {k} = 1..k - 1
           /\ 1..0 = {} /\ 1..n \in SUBSET (1..n)
<1>1. Max(1..k) = k
  BY MaxOfFirst
<1>2. k \in 1..k
  OBVIOUS
<1> QED BY <1>1, <1>2

(* Those goes through the chain from its first element to its last. *)
LEMMA ThoseFolds ==
    ASSUME NEW A, NEW chain \in Seq(A), NEW X
    PROVE  \E f :
             /\ f[0] = <<>>
             /\ \A k \in 1..Len(chain) :
                  f[k] = IF chain[k] \in X THEN Append(f[k - 1], chain[k]) ELSE f[k - 1]
             /\ Those(chain, X) = f[Len(chain)]
<1> DEFINE n == Len(chain)
           Step(x, q) == IF chain[x] \in X THEN Append(q, chain[x]) ELSE q
           G == [x \in 1..n |-> [q \in Seq(A) |-> Step(x, q)]]
           Is(f) == f = [u \in SUBSET (1..n) |->
                           IF u = {} THEN <<>> ELSE Step(Max(u), f[u \ {Max(u)}])]
           iter == CHOOSE f : Is(f)
           g == [k \in 0..n |-> iter[1..k]]
<1>1. n \in Nat /\ DOMAIN chain = 1..n /\ \A x \in 1..n : chain[x] \in A
  BY LenProperties
<1>2. Those(chain, X) = iter[1..n]
  BY <1>1 DEF Those, FoldLeft, MapThenFoldSet
<1>3. \A x \in 1..n, q \in Seq(A) : Step(x, q) \in Seq(A)
  BY <1>1, AppendProperties
<1>4. G \in [1..n -> [Seq(A) -> Seq(A)]]
  BY <1>3
<1>5. \A x \in 1..n, q \in Seq(A) : G[x][q] = Step(x, q)
  OBVIOUS
<1> HIDE DEF G, Step, n
<1>6. PICK f : IsLeftFold(f, <<>>, n, G, Seq(A))
  <2>1. <<>> \in Seq(A)
    OBVIOUS
  <2> QED BY <1>1, <1>4, <2>1, FoldLeftExists
<1>7. Is(f)
  <2>1. ASSUME NEW u \in SUBSET (1..n), u # {}
        PROVE  G[Max(u)][f[u \ {Max(u)}]] = Step(Max(u), f[u \ {Max(u)}])
    <3>1. Max(u) \in 1..n /\ u \ {Max(u)} \in SUBSET (1..n)
      BY <1>1, <2>1, MaxOfSome
    <3>2. f[u \ {Max(u)}] \in Seq(A)
      BY <1>6, <3>1 DEF IsLeftFold
    <3> QED BY <1>5, <3>1, <3>2
  <2>2. \A u \in SUBSET (1..n) :
          f[u] = IF u = {} THEN <<>> ELSE Step(Max(u), f[u \ {Max(u)}])
    BY <1>6, <2>1 DEF IsLeftFold
  <2> QED BY <1>6, <2>2 DEF IsLeftFold
<1>8. Is(iter)
  BY <1>7
<1>9. \A u \in SUBSET (1..n) :
        iter[u] = IF u = {} THEN <<>> ELSE Step(Max(u), iter[u \ {Max(u)}])
  BY <1>8
<1> HIDE DEF iter
<1>10. g[0] = <<>> /\ g[n] = iter[1..n]
  <2>1. 1..0 = {} /\ {} \in SUBSET (1..n) /\ 0 \in 0..n /\ n \in 0..n
    BY <1>1
  <2> QED BY <1>9, <2>1
<1>11. ASSUME NEW k \in 1..n PROVE g[k] = Step(k, g[k - 1])
  <2>1. k \in 0..n /\ k - 1 \in 0..n
    BY <1>1
  <2>2. iter[1..k] = Step(k, iter[1..k - 1])
    <3> DEFINE u == 1..k
    <3>1. u \in SUBSET (1..n) /\ u # {} /\ Max(u) = k /\ u \ {k} = 1..k - 1
      BY <1>1, FirstOf
    <3> HIDE DEF u
    <3>2. iter[u] = Step(k, iter[u \ {k}])
      BY <1>9, <3>1
    <3>3. iter[u] = Step(k, iter[1..k - 1])
      BY <3>1, <3>2
    <3> QED BY <3>3 DEF u
  <2> QED BY <2>1, <2>2
<1> HIDE DEF g
<1> QED BY <1>2, <1>10, <1>11 DEF Step, n

(* The elements of a list. *)
LEMMA ToSetAppend ==
    ASSUME NEW A, NEW q \in Seq(A), NEW e \in A
    PROVE  /\ ToSet(Append(q, e)) = ToSet(q) \cup {e}
           /\ IsInjective(q) /\ e \notin ToSet(q) => IsInjective(Append(q, e))
<1>1. /\ Append(q, e) \in Seq(A) /\ Len(Append(q, e)) = Len(q) + 1
      /\ \A i \in 1..Len(q) : Append(q, e)[i] = q[i]
      /\ Append(q, e)[Len(q) + 1] = e
  BY AppendProperties
<1>2. Len(q) \in Nat /\ DOMAIN q = 1..Len(q) /\ DOMAIN Append(q, e) = 1..Len(q) + 1
  BY <1>1, LenProperties
<1>3. 1..Len(q) + 1 = 1..Len(q) \cup {Len(q) + 1}
  BY <1>2
<1>4. \A i \in 1..Len(q) : i # Len(q) + 1
  BY <1>2
<1> QED BY <1>1, <1>2, <1>3, <1>4 DEF ToSet, IsInjective

(* What Those returns *)
LEMMA ThoseProperties ==
    ASSUME NEW A, NEW chain \in Seq(A), NEW X
    PROVE  /\ Those(chain, X) \in Seq(A)
           /\ ToSet(Those(chain, X)) = ToSet(chain) \cap X
           /\ IsInjective(chain) => IsInjective(Those(chain, X))
<1> DEFINE n == Len(chain)
           First(k) == {chain[j] : j \in 1..k}
<1>1. PICK f : /\ f[0] = <<>>
               /\ \A k \in 1..n :
                    f[k] = IF chain[k] \in X THEN Append(f[k - 1], chain[k]) ELSE f[k - 1]
               /\ Those(chain, X) = f[n]
  BY ThoseFolds
<1> DEFINE P(k) == /\ f[k] \in Seq(A)
                   /\ ToSet(f[k]) = First(k) \cap X
                   /\ IsInjective(chain) => IsInjective(f[k])
           T == {k \in 0..n : P(k)}
<1>2. n \in Nat /\ DOMAIN chain = 1..n /\ \A x \in 1..n : chain[x] \in A
  BY LenProperties
<1> HIDE DEF n
<1>3. 0 \in T
  <2>1. First(0) = {} /\ ToSet(<<>>) = {} /\ <<>> \in Seq(A) /\ IsInjective(<<>>)
    BY DEF ToSet, IsInjective
  <2>2. P(0)
    BY <1>1, <2>1
  <2> HIDE DEF P
  <2> QED BY <1>2, <2>2
<1>4. ASSUME NEW k \in 0..n - 1, k \in T PROVE k + 1 \in T
  <2>1. k + 1 \in 1..n /\ (k + 1) - 1 = k /\ k + 1 \in 0..n /\ k \in Nat
    BY <1>2
  <2>2. f[k + 1] = IF chain[k + 1] \in X THEN Append(f[k], chain[k + 1]) ELSE f[k]
    BY <1>1, <2>1
  <2>3. First(k + 1) = First(k) \cup {chain[k + 1]}
    <3>1. 1..k + 1 = 1..k \cup {k + 1}
      BY <2>1
    <3> QED BY <3>1
  <2>4. IsInjective(chain) => chain[k + 1] \notin First(k)
    <3>1. \A j \in 1..k : j \in 1..n /\ j # k + 1
      BY <1>2, <2>1
    <3> QED BY <1>2, <2>1, <3>1 DEF IsInjective
  <2>5. P(k) /\ chain[k + 1] \in A
    BY <1>2, <1>4, <2>1
  <2> HIDE DEF First
  <2>6. P(k + 1)
    BY <2>2, <2>3, <2>4, <2>5, ToSetAppend
  <2> QED BY <2>1, <2>6
<1> HIDE DEF T
<1>5. \A k \in 0..n : k \in T
  BY <1>2, <1>3, <1>4, UpTo
<1>6. P(n)
  <2>1. n \in T
    BY <1>2, <1>5
  <2> HIDE DEF P
  <2> QED BY <2>1 DEF T
<1>7. First(n) = ToSet(chain)
  BY <1>2 DEF ToSet
<1> QED BY <1>1, <1>6, <1>7

-----------------------------------------------------------------------------
(* What the state is made of.                                              *)
States == {"WAITING", "POSSIBLE", "RECOGNIZING", "COMPLETED", "CANCELLED"}
Datum == [sprite : Points, seen : BOOLEAN, ended : BOOLEAN, buttons : Nat]
Gesture == [state : States, seqs : Seq(Datum), rel : SUBSET All, cancels : SUBSET All,
            can_not_cancel : SUBSET All, list : BOOLEAN, attached : BOOLEAN,
            enabled : BOOLEAN]
Sprite == [press_count : Nat, chain : Seq(All), actors : BOOLEAN]
Stage == [ges : [All -> Gesture], active : SUBSET All, sprites : [Points -> Sprite],
          failed : BOOLEAN]

(* A stage whose lists and relationships agree, within an action too       *)
Sound(S) ==
    /\ S \in Stage
    /\ \A x \in All : x \notin S.ges[x].rel \cup S.ges[x].cancels \cup S.ges[x].can_not_cancel
    /\ \A x \in All : S.ges[x].state = "WAITING" => S.ges[x].seqs = <<>>
    /\ \A x \in All : x \in S.active <=> S.ges[x].state # "WAITING"
    /\ \A x, y \in All : y \in S.ges[x].rel => /\ x \in S.active /\ y \in S.active
                                               /\ x \in S.ges[y].rel

(* SingleRecognizing of the stage S                                        *)
Single(S) ==
    \A x, y \in All :
       x # y /\ S.ges[x].state = "RECOGNIZING" /\ S.ges[y].state = "RECOGNIZING" =>
          y \in S.ges[x].rel /\ (y \notin S.ges[x].cancels \/ x \notin S.ges[y].cancels)

(* EndsInWaiting for the gesture x of the stage S                          *)
Rested(S, x) == S.ges[x].state \in Over => S.failed \/ ~AllEnded(S, x)

(* The sequence i of the gesture x goes on.                                *)
Open(S, x, i) == i \in DOMAIN S.ges[x].seqs /\ ~S.ges[x].seqs[i].ended

(* The gesture still has to hear of the event being emitted, or has heard. *)
Hears(e, x, p, type) == e.type = type /\ e.sprite = p /\ x \in ToSet(e.rest)
Heard(e, x, p, type) == e.type = type /\ e.sprite = p /\ x \notin ToSet(e.rest)

(* A sequence that goes on, its sprite and the event being emitted: the    *)
(* gesture gets the events of the sprite; if it has not seen the sequence, *)
(* it is over or will see its first event; of a pointer, it counts the     *)
(* buttons; and the sequence does not survive its end.                     *)
Linked(S, e, x, d) ==
    LET p == d.sprite
        presses == S.sprites[p].press_count
    IN /\ S.ges[x].attached
       /\ x \in ToSet(S.sprites[p].chain)
       /\ presses > 0
       /\ \/ d.seen \/ S.ges[x].state \in Over
          \/ d.buttons = 0 /\ (Hears(e, x, p, "begin") \/ Hears(e, x, p, "press"))
       /\ p \in Pointers => d.buttons = IF Hears(e, x, p, "press") \/ Heard(e, x, p, "release")
                                        THEN presses - 1 ELSE presses
       /\ Heard(e, x, p, "release") => presses > 1
       /\ ~Heard(e, x, p, "end") /\ ~Heard(e, x, p, "cancel")

(* The sequences that go on are of different sprites.                      *)
Distinct(S, x) ==
    \A i, j \in DOMAIN S.ges[x].seqs :
       Open(S, x, i) /\ Open(S, x, j) /\ S.ges[x].seqs[i].sprite = S.ges[x].seqs[j].sprite => i = j

Emissions ==
    {Idle} \cup
    [sprite : Touches, type : {"begin", "update", "end", "cancel"}, rest : Seq(All)] \cup
    [sprite : Pointers, type : {"press", "update", "release"}, rest : Seq(All)]

(* The stage S while e is emitted                                          *)
Held(S, e) ==
    /\ Sound(S) /\ Single(S)
    /\ \A x \in All : Rested(S, x) /\ Distinct(S, x)
    /\ \A x \in All : \A i \in DOMAIN S.ges[x].seqs :
          Open(S, x, i) => Linked(S, e, x, S.ges[x].seqs[i])
    /\ \A p \in Points : IsInjective(S.sprites[p].chain)
    /\ e \in Emissions /\ IsInjective(e.rest)

(* The inductive invariant                                                 *)
GestureInv == Held(s, emission)

-----------------------------------------------------------------------------
(* What operations within an action do.  Sequences end or go away; they    *)
(* are seen.                                                               *)
Quieter(q, r) ==
    \/ r = <<>>
    \/ /\ DOMAIN r = DOMAIN q
       /\ \A i \in DOMAIN q : /\ r[i].sprite = q[i].sprite /\ r[i].buttons = q[i].buttons
                              /\ q[i].seen => r[i].seen
                              /\ q[i].ended => r[i].ended

FollowsAt(g, h) ==
    /\ h.attached <=> g.attached
    /\ h.enabled <=> g.enabled
    /\ h.list <=> g.list
    /\ h.can_not_cancel = g.can_not_cancel
    /\ g.state \in Over => h.state \in Over \cup {"WAITING"}
    /\ g.state = "WAITING" => h.state = "WAITING"
    /\ Quieter(g.seqs, h.seqs)

Follows(S, T) ==
    /\ \A p \in Points : /\ T.sprites[p].press_count = S.sprites[p].press_count
                         /\ T.sprites[p].chain = S.sprites[p].chain
    /\ S.failed => T.failed
    /\ \A x \in All : FollowsAt(S.ges[x], T.ges[x])

(* Gestures change their state only to be cancelled.                       *)
Calmed(S, T) ==
    /\ \A x \in All : \/ T.ges[x].state = S.ges[x].state
                      \/ T.ges[x].state \in {"CANCELLED", "WAITING"} /\ S.ges[x].state # "WAITING"
    /\ \A x, y \in All : y \in S.ges[x].rel /\ T.ges[x].state # "WAITING"
                            /\ T.ges[y].state # "WAITING" => y \in T.ges[x].rel
    /\ \A x \in All : T.ges[x].cancels \subseteq S.ges[x].cancels

(* The other gestures keep their states and sequences.                     *)
Elsewhere(S, T, X) ==
    \A y \in All \ X : T.ges[y].state = S.ges[y].state /\ T.ges[y].seqs = S.ges[y].seqs

Tidy(S, T, X) == \A y \in All \ X : Rested(S, y) => Rested(T, y)

(* S becomes T by cancelling gestures of X or ending their sequences.      *)
Calms(S, T, X) == Sound(T) /\ Follows(S, T) /\ Calmed(S, T) /\ Elsewhere(S, T, X)

LEMMA FollowsTransitive ==
    ASSUME NEW S, NEW T, NEW U, Follows(S, T), Follows(T, U)
    PROVE  Follows(S, U)
<1>1. ASSUME NEW q, NEW r, NEW v, Quieter(q, r), Quieter(r, v) PROVE Quieter(q, v)
  BY <1>1 DEF Quieter
<1>2. \A x \in All : FollowsAt(S.ges[x], U.ges[x])
  BY <1>1 DEF Follows, FollowsAt
<1> QED BY <1>2 DEF Follows

LEMMA FollowsItself ==
    ASSUME NEW S
    PROVE  Follows(S, S)
  BY DEF Follows, FollowsAt, Quieter

LEMMA CalmedTransitive ==
    ASSUME NEW S, NEW T, NEW U, Calmed(S, T), Calmed(T, U)
    PROVE  Calmed(S, U)
<1>1. \A x \in All : T.ges[x].state = "WAITING" => U.ges[x].state = "WAITING"
  BY DEF Calmed
<1>2. \A x \in All : \/ U.ges[x].state = S.ges[x].state
                     \/ U.ges[x].state \in {"CANCELLED", "WAITING"} /\ S.ges[x].state # "WAITING"
  BY DEF Calmed
<1>3. \A x, y \in All : y \in S.ges[x].rel /\ U.ges[x].state # "WAITING"
                           /\ U.ges[y].state # "WAITING" => y \in U.ges[x].rel
  BY <1>1 DEF Calmed
<1>4. \A x \in All : U.ges[x].cancels \subseteq S.ges[x].cancels
  BY DEF Calmed
<1> QED BY <1>2, <1>3, <1>4 DEF Calmed

LEMMA CalmsTransitive ==
    ASSUME NEW S, NEW T, NEW U, NEW X, Calms(S, T, X), Calms(T, U, X)
    PROVE  Calms(S, U, X)
  BY FollowsTransitive, CalmedTransitive DEF Calms, Elsewhere

LEMMA CalmsItself ==
    ASSUME NEW S, NEW X, Sound(S)
    PROVE  Calms(S, S, X)
  BY FollowsItself DEF Calms, Calmed, Elsewhere

(* Cancelling gestures leaves those that recognize in their relationships. *)
LEMMA CalmsSingle ==
    ASSUME NEW S, NEW T, Calmed(S, T), Single(S)
    PROVE  Single(T)
<1> SUFFICES ASSUME NEW x \in All, NEW y \in All, x # y,
                    T.ges[x].state = "RECOGNIZING", T.ges[y].state = "RECOGNIZING"
             PROVE  /\ y \in T.ges[x].rel
                    /\ y \notin T.ges[x].cancels \/ x \notin T.ges[y].cancels
  BY DEF Single
<1>1. S.ges[x].state = "RECOGNIZING" /\ S.ges[y].state = "RECOGNIZING"
  BY DEF Calmed
<1>2. y \in S.ges[x].rel /\ (y \notin S.ges[x].cancels \/ x \notin S.ges[y].cancels)
  BY <1>1 DEF Single
<1>3. T.ges[x].cancels \subseteq S.ges[x].cancels /\ T.ges[y].cancels \subseteq S.ges[y].cancels
  BY DEF Calmed
<1> QED BY <1>1, <1>2, <1>3 DEF Calmed

(* MoveToWaiting removes the gesture from the lists and relationships.     *)
LEMMA MoveDoes ==
    ASSUME NEW S, Sound(S), NEW x \in All, S.ges[x].state # "WAITING"
    PROVE  LET T == MoveToWaiting(S, x) IN
           /\ Calms(S, T, {x})
           /\ T.failed \/ T.ges[x].state = "WAITING"
           /\ T.ges[x].state \in {S.ges[x].state, "WAITING"}
<1> DEFINE T == MoveToWaiting(S, x)
           g(y) == IF y = x THEN [S.ges[y] EXCEPT !.state = "WAITING", !.seqs = <<>>,
                                                  !.rel = {}, !.cancels = {}]
                   ELSE IF y \in S.ges[x].rel THEN [S.ges[y] EXCEPT !.rel = @ \ {x}]
                   ELSE S.ges[y]
<1>1. S \in Stage /\ \A y \in All : S.ges[y] \in Gesture
  BY DEF Sound, Stage
<1>2. CASE ~S.ges[x].list
  <2>1. T = [S EXCEPT !.failed = TRUE]
    BY <1>2 DEF MoveToWaiting
  <2>2. /\ T \in Stage /\ T.ges = S.ges /\ T.active = S.active /\ T.sprites = S.sprites
        /\ T.failed
    BY <1>1, <2>1 DEF Stage
  <2>3. Sound(T)
    BY <2>2 DEF Sound
  <2> HIDE DEF T
  <2>4. Follows(S, T) /\ Calmed(S, T) /\ Elsewhere(S, T, {x})
    BY <2>2 DEF Follows, FollowsAt, Quieter, Calmed, Elsewhere
  <2> QED BY <2>2, <2>3, <2>4 DEF T, Calms
<1>3. CASE S.ges[x].list
  <2>1. T = [S EXCEPT !.active = @ \ {x}, !.ges = [y \in All |-> g(y)]]
    BY <1>3 DEF MoveToWaiting
  <2>2. \A y \in All : g(y) \in Gesture
    <3>1. <<>> \in Seq(Datum) /\ "WAITING" \in States
      BY DEF States
    <3>2. \A h \in Gesture : [h EXCEPT !.state = "WAITING", !.seqs = <<>>,
                                        !.rel = {}, !.cancels = {}] \in Gesture
      BY <3>1 DEF Gesture
    <3>3. \A h \in Gesture : [h EXCEPT !.rel = @ \ {x}] \in Gesture
      BY DEF Gesture
    <3> QED BY <1>1, <3>2, <3>3
  <2>3. /\ T \in Stage /\ T.active = S.active \ {x} /\ T.sprites = S.sprites
        /\ T.failed = S.failed /\ \A y \in All : T.ges[y] = g(y)
    <3>1. [y \in All |-> g(y)] \in [All -> Gesture]
      BY <2>2
    <3> QED BY <1>1, <2>1, <3>1, ZenonT(60) DEF Stage
  <2>4. /\ T.ges[x].state = "WAITING" /\ T.ges[x].seqs = <<>>
        /\ T.ges[x].rel = {} /\ T.ges[x].cancels = {}
        /\ T.ges[x].can_not_cancel = S.ges[x].can_not_cancel
        /\ T.ges[x].list = S.ges[x].list
        /\ T.ges[x].attached = S.ges[x].attached /\ T.ges[x].enabled = S.ges[x].enabled
    BY <1>1, <2>3 DEF Gesture
  <2>5. \A y \in All \ {x} :
          /\ T.ges[y].state = S.ges[y].state /\ T.ges[y].seqs = S.ges[y].seqs
          /\ T.ges[y].rel = S.ges[y].rel \ {x} /\ T.ges[y].cancels = S.ges[y].cancels
          /\ T.ges[y].can_not_cancel = S.ges[y].can_not_cancel
          /\ T.ges[y].list = S.ges[y].list
          /\ T.ges[y].attached = S.ges[y].attached /\ T.ges[y].enabled = S.ges[y].enabled
    <3> SUFFICES ASSUME NEW y \in All \ {x}
                 PROVE  /\ T.ges[y].state = S.ges[y].state /\ T.ges[y].seqs = S.ges[y].seqs
                        /\ T.ges[y].rel = S.ges[y].rel \ {x}
                        /\ T.ges[y].cancels = S.ges[y].cancels
                        /\ T.ges[y].can_not_cancel = S.ges[y].can_not_cancel
                        /\ T.ges[y].list = S.ges[y].list
                        /\ T.ges[y].attached = S.ges[y].attached
                        /\ T.ges[y].enabled = S.ges[y].enabled
      OBVIOUS
    <3>1. y \notin S.ges[x].rel => x \notin S.ges[y].rel
      BY DEF Sound
    <3> QED BY <1>1, <2>3, <3>1, ZenonT(60) DEF Gesture
  <2> HIDE DEF T, g
  <2>6. Sound(T)
    BY <2>3, <2>4, <2>5 DEF Sound
  <2>7. Follows(S, T)
    BY <2>3, <2>4, <2>5 DEF Follows, FollowsAt, Quieter, Over
  <2>8. Calmed(S, T) /\ Elsewhere(S, T, {x})
    BY <2>4, <2>5 DEF Calmed, Elsewhere
  <2> QED BY <2>4, <2>6, <2>7, <2>8 DEF T, Calms
<1> QED BY <1>1, <1>2, <1>3 DEF Gesture

LEMMA ElsewhereTidy ==
    ASSUME NEW S, NEW T, NEW X, Follows(S, T), Elsewhere(S, T, X)
    PROVE  Tidy(S, T, X)
  BY DEF Follows, Elsewhere, Tidy, Rested, AllEnded

(* maybe_move_to_waiting *)
LEMMA MaybeMoveDoes ==
    ASSUME NEW S, Sound(S), NEW x \in All
    PROVE  LET T == maybe_move_to_waiting(S, x) IN
           /\ Calms(S, T, {x}) /\ Rested(T, x)
           /\ T.ges[x].state \in {S.ges[x].state, "WAITING"}
<1> DEFINE T == maybe_move_to_waiting(S, x)
<1>1. CASE S.ges[x].state \in Over /\ AllEnded(S, x)
  <2>1. T = MoveToWaiting(S, x) /\ S.ges[x].state # "WAITING"
    BY <1>1 DEF maybe_move_to_waiting, Over
  <2>2. /\ Calms(S, T, {x}) /\ (T.failed \/ T.ges[x].state = "WAITING")
        /\ T.ges[x].state \in {S.ges[x].state, "WAITING"}
    BY <2>1, MoveDoes
  <2> HIDE DEF T
  <2>3. Calms(S, T, {x}) /\ Rested(T, x) /\ T.ges[x].state \in {S.ges[x].state, "WAITING"}
    BY <2>1, <2>2, MoveDoes DEF Rested, Over
  <2> QED BY <2>3 DEF T
<1>2. CASE ~(S.ges[x].state \in Over /\ AllEnded(S, x))
  <2>1. T = S
    BY <1>2 DEF maybe_move_to_waiting
  <2>2. Rested(S, x)
    BY <1>2 DEF Rested
  <2> QED BY <2>1, <2>2, CalmsItself
<1> QED BY <1>1, <1>2

LEMMA EmptyDomain ==
    ASSUME NEW A, NEW q \in Seq(A), DOMAIN q = {}
    PROVE  q = <<>>
<1>1. Len(q) \in Nat /\ DOMAIN q = 1..Len(q)
  BY LenProperties
<1>2. 1..Len(q) = {}
  BY <1>1
<1>3. Len(q) = 0
  BY <1>1, <1>2
<1> QED BY <1>3, EmptySeq

(* Another record for one gesture *)
Put(S, x, h) == [S EXCEPT !.ges = [S.ges EXCEPT ![x] = h]]

LEMMA ChangeOne ==
    ASSUME NEW S, S \in Stage, NEW x \in All, NEW h \in Gesture
    PROVE  LET T == Put(S, x, h) IN
           /\ T \in Stage /\ T.active = S.active /\ T.sprites = S.sprites
           /\ T.failed = S.failed /\ T.ges[x] = h
           /\ \A y \in All \ {x} : T.ges[y] = S.ges[y]
<1>1. S.ges \in [All -> Gesture]
  BY DEF Stage
<1>2. [S.ges EXCEPT ![x] = h] \in [All -> Gesture]
  BY <1>1
<1> QED BY <1>1, <1>2 DEF Stage, Put

(* Sequences with other flags or counts *)
OnlySeqs(S, T, x, q) ==
    /\ Sound(T) /\ T.sprites = S.sprites /\ T.failed = S.failed /\ T.active = S.active
    /\ T.ges[x].seqs = q
    /\ \A y \in All \ {x} : T.ges[y] = S.ges[y]
    /\ \A y \in All : /\ T.ges[y].state = S.ges[y].state
                      /\ T.ges[y].rel = S.ges[y].rel
                      /\ T.ges[y].cancels = S.ges[y].cancels
                      /\ T.ges[y].can_not_cancel = S.ges[y].can_not_cancel
                      /\ T.ges[y].list = S.ges[y].list
                      /\ T.ges[y].attached = S.ges[y].attached
                      /\ T.ges[y].enabled = S.ges[y].enabled

LEMMA ChangeSeqs ==
    ASSUME NEW S, Sound(S), NEW x \in All, NEW q \in Seq(Datum),
           DOMAIN q = DOMAIN S.ges[x].seqs
    PROVE  OnlySeqs(S, Put(S, x, [S.ges[x] EXCEPT !.seqs = q]), x, q)
<1> DEFINE h == [S.ges[x] EXCEPT !.seqs = q]
           T == Put(S, x, h)
<1>1. S \in Stage /\ S.ges[x] \in Gesture
  BY DEF Sound, Stage
<1>2. /\ h \in Gesture /\ h.seqs = q
      /\ h.state = S.ges[x].state /\ h.rel = S.ges[x].rel /\ h.cancels = S.ges[x].cancels
      /\ h.can_not_cancel = S.ges[x].can_not_cancel /\ h.list = S.ges[x].list
      /\ h.attached = S.ges[x].attached /\ h.enabled = S.ges[x].enabled
  BY <1>1 DEF Gesture
<1> HIDE DEF h
<1>4. /\ T \in Stage /\ T.active = S.active /\ T.sprites = S.sprites
      /\ T.failed = S.failed /\ T.ges[x] = h
      /\ \A y \in All \ {x} : T.ges[y] = S.ges[y]
  BY <1>1, <1>2, ChangeOne
<1> HIDE DEF T
<1>5. S.ges[x].seqs = <<>> => q = <<>>
  <2> SUFFICES ASSUME S.ges[x].seqs = <<>> PROVE q = <<>>
    OBVIOUS
  <2>1. DOMAIN <<>> = {}
    OBVIOUS
  <2>2. DOMAIN q = {}
    BY <2>1
  <2> QED BY <2>2, EmptyDomain
<1>6. Sound(T)
  <2>1. \A y \in All : T.ges[y].rel = S.ges[y].rel /\ T.ges[y].state = S.ges[y].state
                       /\ T.ges[y].cancels = S.ges[y].cancels
                       /\ T.ges[y].can_not_cancel = S.ges[y].can_not_cancel
    BY <1>2, <1>4
  <2>2. \A y \in All : S.ges[y].seqs = <<>> => T.ges[y].seqs = <<>>
    BY <1>2, <1>4, <1>5
  <2> QED BY <1>4, <2>1, <2>2 DEF Sound
<1>7. OnlySeqs(S, T, x, q)
  BY <1>2, <1>4, <1>6 DEF OnlySeqs
<1> QED BY <1>7 DEF T, h

(* End *)
LEMMA EndDoes ==
    ASSUME NEW S, Sound(S), NEW x \in All, NEW I
    PROVE  LET T == End(S, x, I) IN
           /\ Calms(S, T, {x})
           /\ T.ges[x].state = S.ges[x].state
           /\ DOMAIN T.ges[x].seqs = DOMAIN S.ges[x].seqs
           /\ \A i \in DOMAIN S.ges[x].seqs \cap I : T.ges[x].seqs[i].ended
           /\ T.sprites = S.sprites /\ T.failed = S.failed
<1> DEFINE T == End(S, x, I)
           q == S.ges[x].seqs
           r == [i \in DOMAIN q |-> IF i \in I THEN [q[i] EXCEPT !.ended = TRUE] ELSE q[i]]
<1>1. S \in Stage /\ S.ges[x] \in Gesture /\ q \in Seq(Datum)
  BY DEF Sound, Stage, Gesture
<1>2. DOMAIN q = 1..Len(q) /\ Len(q) \in Nat /\ \A i \in DOMAIN q : q[i] \in Datum
  BY <1>1, LenProperties
<1>3. T = Put(S, x, [S.ges[x] EXCEPT !.seqs = r])
  BY <1>1 DEF End, Put, Stage, Gesture
<1>4. \A i \in DOMAIN q : /\ r[i] \in Datum /\ r[i].sprite = q[i].sprite
                          /\ r[i].buttons = q[i].buttons /\ (r[i].seen <=> q[i].seen)
                          /\ q[i].ended => r[i].ended
                          /\ i \in I => r[i].ended
  BY <1>2 DEF Datum
<1>5. DOMAIN r = DOMAIN q
  OBVIOUS
<1>6. r \in Seq(Datum)
  <2>1. r \in [1..Len(q) -> Datum]
    BY <1>2, <1>4
  <2> HIDE DEF r, q
  <2> QED BY <1>2, <2>1, SeqDef
<1> HIDE DEF r, T
<1>7. OnlySeqs(S, T, x, r)
  <2>1. DOMAIN r = DOMAIN S.ges[x].seqs
    BY <1>5
  <2>2. OnlySeqs(S, Put(S, x, [S.ges[x] EXCEPT !.seqs = r]), x, r)
    BY <1>6, <2>1, ChangeSeqs
  <2> QED BY <1>3, <2>2
<1> USE DEF OnlySeqs
<1>8. Follows(S, T)
  <2>1. \A y \in All : Quieter(S.ges[y].seqs, T.ges[y].seqs)
    BY <1>4, <1>5, <1>7 DEF Quieter
  <2>2. \A y \in All : FollowsAt(S.ges[y], T.ges[y])
    BY <1>7, <2>1 DEF FollowsAt
  <2> QED BY <1>7, <2>2 DEF Follows
<1>9. Calmed(S, T) /\ Elsewhere(S, T, {x})
  BY <1>7 DEF Calmed, Elsewhere
<1> QED BY <1>4, <1>5, <1>7, <1>8, <1>9 DEF Calms, T

(* Another state of a gesture *)
LEMMA StateDoes ==
    ASSUME NEW S, Sound(S), NEW x \in All, S.ges[x].state # "WAITING",
           NEW st \in States \ {"WAITING"}
    PROVE  LET T == State(S, x, st) IN
           /\ Sound(T) /\ T.sprites = S.sprites /\ T.failed = S.failed /\ T.active = S.active
           /\ T.ges[x].state = st /\ T.ges[x].seqs = S.ges[x].seqs
           /\ \A y \in All \ {x} : T.ges[y] = S.ges[y]
           /\ \A y \in All : T.ges[y].rel = S.ges[y].rel /\ T.ges[y].cancels = S.ges[y].cancels
           /\ (S.ges[x].state \in Over => st \in Over) => Follows(S, T)
<1> DEFINE T == State(S, x, st)
           h == [S.ges[x] EXCEPT !.state = st]
<1>1. S \in Stage /\ S.ges[x] \in Gesture
  BY DEF Sound, Stage
<1>2. /\ h \in Gesture /\ h.seqs = S.ges[x].seqs
      /\ h.state = st /\ h.rel = S.ges[x].rel /\ h.cancels = S.ges[x].cancels
      /\ h.can_not_cancel = S.ges[x].can_not_cancel /\ h.list = S.ges[x].list
      /\ h.attached = S.ges[x].attached /\ h.enabled = S.ges[x].enabled
  BY <1>1 DEF Gesture
<1>3. T = Put(S, x, h)
  BY DEF State, Put
<1> HIDE DEF h, T
<1>4. /\ T \in Stage /\ T.active = S.active /\ T.sprites = S.sprites
      /\ T.failed = S.failed /\ T.ges[x] = h
      /\ \A y \in All \ {x} : T.ges[y] = S.ges[y]
  BY <1>1, <1>2, <1>3, ChangeOne
<1>5. \A y \in All : /\ T.ges[y].rel = S.ges[y].rel /\ T.ges[y].cancels = S.ges[y].cancels
                     /\ T.ges[y].can_not_cancel = S.ges[y].can_not_cancel
                     /\ T.ges[y].seqs = S.ges[y].seqs
                     /\ T.ges[y].list = S.ges[y].list
                     /\ T.ges[y].attached = S.ges[y].attached
                     /\ T.ges[y].enabled = S.ges[y].enabled
                     /\ T.ges[y].state = "WAITING" <=> S.ges[y].state = "WAITING"
  BY <1>2, <1>4
<1>6. Sound(T)
  BY <1>4, <1>5 DEF Sound
<1>7. ASSUME S.ges[x].state \in Over => st \in Over PROVE Follows(S, T)
  <2>1. \A y \in All : S.ges[y].state \in Over => T.ges[y].state \in Over
    BY <1>2, <1>4, <1>7
  <2>2. \A y \in All : FollowsAt(S.ges[y], T.ges[y])
    BY <1>5, <2>1 DEF FollowsAt, Quieter
  <2> QED BY <1>4, <2>2 DEF Follows
<1> QED BY <1>2, <1>4, <1>5, <1>6, <1>7 DEF T

(* Cancel *)
LEMMA CancelDoes ==
    ASSUME NEW S, Sound(S), NEW x \in All, S.ges[x].state # "WAITING"
    PROVE  LET T == Cancel(S, x) IN
           /\ Calms(S, T, {x}) /\ Rested(T, x)
           /\ T.ges[x].state \in {"CANCELLED", "WAITING"}
<1> DEFINE U == State(S, x, "CANCELLED")
           T == maybe_move_to_waiting(U, x)
<1>1. "CANCELLED" \in States \ {"WAITING"} /\ "CANCELLED" \in Over
  BY DEF States, Over
<1>2. /\ Sound(U) /\ U.sprites = S.sprites /\ U.failed = S.failed /\ U.active = S.active
      /\ U.ges[x].state = "CANCELLED" /\ U.ges[x].seqs = S.ges[x].seqs
      /\ \A y \in All \ {x} : U.ges[y] = S.ges[y]
      /\ \A y \in All : U.ges[y].rel = S.ges[y].rel /\ U.ges[y].cancels = S.ges[y].cancels
      /\ Follows(S, U)
  BY <1>1, StateDoes
<1>3. Calms(S, U, {x})
  <2> HIDE DEF U
  <2>1. Calmed(S, U) /\ Elsewhere(S, U, {x})
    BY <1>2 DEF Calmed, Elsewhere
  <2> QED BY <1>2, <2>1 DEF Calms
<1> HIDE DEF U
<1>4. /\ Calms(U, T, {x}) /\ Rested(T, x)
      /\ T.ges[x].state \in {"CANCELLED", "WAITING"}
  BY <1>2, MaybeMoveDoes
<1>5. Cancel(S, x) = T
  BY DEF Cancel, U
<1> HIDE DEF T
<1> QED BY <1>3, <1>4, <1>5, CalmsTransitive

(* EndSequence and its like *)
LEMMA EndAllDoes ==
    ASSUME NEW S, Sound(S), NEW x \in All, NEW I
    PROVE  LET T == maybe_move_to_waiting(End(S, x, I), x) IN
           /\ Calms(S, T, {x}) /\ Rested(T, x)
           /\ T.ges[x].state \in {S.ges[x].state, "WAITING"}
           /\ \/ T.ges[x].seqs = <<>>
              \/ /\ DOMAIN T.ges[x].seqs = DOMAIN S.ges[x].seqs
                 /\ \A i \in DOMAIN S.ges[x].seqs \cap I : T.ges[x].seqs[i].ended
<1> DEFINE U == End(S, x, I)
           T == maybe_move_to_waiting(U, x)
<1>1. /\ Calms(S, U, {x})
      /\ U.ges[x].state = S.ges[x].state
      /\ DOMAIN U.ges[x].seqs = DOMAIN S.ges[x].seqs
      /\ \A i \in DOMAIN S.ges[x].seqs \cap I : U.ges[x].seqs[i].ended
  BY EndDoes
<1> HIDE DEF U
<1>2. /\ Calms(U, T, {x}) /\ Rested(T, x)
      /\ T.ges[x].state \in {U.ges[x].state, "WAITING"}
  BY <1>1, MaybeMoveDoes DEF Calms
<1> HIDE DEF T
<1>3. Quieter(U.ges[x].seqs, T.ges[x].seqs)
  BY <1>2 DEF Calms, Follows, FollowsAt
<1>4. Calms(S, T, {x})
  BY <1>1, <1>2, CalmsTransitive, SMTT(40)
<1>5. \/ T.ges[x].seqs = <<>>
      \/ /\ DOMAIN T.ges[x].seqs = DOMAIN S.ges[x].seqs
         /\ \A i \in DOMAIN S.ges[x].seqs \cap I : T.ges[x].seqs[i].ended
  BY <1>1, <1>3 DEF Quieter
<1> QED BY <1>1, <1>2, <1>4, <1>5 DEF T, U

-----------------------------------------------------------------------------
(* Cancelling several gestures, in whatever order *)
LEMMA AllFinite == IsFiniteSet(All)
<1>1. Gestures \in Seq(All)
  BY GestureAssumption
<1> DEFINE n == Len(Gestures)
<1>2. n \in Nat /\ Gestures \in [1..n -> All] /\ DOMAIN Gestures = 1..n
  BY <1>1, LenProperties
<1>3. \A x \in All : \E i \in 1..n : Gestures[i] = x
  BY <1>2 DEF All, ToSet
<1> HIDE DEF n
<1>4. Gestures \in Surjection(1..n, All)
  BY <1>2, <1>3 DEF Surjection
<1>5. IsFiniteSet(1..n)
  BY <1>2, FS_Interval
<1> QED BY <1>4, <1>5, FS_Surjection

LEMMA MoveTyped ==
    ASSUME NEW S \in Stage, NEW x \in All
    PROVE  maybe_move_to_waiting(S, x) \in Stage
<1> DEFINE g(y) == IF y = x THEN [S.ges[y] EXCEPT !.state = "WAITING", !.seqs = <<>>,
                                                  !.rel = {}, !.cancels = {}]
                   ELSE IF y \in S.ges[x].rel THEN [S.ges[y] EXCEPT !.rel = @ \ {x}]
                   ELSE S.ges[y]
           ges == [y \in All |-> g(y)]
<1>1. \A y \in All : S.ges[y] \in Gesture
  BY DEF Stage
<1>2. <<>> \in Seq(Datum) /\ "WAITING" \in States
  BY DEF States
<1>3. \A h \in Gesture : [h EXCEPT !.state = "WAITING", !.seqs = <<>>,
                                   !.rel = {}, !.cancels = {}] \in Gesture
  BY <1>2 DEF Gesture
<1>4. \A h \in Gesture : [h EXCEPT !.rel = @ \ {x}] \in Gesture
  BY DEF Gesture
<1>5. ges \in [All -> Gesture]
  BY <1>1, <1>3, <1>4
<1>6. \/ maybe_move_to_waiting(S, x) = S
      \/ maybe_move_to_waiting(S, x) = [S EXCEPT !.failed = TRUE]
      \/ maybe_move_to_waiting(S, x) = [S EXCEPT !.active = @ \ {x}, !.ges = ges]
  BY DEF maybe_move_to_waiting, MoveToWaiting
<1>7. [S EXCEPT !.failed = TRUE] \in Stage
  BY DEF Stage
<1> HIDE DEF ges
<1>8. [S EXCEPT !.active = @ \ {x}, !.ges = ges] \in Stage
  BY <1>5 DEF Stage
<1> QED BY <1>6, <1>7, <1>8

LEMMA CancelTyped ==
    ASSUME NEW S \in Stage, NEW x \in All
    PROVE  Cancel(S, x) \in Stage
<1> DEFINE h == [S.ges[x] EXCEPT !.state = "CANCELLED"]
           U == State(S, x, "CANCELLED")
<1>1. S.ges[x] \in Gesture
  BY DEF Stage
<1>2. h \in Gesture
  BY <1>1 DEF Gesture, States
<1>3. U = Put(S, x, h)
  BY DEF State, Put
<1> HIDE DEF h
<1>4. U \in Stage
  BY <1>2, <1>3, ChangeOne
<1> HIDE DEF U
<1>5. maybe_move_to_waiting(U, x) \in Stage
  BY <1>4, MoveTyped
<1> QED BY <1>5 DEF Cancel, U

LEMMA CancelAllFolds ==
    ASSUME NEW S \in Stage, NEW X \in SUBSET All
    PROVE  \E f : /\ f[{}] = S
                  /\ \A u \in SUBSET X : u # {} =>
                       \E y \in u : f[u] = Cancel(f[u \ {y}], y)
                  /\ CancelAll(S, X) = f[X]
<1> DEFINE pick == [u \in SUBSET X |-> CHOOSE y \in u : TRUE]
           G == [y \in X |-> [T \in Stage |-> Cancel(T, y)]]
           Is(f) == f = [u \in SUBSET X |->
                           IF u = {} THEN S
                           ELSE Cancel(f[u \ {CHOOSE y \in u : TRUE}], CHOOSE y \in u : TRUE)]
           iter == CHOOSE f : Is(f)
<1>1. CancelAll(S, X) = iter[X]
  BY DEF CancelAll, FoldSet, MapThenFoldSet
<1>2. IsFiniteSet(X)
  BY AllFinite, FS_Subset
<1>3. Picks(pick, X)
  BY DEF Picks
<1>4. \A u \in SUBSET X : pick[u] = CHOOSE y \in u : TRUE
  OBVIOUS
<1>5. G \in [X -> [Stage -> Stage]]
  BY CancelTyped
<1>6. \A y \in X, T \in Stage : G[y][T] = Cancel(T, y)
  OBVIOUS
<1> HIDE DEF G, pick
<1>7. PICK f : IsFold(f, S, X, pick, G, Stage)
  BY <1>2, <1>3, <1>5, FoldExists
<1>8. Is(f)
  <2>1. ASSUME NEW u \in SUBSET X, u # {}
        PROVE  G[pick[u]][f[u \ {pick[u]}]] = Cancel(f[u \ {pick[u]}], pick[u])
    <3>1. pick[u] \in X /\ u \ {pick[u]} \in SUBSET X
      BY <1>3, <2>1 DEF Picks
    <3>2. f[u \ {pick[u]}] \in Stage
      BY <1>7, <3>1 DEF IsFold
    <3> QED BY <1>6, <3>1, <3>2
  <2>2. \A u \in SUBSET X : f[u] = IF u = {} THEN S ELSE Cancel(f[u \ {pick[u]}], pick[u])
    BY <1>7, <2>1 DEF IsFold
  <2>3. \A u \in SUBSET X :
           f[u] = IF u = {} THEN S
                  ELSE Cancel(f[u \ {CHOOSE y \in u : TRUE}], CHOOSE y \in u : TRUE)
    BY <1>4, <2>2
  <2> QED BY <1>7, <2>3 DEF IsFold
<1>9. Is(iter)
  BY <1>8
<1>10. \A u \in SUBSET X : iter[u] = IF u = {} THEN S ELSE Cancel(iter[u \ {pick[u]}], pick[u])
  BY <1>4, <1>9
<1> HIDE DEF iter
<1>11. iter[{}] = S
  BY <1>10
<1>12. \A u \in SUBSET X : u # {} => \E y \in u : iter[u] = Cancel(iter[u \ {y}], y)
  BY <1>3, <1>10 DEF Picks
<1> QED BY <1>1, <1>11, <1>12

(* Sets are built up one by one. *)
LEMMA SetAll ==
    ASSUME NEW X, IsFiniteSet(X), NEW P, {} \in P,
           \A u \in SUBSET X : u # {} /\ (\A y \in u : u \ {y} \in P) => u \in P
    PROVE  X \in P
<1> DEFINE T == {n \in Nat : \A u \in SUBSET X : Cardinality(u) = n => u \in P}
<1>1. \A u \in SUBSET X : IsFiniteSet(u) /\ Cardinality(u) \in Nat
  BY FS_Subset, FS_CardinalityType
<1>2. 0 \in T
  BY <1>1, FS_EmptySet
<1>3. ASSUME NEW n \in T PROVE n + 1 \in T
  <2>1. n \in Nat /\ \A u \in SUBSET X : Cardinality(u) = n => u \in P
    OBVIOUS
  <2>2. ASSUME NEW u \in SUBSET X, Cardinality(u) = n + 1 PROVE u \in P
    <3>1. u # {}
      <4>1. Cardinality({}) = 0 /\ n + 1 # 0
        BY <2>1, FS_EmptySet
      <4> QED BY <2>2, <4>1
    <3>2. ASSUME NEW y \in u PROVE u \ {y} \in P
      <4>1. Cardinality(u \ {y}) = Cardinality(u) - 1
        BY <1>1, FS_RemoveElement
      <4>2. (n + 1) - 1 = n
        BY <2>1
      <4>3. u \ {y} \in SUBSET X
        OBVIOUS
      <4> QED BY <2>1, <2>2, <4>1, <4>2, <4>3
    <3> QED BY <3>1, <3>2
  <2> QED BY <2>1, <2>2
<1> HIDE DEF T
<1>4. T \in SUBSET Nat
  BY DEF T
<1>5. T = Nat
  BY <1>2, <1>3, <1>4, NatAll
<1> QED BY <1>1, <1>5 DEF T

LEMMA CalmsUnion ==
    ASSUME NEW S, NEW T, NEW U, NEW X, NEW Y, Calms(S, T, X), Calms(T, U, Y)
    PROVE  Calms(S, U, X \cup Y)
<1>1. Follows(S, U)
  BY FollowsTransitive DEF Calms
<1>2. Calmed(S, U)
  BY CalmedTransitive DEF Calms
<1>3. Elsewhere(S, U, X \cup Y)
  BY DEF Calms, Elsewhere
<1> QED BY <1>1, <1>2, <1>3 DEF Calms

LEMMA CancelAllDoes ==
    ASSUME NEW S, Sound(S), NEW X \in SUBSET All, \A y \in X : S.ges[y].state # "WAITING"
    PROVE  LET T == CancelAll(S, X) IN
           /\ Calms(S, T, X) /\ Tidy(S, T, {})
           /\ \A y \in X : T.ges[y].state \in {"CANCELLED", "WAITING"}
<1>1. S \in Stage /\ IsFiniteSet(X)
  BY AllFinite, FS_Subset DEF Sound
<1>2. PICK f : /\ f[{}] = S
               /\ \A u \in SUBSET X : u # {} => \E y \in u : f[u] = Cancel(f[u \ {y}], y)
               /\ CancelAll(S, X) = f[X]
  BY <1>1, CancelAllFolds
<1> DEFINE Q(u, T) == /\ Calms(S, T, u) /\ Tidy(S, T, {})
                      /\ \A y \in u : T.ges[y].state \in {"CANCELLED", "WAITING"}
           P == {u \in SUBSET X : Q(u, f[u])}
<1>3. {} \in P
  <2>1. Calms(S, S, {}) /\ Tidy(S, S, {})
    BY CalmsItself DEF Tidy
  <2> QED BY <1>2, <2>1
<1>4. ASSUME NEW u \in SUBSET X, u # {}, \A y \in u : u \ {y} \in P PROVE u \in P
  <2>1. PICK y \in u : f[u] = Cancel(f[u \ {y}], y)
    BY <1>2, <1>4
  <2> DEFINE U == f[u \ {y}]
             T == f[u]
  <2>2. Q(u \ {y}, U)
    BY <1>4
  <2>3. y \in All /\ u = (u \ {y}) \cup {y} /\ y \notin u \ {y}
    OBVIOUS
  <2> HIDE DEF U, T
  <2>4. U.ges[y].state = S.ges[y].state
    BY <2>2, <2>3 DEF Calms, Elsewhere
  <2>5. T = Cancel(U, y)
    BY <2>1 DEF T, U
  <2>6. /\ Calms(U, T, {y}) /\ Rested(T, y)
        /\ T.ges[y].state \in {"CANCELLED", "WAITING"}
    BY <2>2, <2>3, <2>4, <2>5, CancelDoes DEF Calms
  <2>7. Calms(S, T, u)
    <3>1. Calms(S, T, (u \ {y}) \cup {y})
      BY <2>2, <2>6, CalmsUnion
    <3> QED BY <2>3, <3>1
  <2>8. Tidy(S, T, {})
    <3>1. Tidy(U, T, {y})
      BY <2>6, ElsewhereTidy DEF Calms
    <3> QED BY <2>2, <2>6, <3>1 DEF Tidy
  <2>9. \A z \in u : T.ges[z].state \in {"CANCELLED", "WAITING"}
    BY <2>2, <2>6 DEF Calms, Elsewhere
  <2>10. Q(u, T)
    BY <2>7, <2>8, <2>9
  <2> HIDE DEF Q
  <2> QED BY <2>10 DEF T
<1> HIDE DEF P
<1>5. X \in P
  BY <1>1, <1>3, <1>4, SetAll
<1>6. Q(X, f[X])
  BY <1>5 DEF P
<1> QED BY <1>2, <1>6

-----------------------------------------------------------------------------
(* cancel_sequence and cancel_point *)
LEMMA CancelSequenceDoes ==
    ASSUME NEW S, Sound(S), NEW x \in All, NEW i \in DOMAIN S.ges[x].seqs
    PROVE  LET T == cancel_sequence(S, x, i) IN
           /\ Calms(S, T, {x}) /\ Rested(T, x)
           /\ \/ T.ges[x].seqs = <<>>
              \/ DOMAIN T.ges[x].seqs = DOMAIN S.ges[x].seqs /\ T.ges[x].seqs[i].ended
<1> DEFINE g == S.ges[x]
           told == g.state \notin Over /\ (Len(g.seqs) = 1 \/ g.seqs[i].seen)
           U == IF told THEN Cancel(S, x) ELSE S
           T == maybe_move_to_waiting(End(U, x, {i}), x)
<1>1. S.ges[x].state # "WAITING"
  <2>1. DOMAIN <<>> = {}
    OBVIOUS
  <2> QED BY <2>1 DEF Sound
<1>2. Calms(S, U, {x})
  BY <1>1, CancelDoes, CalmsItself
<1>3. cancel_sequence(S, x, i) = T
  BY DEF cancel_sequence, EndSequence
<1> HIDE DEF U
<1>4. /\ Calms(U, T, {x}) /\ Rested(T, x)
      /\ \/ T.ges[x].seqs = <<>>
         \/ /\ DOMAIN T.ges[x].seqs = DOMAIN U.ges[x].seqs
            /\ \A j \in DOMAIN U.ges[x].seqs \cap {i} : T.ges[x].seqs[j].ended
  BY <1>2, EndAllDoes DEF Calms
<1> HIDE DEF T
<1>5. Calms(S, T, {x})
  BY <1>2, <1>4, CalmsTransitive
<1>6. Quieter(S.ges[x].seqs, U.ges[x].seqs)
  BY <1>2 DEF Calms, Follows, FollowsAt
<1>7. CASE U.ges[x].seqs = <<>>
  <2>1. Quieter(<<>>, T.ges[x].seqs)
    BY <1>4, <1>7 DEF Calms, Follows, FollowsAt
  <2>2. T.ges[x].seqs = <<>>
    <3>1. T.ges[x].seqs \in Seq(Datum)
      BY <1>5 DEF Calms, Sound, Stage, Gesture
    <3>2. DOMAIN <<>> = {}
      OBVIOUS
    <3>3. T.ges[x].seqs = <<>> \/ DOMAIN T.ges[x].seqs = {}
      BY <2>1, <3>2 DEF Quieter
    <3> QED BY <3>1, <3>3, EmptyDomain
  <2> QED BY <1>3, <1>4, <1>5, <2>2
<1>8. CASE U.ges[x].seqs # <<>>
  <2>1. DOMAIN U.ges[x].seqs = DOMAIN S.ges[x].seqs
    BY <1>6, <1>8 DEF Quieter
  <2> QED BY <1>3, <1>4, <1>5, <2>1
<1> QED BY <1>7, <1>8

LEMMA get_sequence_data_Finds ==
    ASSUME NEW S, Sound(S), NEW x \in All, NEW p
    PROVE  LET i == get_sequence_data(S, x, p) IN
           \/ /\ Open(S, x, i) /\ S.ges[x].seqs[i].sprite = p /\ i # 0
           \/ /\ i = 0
              /\ ~\E j \in DOMAIN S.ges[x].seqs : Open(S, x, j) /\ S.ges[x].seqs[j].sprite = p
<1> DEFINE q == S.ges[x].seqs
           I == {j \in 1..Len(q) : ~q[j].ended /\ q[j].sprite = p}
           i == get_sequence_data(S, x, p)
<1>1. q \in Seq(Datum)
  BY DEF Sound, Stage, Gesture
<1>2. DOMAIN q = 1..Len(q) /\ Len(q) \in Nat
  BY <1>1, LenProperties
<1>3. i = IF I # {} THEN Min(I) ELSE 0
  BY DEF get_sequence_data, SelectInSeq
<1>4. CASE I # {}
  <2>0. I \in SUBSET Nat /\ I \subseteq 1..Len(q)
    BY <1>2
  <2> HIDE DEF I
  <2>1. \E n \in I : \A m \in I : n <= m
    BY <1>4, <2>0, NatLeast
  <2>2. Min(I) \in I
    BY <2>1 DEF Min
  <2>3. i \in I /\ i # 0
    <3>1. \A j \in 1..Len(q) : j # 0
      BY <1>2
    <3> QED BY <1>3, <1>4, <2>0, <2>2, <3>1
  <2> HIDE DEF i
  <2>4. Open(S, x, i) /\ S.ges[x].seqs[i].sprite = p
    BY <1>2, <2>3 DEF Open, I
  <2> QED BY <2>3, <2>4 DEF i
<1>5. CASE I = {}
  <2>1. i = 0
    BY <1>3, <1>5
  <2>2. ~\E j \in DOMAIN q : Open(S, x, j) /\ q[j].sprite = p
    BY <1>2, <1>5 DEF Open
  <2> QED BY <2>1, <2>2
<1> QED BY <1>4, <1>5

(* No sequence of p goes on.                                               *)
Gone(S, x, p) == ~\E j \in DOMAIN S.ges[x].seqs : Open(S, x, j) /\ S.ges[x].seqs[j].sprite = p

LEMMA FollowsOpen ==
    ASSUME NEW S, NEW T, Follows(S, T), NEW x \in All, NEW i \in DOMAIN T.ges[x].seqs,
           Open(T, x, i)
    PROVE  /\ i \in DOMAIN S.ges[x].seqs /\ Open(S, x, i)
           /\ T.ges[x].seqs[i].sprite = S.ges[x].seqs[i].sprite
           /\ T.ges[x].seqs[i].buttons = S.ges[x].seqs[i].buttons
           /\ S.ges[x].seqs[i].seen => T.ges[x].seqs[i].seen
<1>1. Quieter(S.ges[x].seqs, T.ges[x].seqs)
  BY DEF Follows, FollowsAt
<1>2. T.ges[x].seqs # <<>>
  <2>1. DOMAIN <<>> = {}
    OBVIOUS
  <2> QED BY <2>1
<1> QED BY <1>1, <1>2 DEF Quieter, Open

LEMMA FollowsDistinct ==
    ASSUME NEW S, NEW T, Follows(S, T), NEW x \in All, Distinct(S, x)
    PROVE  Distinct(T, x)
  BY FollowsOpen DEF Distinct

LEMMA FollowsGone ==
    ASSUME NEW S, NEW T, Follows(S, T), NEW x \in All, NEW p, Gone(S, x, p)
    PROVE  Gone(T, x, p)
  BY FollowsOpen DEF Gone

LEMMA CancelPointDoes ==
    ASSUME NEW S, Sound(S), NEW x \in All, Distinct(S, x), NEW p
    PROVE  LET T == cancel_point(S, x, p) IN
           Calms(S, T, {x}) /\ Tidy(S, T, {}) /\ Gone(T, x, p)
<1> DEFINE i == get_sequence_data(S, x, p)
           T == cancel_point(S, x, p)
<1>1. CASE i = 0
  <2>1. T = S /\ Gone(S, x, p)
    BY <1>1, get_sequence_data_Finds DEF cancel_point, Gone, Open
  <2>2. Calms(S, S, {x}) /\ Tidy(S, S, {})
    BY CalmsItself DEF Tidy
  <2> QED BY <2>1, <2>2
<1>2. CASE i # 0
  <2>1. T = cancel_sequence(S, x, i)
    BY <1>2 DEF cancel_point
  <2>2. Open(S, x, i) /\ S.ges[x].seqs[i].sprite = p
    BY <1>2, get_sequence_data_Finds
  <2>3. i \in DOMAIN S.ges[x].seqs
    BY <2>2 DEF Open
  <2> HIDE DEF i
  <2>4. /\ Calms(S, T, {x}) /\ Rested(T, x)
        /\ \/ T.ges[x].seqs = <<>>
           \/ DOMAIN T.ges[x].seqs = DOMAIN S.ges[x].seqs /\ T.ges[x].seqs[i].ended
    BY <2>1, <2>3, CancelSequenceDoes
  <2> HIDE DEF T
  <2>5. Tidy(S, T, {})
    BY <2>4, ElsewhereTidy DEF Calms, Tidy
  <2>6. Gone(T, x, p)
    <3> SUFFICES ASSUME NEW j \in DOMAIN T.ges[x].seqs, Open(T, x, j),
                        T.ges[x].seqs[j].sprite = p
                 PROVE  FALSE
      BY DEF Gone
    <3>1. j \in DOMAIN S.ges[x].seqs /\ Open(S, x, j) /\ S.ges[x].seqs[j].sprite = p
      BY <2>4, FollowsOpen DEF Calms
    <3>2. j = i
      BY <2>2, <2>3, <3>1 DEF Distinct
    <3>3. DOMAIN <<>> = {}
      OBVIOUS
    <3> QED BY <2>4, <3>2, <3>3 DEF Open
  <2> QED BY <2>4, <2>5, <2>6 DEF T
<1> QED BY <1>1, <1>2

LEMMA EndTyped ==
    ASSUME NEW S \in Stage, NEW x \in All, NEW I
    PROVE  End(S, x, I) \in Stage
<1> DEFINE q == S.ges[x].seqs
           r == [i \in DOMAIN q |-> IF i \in I THEN [q[i] EXCEPT !.ended = TRUE] ELSE q[i]]
           h == [S.ges[x] EXCEPT !.seqs = r]
<1>1. S.ges[x] \in Gesture /\ q \in Seq(Datum)
  BY DEF Stage, Gesture
<1>2. DOMAIN q = 1..Len(q) /\ Len(q) \in Nat /\ \A i \in DOMAIN q : q[i] \in Datum
  BY <1>1, LenProperties
<1>3. \A i \in DOMAIN q : r[i] \in Datum
  BY <1>2 DEF Datum
<1>4. r \in Seq(Datum)
  <2>1. r \in [1..Len(q) -> Datum]
    BY <1>2, <1>3
  <2> HIDE DEF r, q
  <2> QED BY <1>2, <2>1, SeqDef
<1>5. End(S, x, I) = Put(S, x, h)
  BY <1>1 DEF End, Put, Stage, Gesture
<1> HIDE DEF r
<1>6. h \in Gesture
  BY <1>1, <1>4 DEF Gesture
<1> HIDE DEF h
<1> QED BY <1>5, <1>6, ChangeOne

LEMMA CancelPointTyped ==
    ASSUME NEW S \in Stage, NEW x \in All, NEW p
    PROVE  cancel_point(S, x, p) \in Stage
<1> DEFINE i == get_sequence_data(S, x, p)
           g == S.ges[x]
           told == g.state \notin Over /\ (Len(g.seqs) = 1 \/ g.seqs[i].seen)
           U == IF told THEN Cancel(S, x) ELSE S
           W == End(U, x, {i})
<1>1. U \in Stage
  BY CancelTyped
<1>2. cancel_point(S, x, p) = IF i = 0 THEN S ELSE maybe_move_to_waiting(W, x)
  BY DEF cancel_point, cancel_sequence, EndSequence
<1> HIDE DEF U
<1>3. W \in Stage
  BY <1>1, EndTyped
<1> HIDE DEF W, i
<1>4. maybe_move_to_waiting(W, x) \in Stage
  BY <1>3, MoveTyped
<1> QED BY <1>2, <1>4

(* CancelOn, one receiver after the other *)
LEMMA CancelOnFolds ==
    ASSUME NEW S \in Stage, NEW chain \in Seq(All), NEW p
    PROVE  \E f : /\ f[0] = S
                  /\ \A k \in 1..Len(chain) : f[k] = cancel_point(f[k - 1], chain[k], p)
                  /\ CancelOn(S, p, chain) = f[Len(chain)]
<1> DEFINE n == Len(chain)
           Step(x, T) == cancel_point(T, chain[x], p)
           G == [x \in 1..n |-> [T \in Stage |-> Step(x, T)]]
           Is(f) == f = [u \in SUBSET (1..n) |->
                           IF u = {} THEN S ELSE Step(Max(u), f[u \ {Max(u)}])]
           iter == CHOOSE f : Is(f)
           g == [k \in 0..n |-> iter[1..k]]
<1>1. n \in Nat /\ DOMAIN chain = 1..n /\ \A x \in 1..n : chain[x] \in All
  BY LenProperties
<1>2. CancelOn(S, p, chain) = iter[1..n]
  BY <1>1 DEF CancelOn, FoldLeft, MapThenFoldSet
<1>3. \A x \in 1..n, T \in Stage : Step(x, T) \in Stage
  BY <1>1, CancelPointTyped
<1>4. G \in [1..n -> [Stage -> Stage]]
  BY <1>3
<1>5. \A x \in 1..n, T \in Stage : G[x][T] = Step(x, T)
  OBVIOUS
<1> HIDE DEF G, Step, n
<1>6. PICK f : IsLeftFold(f, S, n, G, Stage)
  BY <1>1, <1>4, FoldLeftExists
<1>7. Is(f)
  <2>1. ASSUME NEW u \in SUBSET (1..n), u # {}
        PROVE  G[Max(u)][f[u \ {Max(u)}]] = Step(Max(u), f[u \ {Max(u)}])
    <3>1. Max(u) \in 1..n /\ u \ {Max(u)} \in SUBSET (1..n)
      BY <1>1, <2>1, MaxOfSome
    <3>2. f[u \ {Max(u)}] \in Stage
      BY <1>6, <3>1 DEF IsLeftFold
    <3> QED BY <1>5, <3>1, <3>2
  <2>2. \A u \in SUBSET (1..n) :
          f[u] = IF u = {} THEN S ELSE Step(Max(u), f[u \ {Max(u)}])
    BY <1>6, <2>1 DEF IsLeftFold
  <2> QED BY <1>6, <2>2 DEF IsLeftFold
<1>8. Is(iter)
  BY <1>7
<1>9. \A u \in SUBSET (1..n) :
        iter[u] = IF u = {} THEN S ELSE Step(Max(u), iter[u \ {Max(u)}])
  BY <1>8
<1> HIDE DEF iter
<1>10. g[0] = S /\ g[n] = iter[1..n]
  <2>1. 1..0 = {} /\ {} \in SUBSET (1..n) /\ 0 \in 0..n /\ n \in 0..n
    BY <1>1
  <2> QED BY <1>9, <2>1
<1>11. ASSUME NEW k \in 1..n PROVE g[k] = Step(k, g[k - 1])
  <2>1. k \in 0..n /\ k - 1 \in 0..n
    BY <1>1
  <2>2. iter[1..k] = Step(k, iter[1..k - 1])
    <3> DEFINE u == 1..k
    <3>1. u \in SUBSET (1..n) /\ u # {} /\ Max(u) = k /\ u \ {k} = 1..k - 1
      BY <1>1, FirstOf
    <3> HIDE DEF u
    <3>2. iter[u] = Step(k, iter[u \ {k}])
      BY <1>9, <3>1
    <3>3. iter[u] = Step(k, iter[1..k - 1])
      BY <3>1, <3>2
    <3> QED BY <3>3 DEF u
  <2> QED BY <2>1, <2>2
<1> HIDE DEF g
<1> QED BY <1>2, <1>10, <1>11 DEF Step, n

LEMMA CancelOnDoes ==
    ASSUME NEW S, Sound(S), \A x \in All : Distinct(S, x), NEW chain \in Seq(All), NEW p
    PROVE  LET T == CancelOn(S, p, chain) IN
           /\ Calms(S, T, ToSet(chain)) /\ Tidy(S, T, {})
           /\ \A x \in ToSet(chain) : Gone(T, x, p)
<1> DEFINE n == Len(chain)
           First(k) == {chain[j] : j \in 1..k}
<1>1. S \in Stage
  BY DEF Sound
<1>2. PICK f : /\ f[0] = S
               /\ \A k \in 1..n : f[k] = cancel_point(f[k - 1], chain[k], p)
               /\ CancelOn(S, p, chain) = f[n]
  BY <1>1, CancelOnFolds
<1> DEFINE Q(T, X) == Calms(S, T, X) /\ Tidy(S, T, {}) /\ \A x \in X : Gone(T, x, p)
           P == {k \in 0..n : Q(f[k], First(k))}
<1>3. n \in Nat /\ DOMAIN chain = 1..n /\ \A x \in 1..n : chain[x] \in All
  BY LenProperties
<1> HIDE DEF n
<1>4. 0 \in P
  <2>1. First(0) = {}
    OBVIOUS
  <2>2. Calms(S, S, {}) /\ Tidy(S, S, {})
    BY CalmsItself DEF Tidy
  <2> HIDE DEF First
  <2>3. Q(f[0], First(0))
    BY <1>2, <2>1, <2>2
  <2> HIDE DEF Q
  <2> QED BY <1>3, <2>3
<1>5. ASSUME NEW k \in 0..n - 1, k \in P PROVE k + 1 \in P
  <2>1. k + 1 \in 1..n /\ (k + 1) - 1 = k /\ k + 1 \in 0..n /\ k \in Nat
    BY <1>3
  <2> DEFINE U == f[k]
             T == f[k + 1]
             y == chain[k + 1]
  <2>2. T = cancel_point(U, y, p) /\ y \in All
    BY <1>2, <1>3, <2>1
  <2>3. First(k + 1) = First(k) \cup {y}
    <3>1. 1..k + 1 = 1..k \cup {k + 1}
      BY <2>1
    <3> QED BY <3>1
  <2>4. First(k) \subseteq All
    BY <1>3, <2>1
  <2> HIDE DEF First
  <2>5. Q(U, First(k))
    BY <1>5
  <2> HIDE DEF U, T, y
  <2>6. Distinct(U, y)
    BY <2>2, <2>5, FollowsDistinct DEF Calms
  <2>7. Calms(U, T, {y}) /\ Tidy(U, T, {}) /\ Gone(T, y, p)
    BY <2>2, <2>5, <2>6, CancelPointDoes DEF Calms
  <2>8. Calms(S, T, First(k) \cup {y})
    BY <2>5, <2>7, CalmsUnion
  <2>9. Tidy(S, T, {})
    BY <2>5, <2>7 DEF Tidy
  <2>10. \A x \in First(k) : Gone(T, x, p)
    BY <2>4, <2>5, <2>7, FollowsGone DEF Calms
  <2>11. Q(T, First(k + 1))
    BY <2>3, <2>7, <2>8, <2>9, <2>10
  <2> HIDE DEF Q
  <2> QED BY <2>1, <2>11 DEF T
<1> HIDE DEF P
<1>6. \A k \in 0..n : k \in P
  BY <1>3, <1>4, <1>5, UpTo
<1>7. n \in P
  BY <1>3, <1>6
<1>8. Q(f[n], First(n))
  <2> HIDE DEF Q
  <2> QED BY <1>7 DEF P
<1>9. First(n) = ToSet(chain)
  BY <1>3 DEF ToSet
<1> HIDE DEF First
<1> QED BY <1>2, <1>8, <1>9

(* cancel_all_points *)
LEMMA CancelAllPointsDoes ==
    ASSUME NEW S, Sound(S), NEW x \in All
    PROVE  LET T == cancel_all_points(S, x) IN
           /\ Calms(S, T, {x}) /\ Tidy(S, T, {})
           /\ \A i \in DOMAIN T.ges[x].seqs : T.ges[x].seqs[i].ended
<1> DEFINE g == S.ges[x]
           told == /\ g.state \notin Over
                   /\ \/ \A i \in DOMAIN g.seqs : ~g.seqs[i].ended
                      \/ ActivePoints(S, x) # {}
           U == IF told THEN Cancel(S, x) ELSE S
           D == DOMAIN g.seqs
           T == maybe_move_to_waiting(End(U, x, D), x)
<1>0. DOMAIN <<>> = {}
  OBVIOUS
<1>1. CASE g.seqs = <<>>
  <2>1. cancel_all_points(S, x) = S
    BY <1>1 DEF cancel_all_points
  <2>2. Calms(S, S, {x}) /\ Tidy(S, S, {})
    BY CalmsItself DEF Tidy
  <2> QED BY <1>0, <1>1, <2>1, <2>2
<1>2. CASE g.seqs # <<>>
  <2>1. cancel_all_points(S, x) = T
    BY <1>2 DEF cancel_all_points
  <2>2. S.ges[x].state # "WAITING"
    BY <1>2 DEF Sound
  <2>3. Calms(S, U, {x})
    BY <2>2, CancelDoes, CalmsItself, SMTT(40)
  <2>4. Quieter(g.seqs, U.ges[x].seqs)
    BY <2>3 DEF Calms, Follows, FollowsAt
  <2>5. DOMAIN U.ges[x].seqs \subseteq D
    <3> HIDE DEF U, g
    <3> QED BY <1>0, <2>4 DEF Quieter
  <2> HIDE DEF U, D
  <2>6. /\ Calms(U, T, {x}) /\ Rested(T, x)
        /\ \/ T.ges[x].seqs = <<>>
           \/ /\ DOMAIN T.ges[x].seqs = DOMAIN U.ges[x].seqs
              /\ \A i \in DOMAIN U.ges[x].seqs \cap D : T.ges[x].seqs[i].ended
    BY <2>3, EndAllDoes DEF Calms
  <2> HIDE DEF T
  <2>7. Calms(S, T, {x})
    BY <2>3, <2>6, CalmsTransitive
  <2>8. Tidy(S, T, {})
    BY <2>6, <2>7, ElsewhereTidy DEF Calms, Tidy
  <2>9. \A i \in DOMAIN T.ges[x].seqs : T.ges[x].seqs[i].ended
    BY <1>0, <2>5, <2>6
  <2> QED BY <2>1, <2>7, <2>8, <2>9
<1> QED BY <1>1, <1>2

-----------------------------------------------------------------------------
(* Recognition.  S becomes T by what the gesture x asks for: only x may go *)
(* on, others keep their states or are cancelled, and those in a relation- *)
(* ship with x only if x cancels them.                                     *)
Spares(S, T, x) ==
    \A y \in S.ges[x].rel \ S.ges[x].cancels : T.ges[y].state = S.ges[y].state

Advances(S, T, x) ==
    /\ Sound(T) /\ Follows(S, T) /\ Tidy(S, T, {})
    /\ Single(S) => Single(T)
    /\ \A y \in All : T.ges[y].cancels \subseteq S.ges[y].cancels
    /\ \A y \in All \ {x} : \/ T.ges[y].state = S.ges[y].state
                            \/ T.ges[y].state \in {"CANCELLED", "WAITING"}
    /\ S.ges[x].state = "POSSIBLE" /\ T.ges[x].state \in {"RECOGNIZING", "COMPLETED"} =>
          Spares(S, T, x)

(* A gesture that is cancelled or loses sequences goes on nowhere.         *)
LEMMA CalmsAdvances ==
    ASSUME NEW S, NEW T, NEW X, NEW x \in All, Calms(S, T, X), Tidy(S, T, {})
    PROVE  Advances(S, T, x)
<1>1. Single(S) => Single(T)
  BY CalmsSingle DEF Calms
<1> QED BY <1>1 DEF Advances, Calms, Calmed

LEMMA RemoveDoes ==
    ASSUME NEW S, Sound(S), NEW P
    PROVE  LET T == remove_all_actors_from_chain(S, P) IN
           /\ Sound(T) /\ Follows(S, T)
           /\ T.ges = S.ges /\ T.active = S.active /\ T.failed = S.failed
<1> DEFINE T == remove_all_actors_from_chain(S, P)
           h(p) == IF p \in P THEN [S.sprites[p] EXCEPT !.actors = FALSE] ELSE S.sprites[p]
<1>1. S \in Stage /\ \A p \in Points : S.sprites[p] \in Sprite
  BY DEF Sound, Stage
<1>2. T = [S EXCEPT !.sprites = [p \in Points |-> h(p)]]
  BY DEF remove_all_actors_from_chain
<1>3. \A p \in Points : /\ h(p) \in Sprite /\ h(p).press_count = S.sprites[p].press_count
                        /\ h(p).chain = S.sprites[p].chain
  BY <1>1 DEF Sprite
<1> HIDE DEF h
<1>4. [p \in Points |-> h(p)] \in [Points -> Sprite]
  BY <1>3
<1>5. /\ T \in Stage /\ T.ges = S.ges /\ T.active = S.active /\ T.failed = S.failed
      /\ T.sprites = [p \in Points |-> h(p)]
  BY <1>1, <1>2, <1>4 DEF Stage
<1> HIDE DEF T
<1>6. Sound(T)
  BY <1>5 DEF Sound
<1>7. Follows(S, T)
  BY <1>3, <1>5 DEF Follows, FollowsAt, Quieter
<1> QED BY <1>5, <1>6, <1>7 DEF T

LEMMA CalmsMore ==
    ASSUME NEW S, NEW T, NEW X, NEW Y, X \subseteq Y, Calms(S, T, X)
    PROVE  Calms(S, T, Y)
  BY DEF Calms, Elsewhere

(* maybe_cancel_independent_gestures: related gestures are left alone.     *)
LEMMA IndependentDoes ==
    ASSUME NEW S, Sound(S), NEW x \in All
    PROVE  LET T == maybe_cancel_independent_gestures(S, x) IN
           Calms(S, T, All \ ({x} \cup S.ges[x].rel)) /\ Tidy(S, T, {})
<1> DEFINE X == {y \in S.active \ ({x} \cup S.ges[x].rel) : S.ges[y].state = "POSSIBLE"}
           T == CancelAll(S, X)
<1>1. X \in SUBSET All /\ \A y \in X : S.ges[y].state # "WAITING"
  BY DEF Sound, Stage
<1>2. X \subseteq All \ ({x} \cup S.ges[x].rel)
  BY <1>1
<1>3. maybe_cancel_independent_gestures(S, x) = T
  BY DEF maybe_cancel_independent_gestures
<1> HIDE DEF X
<1>4. Calms(S, T, X) /\ Tidy(S, T, {})
  BY <1>1, CancelAllDoes
<1> HIDE DEF T
<1>5. Calms(S, T, All \ ({x} \cup S.ges[x].rel))
  BY <1>2, <1>4, CalmsMore
<1> QED BY <1>3, <1>4, <1>5

(* maybe_influence_other_gestures: those of the relationships of x that x  *)
(* cancels recognize no longer.                                            *)
LEMMA InfluenceDoes ==
    ASSUME NEW S, Sound(S), NEW x \in All
    PROVE  LET T == maybe_influence_other_gestures(S, x) IN
           /\ Calms(S, T, S.ges[x].cancels \cap S.ges[x].rel) /\ Tidy(S, T, {})
           /\ \A y \in S.ges[x].cancels \cap S.ges[x].rel : T.ges[y].state # "RECOGNIZING"
           /\ T.ges[x].state = S.ges[x].state /\ T.ges[x].seqs = S.ges[x].seqs
<1> DEFINE X == {y \in S.ges[x].cancels \cap S.ges[x].rel : S.ges[y].state \notin Over}
           T == CancelAll(S, X)
<1>1. S.ges[x].rel \subseteq All /\ x \notin S.ges[x].rel
  BY DEF Sound, Stage, Gesture
<1>2. X \in SUBSET All /\ \A y \in X : S.ges[y].state # "WAITING"
  BY <1>1 DEF Sound
<1>3. /\ X \subseteq S.ges[x].cancels \cap S.ges[x].rel /\ x \notin X
      /\ \A y \in S.ges[x].cancels \cap S.ges[x].rel : y \in X \/ S.ges[y].state \in Over
  BY <1>1
<1>4. maybe_influence_other_gestures(S, x) = T
  BY DEF maybe_influence_other_gestures
<1> HIDE DEF X
<1>5. /\ Calms(S, T, X) /\ Tidy(S, T, {})
      /\ \A y \in X : T.ges[y].state \in {"CANCELLED", "WAITING"}
  BY <1>2, CancelAllDoes
<1> HIDE DEF T
<1>6. Calms(S, T, S.ges[x].cancels \cap S.ges[x].rel)
  BY <1>3, <1>5, CalmsMore
<1>7. T.ges[x].state = S.ges[x].state /\ T.ges[x].seqs = S.ges[x].seqs
  BY <1>3, <1>5 DEF Calms, Elsewhere
<1>8. \A y \in S.ges[x].cancels \cap S.ges[x].rel : T.ges[y].state # "RECOGNIZING"
  <2> SUFFICES ASSUME NEW y \in S.ges[x].cancels \cap S.ges[x].rel
               PROVE  T.ges[y].state # "RECOGNIZING"
    OBVIOUS
  <2>1. CASE y \in X
    BY <2>1, <1>5
  <2>2. CASE S.ges[y].state \in Over
    <3>1. y \in All /\ Follows(S, T)
      BY <1>1, <1>5 DEF Calms
    <3> QED BY <2>2, <3>1 DEF Follows, FollowsAt, Over
  <2> QED BY <1>3, <2>1, <2>2
<1> QED BY <1>4, <1>5, <1>6, <1>7, <1>8

LEMMA TidyTransitive ==
    ASSUME NEW S, NEW T, NEW U, NEW X, Tidy(S, T, X), Tidy(T, U, X)
    PROVE  Tidy(S, U, X)
  BY DEF Tidy

(* Recognize, once allowed, from the stage on which the others have been   *)
(* cancelled: the new state, the influence on others, and perhaps WAITING. *)
LEMMA RecognizedDoes ==
    ASSUME NEW S, Sound(S), NEW x \in All, S.ges[x].state \in {"POSSIBLE", "RECOGNIZING"},
           NEW st \in {"RECOGNIZING", "COMPLETED"},
           st = "RECOGNIZING" => \A y \in All \ {x} : S.ges[y].state = "RECOGNIZING" =>
                                    x \in S.ges[y].rel
    PROVE  LET T == maybe_move_to_waiting(
                        maybe_influence_other_gestures(State(S, x, st), x), x) IN
           Advances(S, T, x)
<1> DEFINE C == State(S, x, st)
           D == maybe_influence_other_gestures(C, x)
           E == maybe_move_to_waiting(D, x)
<1>1. /\ Sound(C) /\ C.sprites = S.sprites /\ C.failed = S.failed /\ C.active = S.active
      /\ C.ges[x].state = st /\ C.ges[x].seqs = S.ges[x].seqs
      /\ \A y \in All \ {x} : C.ges[y] = S.ges[y]
      /\ \A y \in All : C.ges[y].rel = S.ges[y].rel /\ C.ges[y].cancels = S.ges[y].cancels
      /\ Follows(S, C)
  <2>1. st \in States \ {"WAITING"} /\ S.ges[x].state # "WAITING" /\ S.ges[x].state \notin Over
    BY DEF States, Over
  <2> QED BY <2>1, StateDoes
<1> HIDE DEF C
<1>2. /\ Calms(C, D, C.ges[x].cancels \cap C.ges[x].rel) /\ Tidy(C, D, {})
      /\ \A y \in C.ges[x].cancels \cap C.ges[x].rel : D.ges[y].state # "RECOGNIZING"
      /\ D.ges[x].state = C.ges[x].state /\ D.ges[x].seqs = C.ges[x].seqs
  BY <1>1, InfluenceDoes
<1>3. Sound(D)
  BY <1>2 DEF Calms
<1> HIDE DEF D
<1>4. /\ Calms(D, E, {x}) /\ Rested(E, x) /\ E.ges[x].state \in {D.ges[x].state, "WAITING"}
  BY <1>3, MaybeMoveDoes
<1> HIDE DEF E
<1>5. Sound(E) /\ Follows(S, E)
  <2>1. Follows(C, D) /\ Follows(D, E) /\ Sound(E)
    BY <1>2, <1>4 DEF Calms
  <2>2. Follows(S, D)
    BY <1>1, <2>1, FollowsTransitive
  <2> QED BY <2>1, <2>2, FollowsTransitive
<1>6. Tidy(S, E, {})
  <2>1. ASSUME NEW y \in All, y # x, Rested(S, y) PROVE Rested(E, y)
    <3>1. Rested(C, y)
      BY <1>1, <2>1 DEF Rested, AllEnded
    <3>2. Rested(D, y)
      BY <1>2, <3>1 DEF Tidy
    <3>3. Tidy(D, E, {x})
      BY <1>4, ElsewhereTidy DEF Calms
    <3> QED BY <2>1, <3>2, <3>3 DEF Tidy
  <2> QED BY <1>4, <2>1 DEF Tidy
<1>7. Calmed(C, D) /\ Calmed(D, E)
  BY <1>2, <1>4 DEF Calms
<1>8. ASSUME Single(S) PROVE Single(E)
  <2>1. ASSUME NEW u \in All, NEW v \in All, u # v,
               D.ges[u].state = "RECOGNIZING", D.ges[v].state = "RECOGNIZING"
        PROVE  /\ v \in D.ges[u].rel
               /\ v \notin D.ges[u].cancels \/ u \notin D.ges[v].cancels
    <3>1. C.ges[u].state = "RECOGNIZING" /\ C.ges[v].state = "RECOGNIZING"
      BY <2>1, <1>7 DEF Calmed
    <3>2. v \in C.ges[u].rel => v \in D.ges[u].rel
      BY <2>1, <1>7 DEF Calmed
    <3>3. D.ges[u].cancels \subseteq C.ges[u].cancels /\ D.ges[v].cancels \subseteq C.ges[v].cancels
      BY <1>7 DEF Calmed
    <3>4. CASE u # x /\ v # x
      <4>1. S.ges[u] = C.ges[u] /\ S.ges[v] = C.ges[v]
        BY <1>1, <3>4
      <4>2. v \in C.ges[u].rel /\ (v \notin C.ges[u].cancels \/ u \notin C.ges[v].cancels)
        BY <1>8, <2>1, <3>1, <4>1 DEF Single
      <4> QED BY <3>2, <3>3, <4>2
    <3>5. ASSUME NEW y \in All \ {x}, C.ges[x].state = "RECOGNIZING",
                 C.ges[y].state = "RECOGNIZING", D.ges[y].state = "RECOGNIZING"
          PROVE  x \in C.ges[y].rel /\ y \in C.ges[x].rel /\ y \notin C.ges[x].cancels
      <4>1. S.ges[y].state = "RECOGNIZING" /\ st = "RECOGNIZING"
        BY <1>1, <3>5
      <4>2. x \in S.ges[y].rel
        BY <4>1
      <4>3. x \in C.ges[y].rel
        BY <1>1, <4>2
      <4>4. y \in C.ges[x].rel
        BY <1>1, <4>3 DEF Sound
      <4> QED BY <1>2, <3>5, <4>3, <4>4
    <3>6. CASE u = x
      <4>1. v \in All \ {x}
        BY <2>1, <3>6
      <4> QED BY <2>1, <3>1, <3>2, <3>3, <3>5, <3>6, <4>1
    <3>7. CASE v = x
      <4>1. u \in All \ {x}
        BY <2>1, <3>7
      <4> QED BY <2>1, <3>1, <3>2, <3>3, <3>5, <3>7, <4>1
    <3> QED BY <3>4, <3>6, <3>7
  <2>2. Single(D)
    BY <2>1 DEF Single
  <2> QED BY <1>7, <2>2, CalmsSingle
<1>9. \A y \in All : E.ges[y].cancels \subseteq S.ges[y].cancels
  BY <1>1, <1>7 DEF Calmed
<1>10. \A y \in All \ {x} : \/ E.ges[y].state = S.ges[y].state
                            \/ E.ges[y].state \in {"CANCELLED", "WAITING"}
  BY <1>1, <1>7 DEF Calmed
<1>11. Spares(S, E, x)
  <2> SUFFICES ASSUME NEW y \in S.ges[x].rel \ S.ges[x].cancels
               PROVE  E.ges[y].state = S.ges[y].state
    BY DEF Spares
  <2>1. y \in All \ {x} /\ y \notin C.ges[x].cancels
    BY <1>1 DEF Sound, Stage, Gesture
  <2>2. D.ges[y].state = C.ges[y].state
    BY <1>2, <2>1 DEF Calms, Elsewhere
  <2>3. E.ges[y].state = D.ges[y].state
    BY <1>4, <2>1 DEF Calms, Elsewhere
  <2> QED BY <1>1, <2>1, <2>2, <2>3
<1>12. Advances(S, E, x)
  BY <1>5, <1>6, <1>8, <1>9, <1>10, <1>11 DEF Advances
<1> QED BY <1>12 DEF C, D, E

LEMMA FailDoes ==
    ASSUME NEW S, Sound(S)
    PROVE  LET T == [S EXCEPT !.failed = TRUE] IN Calms(S, T, {}) /\ Tidy(S, T, {})
<1> DEFINE T == [S EXCEPT !.failed = TRUE]
<1>1. /\ T \in Stage /\ T.ges = S.ges /\ T.active = S.active /\ T.sprites = S.sprites
      /\ T.failed
  BY DEF Sound, Stage
<1> HIDE DEF T
<1>2. Sound(T)
  BY <1>1 DEF Sound
<1>3. Follows(S, T) /\ Calmed(S, T) /\ Elsewhere(S, T, {}) /\ Tidy(S, T, {})
  BY <1>1 DEF Follows, FollowsAt, Quieter, Calmed, Elsewhere, Tidy, Rested
<1> QED BY <1>2, <1>3 DEF T, Calms

LEMMA CancelAdvances ==
    ASSUME NEW S, Sound(S), NEW x \in All, S.ges[x].state # "WAITING"
    PROVE  Advances(S, Cancel(S, x), x)
<1> DEFINE T == Cancel(S, x)
<1>1. Calms(S, T, {x}) /\ Rested(T, x)
  BY CancelDoes
<1> HIDE DEF T
<1>2. Tidy(S, T, {})
  BY <1>1, ElsewhereTidy DEF Calms, Tidy
<1>3. Advances(S, T, x)
  BY <1>1, <1>2, CalmsAdvances
<1> QED BY <1>3 DEF T

LEMMA RecognizeDoes ==
    ASSUME NEW S, Sound(S), NEW x \in All, S.ges[x].state = "POSSIBLE",
           NEW st \in {"RECOGNIZING", "COMPLETED"}, NEW may \in BOOLEAN
    PROVE  Advances(S, Recognize(S, x, st, may), x)
<1> DEFINE P == {S.ges[x].seqs[i].sprite :
                   i \in {j \in DOMAIN S.ges[x].seqs : ~S.ges[x].seqs[j].ended}}
           A == remove_all_actors_from_chain(S, P)
           B == maybe_cancel_independent_gestures(A, x)
           T == maybe_move_to_waiting(maybe_influence_other_gestures(State(B, x, st), x), x)
<1>1. CASE ~S.ges[x].list
  <2> DEFINE F == [S EXCEPT !.failed = TRUE]
  <2>1. Recognize(S, x, st, may) = F
    BY <1>1 DEF Recognize
  <2>2. Calms(S, F, {}) /\ Tidy(S, F, {})
    BY FailDoes
  <2> HIDE DEF F
  <2>3. Advances(S, F, x)
    BY <2>2, CalmsAdvances
  <2> QED BY <2>1, <2>3
<1>2. CASE S.ges[x].list /\ ~(new_gesture_allowed_to_start(S, x) /\ may)
  <2>1. Recognize(S, x, st, may) = Cancel(S, x)
    BY <1>2 DEF Recognize
  <2> QED BY <2>1, CancelAdvances
<1>3. CASE S.ges[x].list /\ new_gesture_allowed_to_start(S, x) /\ may
  <2>1. Recognize(S, x, st, may) = T
    BY <1>3 DEF Recognize
  <2> HIDE DEF P
  <2>2. /\ Sound(A) /\ Follows(S, A)
        /\ A.ges = S.ges /\ A.active = S.active /\ A.failed = S.failed
    BY RemoveDoes
  <2> HIDE DEF A
  <2>3. Calms(A, B, All \ ({x} \cup A.ges[x].rel)) /\ Tidy(A, B, {})
    BY <2>2, IndependentDoes
  <2> HIDE DEF B
  <2>4. Sound(B) /\ Follows(S, B) /\ Calmed(A, B)
    BY <2>2, <2>3, FollowsTransitive DEF Calms
  <2>5. B.ges[x].state = "POSSIBLE"
    BY <2>2, <2>3 DEF Calms, Elsewhere
  <2>6. ASSUME NEW y \in All \ {x}, B.ges[y].state = "RECOGNIZING" PROVE x \in B.ges[y].rel
    <3>1. S.ges[y].state = "RECOGNIZING"
      BY <2>2, <2>4, <2>6 DEF Calmed
    <3>2. y \in S.active
      BY <3>1 DEF Sound
    <3>3. x \in S.ges[y].rel
      BY <1>3, <3>1, <3>2 DEF new_gesture_allowed_to_start
    <3> QED BY <2>2, <2>4, <2>5, <2>6, <3>3 DEF Calmed
  <2>7. Advances(B, T, x)
    BY <2>4, <2>5, <2>6, RecognizedDoes
  <2> HIDE DEF T
  <2>8. Sound(T) /\ Follows(S, T)
    BY <2>4, <2>7, FollowsTransitive DEF Advances
  <2>9. Tidy(S, T, {})
    <3>1. Tidy(S, A, {})
      BY <2>2 DEF Tidy, Rested, AllEnded
    <3> QED BY <3>1, <2>3, <2>7 DEF Tidy, Advances
  <2>10. ASSUME Single(S) PROVE Single(T)
    <3>1. Single(A)
      BY <2>2, <2>10 DEF Single
    <3>2. Single(B)
      BY <2>4, <3>1, CalmsSingle
    <3> QED BY <3>2, <2>7 DEF Advances
  <2>11. \A y \in All : T.ges[y].cancels \subseteq S.ges[y].cancels
    BY <2>2, <2>4, <2>7 DEF Calmed, Advances
  <2>12. \A y \in All \ {x} : \/ T.ges[y].state = S.ges[y].state
                              \/ T.ges[y].state \in {"CANCELLED", "WAITING"}
    BY <2>2, <2>4, <2>7 DEF Calmed, Advances
  <2>13. ASSUME T.ges[x].state \in {"RECOGNIZING", "COMPLETED"} PROVE Spares(S, T, x)
    <3> SUFFICES ASSUME NEW y \in S.ges[x].rel \ S.ges[x].cancels
                 PROVE  T.ges[y].state = S.ges[y].state
      BY DEF Spares
    <3>1. y \in All \ {x} /\ S.ges[y].state # "WAITING"
      BY DEF Sound, Stage, Gesture
    <3>2. B.ges[y].state = S.ges[y].state
      BY <2>2, <2>3, <3>1 DEF Calms, Elsewhere
    <3>3. y \in B.ges[x].rel
      BY <2>2, <2>4, <2>5, <3>1, <3>2 DEF Calmed
    <3>4. y \notin B.ges[x].cancels
      BY <2>2, <2>4 DEF Calmed
    <3> QED BY <2>5, <2>7, <2>13, <3>2, <3>3, <3>4 DEF Advances, Spares
  <2>14. Advances(S, T, x)
    BY <2>8, <2>9, <2>10, <2>11, <2>12, <2>13 DEF Advances
  <2> QED BY <2>1, <2>14
<1> QED BY <1>1, <1>2, <1>3

LEMMA AdvancesItself ==
    ASSUME NEW S, Sound(S), NEW x \in All
    PROVE  Advances(S, S, x)
  BY FollowsItself DEF Advances, Tidy, Spares

(* A gesture that recognizes completes.                                    *)
LEMMA CompleteDoes ==
    ASSUME NEW S, Sound(S), NEW x \in All, S.ges[x].state = "RECOGNIZING"
    PROVE  Advances(S, maybe_move_to_waiting(State(S, x, "COMPLETED"), x), x)
<1> DEFINE C == State(S, x, "COMPLETED")
           T == maybe_move_to_waiting(C, x)
<1>1. /\ Sound(C) /\ C.sprites = S.sprites /\ C.failed = S.failed /\ C.active = S.active
      /\ C.ges[x].state = "COMPLETED" /\ C.ges[x].seqs = S.ges[x].seqs
      /\ \A y \in All \ {x} : C.ges[y] = S.ges[y]
      /\ \A y \in All : C.ges[y].rel = S.ges[y].rel /\ C.ges[y].cancels = S.ges[y].cancels
      /\ Follows(S, C)
  <2>1. "COMPLETED" \in States \ {"WAITING"} /\ S.ges[x].state # "WAITING"
        /\ S.ges[x].state \notin Over
    BY DEF States, Over
  <2> QED BY <2>1, StateDoes
<1> HIDE DEF C
<1>2. Calms(C, T, {x}) /\ Rested(T, x)
  BY <1>1, MaybeMoveDoes
<1> HIDE DEF T
<1>3. Sound(T) /\ Follows(S, T) /\ Calmed(C, T)
  BY <1>1, <1>2, FollowsTransitive DEF Calms
<1>4. Tidy(S, T, {})
  <2>1. Tidy(C, T, {x})
    BY <1>2, ElsewhereTidy DEF Calms
  <2>2. Tidy(S, C, {x})
    BY <1>1 DEF Tidy, Rested, AllEnded
  <2> QED BY <1>2, <2>1, <2>2 DEF Tidy
<1>5. ASSUME Single(S) PROVE Single(T)
  <2>1. Single(C)
    BY <1>1, <1>5 DEF Single
  <2> QED BY <1>3, <2>1, CalmsSingle
<1>6. \A y \in All : T.ges[y].cancels \subseteq S.ges[y].cancels
  BY <1>1, <1>3 DEF Calmed
<1>7. \A y \in All \ {x} : T.ges[y].state = S.ges[y].state
  BY <1>1, <1>2 DEF Calms, Elsewhere
<1>8. Advances(S, T, x)
  BY <1>3, <1>4, <1>5, <1>6, <1>7 DEF Advances
<1> QED BY <1>8 DEF C, T

(* clutter_gesture_set_state *)
LEMMA SetStateDoes ==
    ASSUME NEW S, Sound(S), NEW x \in All, NEW st, NEW may \in BOOLEAN
    PROVE  Advances(S, clutter_gesture_set_state(S, x, st, may), x)
<1>1. CASE S.ges[x].state \in {"POSSIBLE", "RECOGNIZING"} /\ st = "CANCELLED"
  <2>1. clutter_gesture_set_state(S, x, st, may) = Cancel(S, x)
    BY <1>1 DEF clutter_gesture_set_state
  <2> QED BY <1>1, <2>1, CancelAdvances
<1>2. CASE S.ges[x].state = "POSSIBLE" /\ st \in {"RECOGNIZING", "COMPLETED"}
  <2>1. clutter_gesture_set_state(S, x, st, may) = Recognize(S, x, st, may)
    BY <1>2 DEF clutter_gesture_set_state
  <2> QED BY <1>2, <2>1, RecognizeDoes
<1>3. CASE S.ges[x].state = "RECOGNIZING" /\ st = "COMPLETED"
  <2>1. clutter_gesture_set_state(S, x, st, may)
          = maybe_move_to_waiting(State(S, x, "COMPLETED"), x)
    BY <1>3 DEF clutter_gesture_set_state
  <2> QED BY <1>3, <2>1, CompleteDoes
<1>4. CASE /\ ~(S.ges[x].state \in {"POSSIBLE", "RECOGNIZING"} /\ st = "CANCELLED")
           /\ ~(S.ges[x].state = "POSSIBLE" /\ st \in {"RECOGNIZING", "COMPLETED"})
           /\ ~(S.ges[x].state = "RECOGNIZING" /\ st = "COMPLETED")
  <2>1. clutter_gesture_set_state(S, x, st, may) = S
    BY <1>4 DEF clutter_gesture_set_state
  <2> QED BY <2>1, AdvancesItself
<1> QED BY <1>1, <1>2, <1>3, <1>4

-----------------------------------------------------------------------------
(* handle_event, with names for its parts: the buttons it counts, whether  *)
(* the gesture is told, whether the sequence ends, and whether the gesture *)
(* is refused its first point.                                             *)
Buttons(S, x, i, type) ==
    S.ges[x].seqs[i].buttons +
        (CASE type = "press" -> 1 [] type = "release" -> -1 [] OTHER -> 0)
Told(S, x, type, b) ==
    /\ S.ges[x].state \notin Over
    /\ ~(type = "press" /\ b >= 2)
    /\ ~(type = "release" /\ b >= 1)
Ends(type, b) == type \in {"end", "cancel"} \/ (type = "release" /\ b < 1)
Refused(S, x, i) ==
    /\ S.ges[x].state = "POSSIBLE" /\ Len(S.ges[x].seqs) = 1 /\ ~S.ges[x].seqs[i].seen
    /\ ~new_gesture_allowed_to_start(S, x)
Counted(S, x, i, b) == [S EXCEPT !.ges[x].seqs[i].buttons = b]
Seen(S, x, i) == [S EXCEPT !.ges[x].seqs[i].seen = TRUE]

LEMMA CountedDoes ==
    ASSUME NEW S, Sound(S), NEW x \in All, NEW i \in DOMAIN S.ges[x].seqs, NEW b \in Nat
    PROVE  OnlySeqs(S, Counted(S, x, i, b), x, [S.ges[x].seqs EXCEPT ![i].buttons = b])
<1> DEFINE q == S.ges[x].seqs
           r == [q EXCEPT ![i].buttons = b]
           h == [S.ges[x] EXCEPT !.seqs = r]
<1>1. q \in Seq(Datum)
  BY DEF Sound, Stage, Gesture
<1>2. DOMAIN q = 1..Len(q) /\ Len(q) \in Nat /\ \A j \in DOMAIN q : q[j] \in Datum
  BY <1>1, LenProperties
<1>3. r = [j \in DOMAIN q |-> IF j = i THEN [q[j] EXCEPT !.buttons = b] ELSE q[j]]
  OBVIOUS
<1>4. \A j \in DOMAIN q : r[j] \in Datum
  BY <1>2, <1>3 DEF Datum
<1>5. DOMAIN r = DOMAIN q
  OBVIOUS
<1>6. r \in Seq(Datum)
  <2>1. r \in [1..Len(q) -> Datum]
    BY <1>2, <1>3, <1>4
  <2> QED BY <1>2, <2>1, SeqDef, SMTT(40)
<1>7. Counted(S, x, i, b) = Put(S, x, h)
  BY DEF Counted, Put
<1>8. OnlySeqs(S, Put(S, x, h), x, r)
  <2> HIDE DEF r
  <2> QED BY <1>5, <1>6, ChangeSeqs
<1> QED BY <1>7, <1>8

LEMMA SeenDoes ==
    ASSUME NEW S, Sound(S), NEW x \in All, NEW i \in DOMAIN S.ges[x].seqs
    PROVE  LET T == Seen(S, x, i) IN
           /\ Calms(S, T, {x}) /\ Tidy(S, T, {}) /\ T.ges[x].state = S.ges[x].state
           /\ DOMAIN T.ges[x].seqs = DOMAIN S.ges[x].seqs /\ T.ges[x].seqs[i].seen
           /\ \A y \in All : T.ges[y].rel = S.ges[y].rel /\ T.ges[y].cancels = S.ges[y].cancels
<1> DEFINE q == S.ges[x].seqs
           r == [q EXCEPT ![i].seen = TRUE]
           h == [S.ges[x] EXCEPT !.seqs = r]
           T == Seen(S, x, i)
<1>1. q \in Seq(Datum)
  BY DEF Sound, Stage, Gesture
<1>2. DOMAIN q = 1..Len(q) /\ Len(q) \in Nat /\ \A j \in DOMAIN q : q[j] \in Datum
  BY <1>1, LenProperties
<1>3. r = [j \in DOMAIN q |-> IF j = i THEN [q[j] EXCEPT !.seen = TRUE] ELSE q[j]]
  OBVIOUS
<1>4. \A j \in DOMAIN q : /\ r[j] \in Datum /\ r[j].sprite = q[j].sprite
                          /\ r[j].buttons = q[j].buttons /\ (r[j].ended <=> q[j].ended)
                          /\ q[j].seen => r[j].seen
                          /\ j = i => r[j].seen
  BY <1>2, <1>3 DEF Datum
<1>5. DOMAIN r = DOMAIN q
  OBVIOUS
<1>6. r \in Seq(Datum)
  <2>1. r \in [1..Len(q) -> Datum]
    BY <1>2, <1>3, <1>4
  <2> QED BY <1>2, <2>1, SeqDef
<1>7. T = Put(S, x, h)
  BY DEF Seen, Put
<1>8. OnlySeqs(S, Put(S, x, h), x, r)
  <2> HIDE DEF r
  <2> QED BY <1>5, <1>6, ChangeSeqs
<1>9. OnlySeqs(S, T, x, r)
  BY <1>7, <1>8
<1> HIDE DEF T, r, h
<1>10. Quieter(q, r)
  BY <1>4, <1>5 DEF Quieter
<1>11. Follows(S, T)
  <2>1. FollowsAt(S.ges[x], T.ges[x])
    BY <1>9, <1>10 DEF OnlySeqs, FollowsAt
  <2>2. \A y \in All \ {x} : FollowsAt(S.ges[y], T.ges[y])
    BY <1>9 DEF OnlySeqs, FollowsAt, Quieter
  <2> QED BY <1>9, <2>1, <2>2 DEF Follows, OnlySeqs
<1>12. Calms(S, T, {x})
  BY <1>9, <1>11 DEF Calms, Calmed, Elsewhere, OnlySeqs
<1>13. Tidy(S, T, {})
  <2>1. Rested(S, x) => Rested(T, x)
    BY <1>4, <1>5, <1>9 DEF Rested, AllEnded, OnlySeqs
  <2> QED BY <1>12, <2>1, ElsewhereTidy DEF Calms, Tidy
<1> QED BY <1>4, <1>5, <1>9, <1>12, <1>13 DEF T, OnlySeqs

(* Sequences that end, or are cancelled, after what the gesture asked for  *)
LEMMA AdvancesCalms ==
    ASSUME NEW S, NEW T, NEW U, NEW x \in All, Sound(S),
           Advances(S, T, x), Calms(T, U, {x}), Tidy(T, U, {})
    PROVE  Advances(S, U, x)
<1>1. Sound(U) /\ Follows(S, U) /\ Calmed(T, U)
  BY FollowsTransitive DEF Advances, Calms
<1>2. Tidy(S, U, {})
  BY DEF Advances, Tidy
<1>3. Single(S) => Single(U)
  BY <1>1, CalmsSingle DEF Advances
<1>4. \A y \in All : U.ges[y].cancels \subseteq S.ges[y].cancels
  BY <1>1 DEF Advances, Calmed
<1>5. \A y \in All \ {x} : \/ U.ges[y].state = S.ges[y].state
                           \/ U.ges[y].state \in {"CANCELLED", "WAITING"}
  BY <1>1 DEF Advances, Calmed
<1>6. ASSUME S.ges[x].state = "POSSIBLE", U.ges[x].state \in {"RECOGNIZING", "COMPLETED"}
      PROVE  Spares(S, U, x)
  <2>1. T.ges[x].state \in {"RECOGNIZING", "COMPLETED"}
    BY <1>1, <1>6 DEF Calmed
  <2>2. Spares(S, T, x)
    BY <1>6, <2>1 DEF Advances
  <2>3. S.ges[x].rel \subseteq All \ {x}
    BY DEF Sound, Stage, Gesture
  <2> QED BY <2>2, <2>3 DEF Spares, Calms, Elsewhere
<1> QED BY <1>1, <1>2, <1>3, <1>4, <1>5, <1>6 DEF Advances

(* What the gesture asks for, after a change of its sequences alone        *)
LEMMA CalmsThenAdvances ==
    ASSUME NEW S, NEW T, NEW U, NEW x \in All, Sound(S), Calms(S, T, {x}), Tidy(S, T, {}),
           T.ges[x].state = S.ges[x].state,
           \A y \in All : T.ges[y].rel = S.ges[y].rel /\ T.ges[y].cancels = S.ges[y].cancels,
           Advances(T, U, x)
    PROVE  Advances(S, U, x)
<1>1. Sound(U) /\ Follows(S, U) /\ Calmed(S, T)
  BY FollowsTransitive DEF Advances, Calms
<1>2. Tidy(S, U, {})
  BY DEF Advances, Tidy
<1>3. Single(S) => Single(U)
  BY <1>1, CalmsSingle DEF Advances
<1>4. \A y \in All \ {x} : T.ges[y].state = S.ges[y].state
  BY DEF Calms, Elsewhere
<1>5. \A y \in All \ {x} : \/ U.ges[y].state = S.ges[y].state
                           \/ U.ges[y].state \in {"CANCELLED", "WAITING"}
  BY <1>4 DEF Advances
<1>6. ASSUME S.ges[x].state = "POSSIBLE", U.ges[x].state \in {"RECOGNIZING", "COMPLETED"}
      PROVE  Spares(S, U, x)
  <2>1. S.ges[x].rel \subseteq All \ {x}
    BY DEF Sound, Stage, Gesture
  <2> QED BY <1>4, <1>6, <2>1 DEF Advances, Spares
<1> QED BY <1>1, <1>2, <1>3, <1>5, <1>6 DEF Advances

(* Influence of a gesture that had been recognizing                        *)
LEMMA ClaimDoes ==
    ASSUME NEW S, Sound(S), NEW x \in All, NEW P
    PROVE  LET T == maybe_influence_other_gestures(remove_all_actors_from_chain(S, P), x) IN
           Sound(T) /\ Follows(S, T) /\ Calmed(S, T) /\ Tidy(S, T, {})
<1> DEFINE A == remove_all_actors_from_chain(S, P)
           T == maybe_influence_other_gestures(A, x)
<1>1. /\ Sound(A) /\ Follows(S, A)
      /\ A.ges = S.ges /\ A.active = S.active /\ A.failed = S.failed
  BY RemoveDoes
<1> HIDE DEF A
<1>2. Calms(A, T, A.ges[x].cancels \cap A.ges[x].rel) /\ Tidy(A, T, {})
  BY <1>1, InfluenceDoes
<1> HIDE DEF T
<1>3. Sound(T) /\ Follows(S, T) /\ Calmed(A, T)
  BY <1>1, <1>2, FollowsTransitive DEF Calms
<1>4. Calmed(S, T)
  BY <1>1, <1>3 DEF Calmed
<1>5. Tidy(S, T, {})
  BY <1>1, <1>2 DEF Tidy, Rested, AllEnded
<1> QED BY <1>3, <1>4, <1>5 DEF A, T

(* The event of the sequence i, once the buttons are counted               *)
Handled(S, x, p, type, request, may, i, b) ==
    LET K == IF ~Told(S, x, type, b) THEN Counted(S, x, i, b)
             ELSE IF type = "cancel" THEN cancel_sequence(Seen(Counted(S, x, i, b), x, i), x, i)
             ELSE clutter_gesture_set_state(Seen(Counted(S, x, i, b), x, i), x, request, may)
        E == IF Ends(type, b) THEN EndSequence(K, x, i) ELSE K
    IN IF Refused(S, x, i) THEN Cancel(Counted(S, x, i, b), x)
       ELSE IF /\ ~S.ges[x].seqs[i].seen /\ ~Ends(type, b)
               /\ S.ges[x].state = "RECOGNIZING" /\ E.ges[x].state = "RECOGNIZING"
       THEN maybe_influence_other_gestures(remove_all_actors_from_chain(E, {p}), x)
       ELSE E

LEMMA HandleParts ==
    ASSUME NEW S, NEW x, NEW p, NEW type, NEW request, NEW may,
           S.ges[x].attached, get_sequence_data(S, x, p) # 0
    PROVE  LET i == get_sequence_data(S, x, p) IN
           handle_event(S, x, p, type, request, may)
             = Handled(S, x, p, type, request, may, i, Buttons(S, x, i, type))
<1> DEFINE i == get_sequence_data(S, x, p)
<1>1. ~(i = 0 \/ ~S.ges[x].attached)
  OBVIOUS
<1> QED BY <1>1 DEF handle_event, Handled, Buttons, Told, Ends, Refused, Counted, Seen

(* clutter_gesture_handle_event, for an event of the sequence i of x: the  *)
(* buttons are counted, and then the gesture advances.  Unless it has been *)
(* refused, the sequence is seen if it is told, and ended by its end.      *)
LEMMA HandleDoes ==
    ASSUME NEW S, Sound(S), NEW x \in All, S.ges[x].attached, NEW p,
           NEW type, NEW request, NEW may \in BOOLEAN, NEW i, i = get_sequence_data(S, x, p),
           i # 0, NEW b \in Nat, b = Buttons(S, x, i, type)
    PROVE  LET C == Counted(S, x, i, b)
               T == handle_event(S, x, p, type, request, may)
           IN /\ OnlySeqs(S, C, x, [S.ges[x].seqs EXCEPT ![i].buttons = b])
              /\ Advances(C, T, x)
              /\ Refused(S, x, i) => T.ges[x].state \in {"CANCELLED", "WAITING"}
              /\ ~Refused(S, x, i) /\ Ends(type, b) => ~Open(T, x, i)
              /\ ~Refused(S, x, i) /\ Told(S, x, type, b) /\ Open(T, x, i) =>
                    T.ges[x].seqs[i].seen
<1> DEFINE C == Counted(S, x, i, b)
           V == Seen(C, x, i)
           K == IF ~Told(S, x, type, b) THEN C
                ELSE IF type = "cancel" THEN cancel_sequence(V, x, i)
                ELSE clutter_gesture_set_state(V, x, request, may)
           E == IF Ends(type, b) THEN EndSequence(K, x, i) ELSE K
           claims == /\ ~S.ges[x].seqs[i].seen /\ ~Ends(type, b)
                     /\ S.ges[x].state = "RECOGNIZING" /\ E.ges[x].state = "RECOGNIZING"
           A == maybe_influence_other_gestures(remove_all_actors_from_chain(E, {p}), x)
           T == handle_event(S, x, p, type, request, may)
<1>1. T = IF Refused(S, x, i) THEN Cancel(C, x) ELSE IF claims THEN A ELSE E
  <2>1. T = Handled(S, x, p, type, request, may, i, b)
    BY HandleParts
  <2> HIDE DEF T
  <2> QED BY <2>1 DEF Handled
<1>2. i \in DOMAIN S.ges[x].seqs
  BY get_sequence_data_Finds DEF Open
<1>3. OnlySeqs(S, C, x, [S.ges[x].seqs EXCEPT ![i].buttons = b])
  BY <1>2, CountedDoes
<1>4. Sound(C) /\ DOMAIN C.ges[x].seqs = DOMAIN S.ges[x].seqs /\ C.ges[x].state = S.ges[x].state
  BY <1>3 DEF OnlySeqs
<1> HIDE DEF C
<1>5. CASE Refused(S, x, i)
  <2>1. T = Cancel(C, x) /\ C.ges[x].state # "WAITING"
    BY <1>1, <1>4, <1>5 DEF Refused
  <2>2. Advances(C, Cancel(C, x), x)
    BY <1>4, <2>1, CancelAdvances
  <2>3. Cancel(C, x).ges[x].state \in {"CANCELLED", "WAITING"}
    BY <1>4, <2>1, CancelDoes
  <2> HIDE DEF T
  <2> QED BY <1>3, <1>5, <2>1, <2>2, <2>3 DEF C, T
<1>6. CASE ~Refused(S, x, i)
  <2>1. /\ Calms(C, V, {x}) /\ Tidy(C, V, {}) /\ V.ges[x].state = C.ges[x].state
        /\ DOMAIN V.ges[x].seqs = DOMAIN C.ges[x].seqs /\ V.ges[x].seqs[i].seen
        /\ \A y \in All : V.ges[y].rel = C.ges[y].rel /\ V.ges[y].cancels = C.ges[y].cancels
    <3>1. i \in DOMAIN C.ges[x].seqs
      BY <1>2, <1>4
    <3> QED BY <1>4, <3>1, SeenDoes
  <2>2. Sound(V) /\ i \in DOMAIN V.ges[x].seqs
    BY <1>2, <1>4, <2>1 DEF Calms
  <2> HIDE DEF V
  <2>3. ASSUME Told(S, x, type, b) PROVE Advances(V, K, x)
    <3>1. CASE type = "cancel"
      <4> DEFINE Q == cancel_sequence(V, x, i)
      <4>1. Calms(V, Q, {x}) /\ Rested(Q, x)
        BY <2>2, CancelSequenceDoes
      <4>2. K = Q
        BY <2>3, <3>1
      <4> HIDE DEF Q
      <4>3. Tidy(V, Q, {})
        BY <4>1, ElsewhereTidy DEF Calms, Tidy
      <4>4. Advances(V, Q, x)
        BY <4>1, <4>3, CalmsAdvances
      <4> QED BY <4>2, <4>4
    <3>2. CASE type # "cancel"
      <4>1. K = clutter_gesture_set_state(V, x, request, may)
        BY <2>3, <3>2
      <4>2. Advances(V, clutter_gesture_set_state(V, x, request, may), x)
        BY <2>2, SetStateDoes
      <4> QED BY <4>1, <4>2
    <3> QED BY <3>1, <3>2
  <2>4. ASSUME Told(S, x, type, b) PROVE Advances(C, K, x)
    <3> HIDE DEF K
    <3>1. Advances(V, K, x)
      BY <2>3, <2>4
    <3> QED BY <1>4, <2>1, <3>1, CalmsThenAdvances
  <2>5. ASSUME ~Told(S, x, type, b) PROVE Advances(C, K, x)
    BY <1>4, <2>5, AdvancesItself
  <2> HIDE DEF K
  <2>6. Advances(C, K, x)
    BY <2>4, <2>5
  <2>7. ASSUME Told(S, x, type, b), Open(K, x, i) PROVE K.ges[x].seqs[i].seen
    <3>1. Follows(V, K) /\ i \in DOMAIN K.ges[x].seqs
      BY <2>3, <2>7 DEF Advances, Open
    <3> QED BY <2>1, <2>7, <3>1, FollowsOpen
  <2>8. /\ Advances(C, E, x) /\ Follows(K, E)
        /\ Ends(type, b) => ~Open(E, x, i)
    <3>1. CASE Ends(type, b)
      <4> DEFINE Z == maybe_move_to_waiting(End(K, x, {i}), x)
      <4>1. E = Z
        BY <3>1 DEF EndSequence
      <4>2. Sound(K)
        BY <2>6 DEF Advances
      <4>3. /\ Calms(K, Z, {x}) /\ Rested(Z, x)
            /\ \/ Z.ges[x].seqs = <<>>
               \/ /\ DOMAIN Z.ges[x].seqs = DOMAIN K.ges[x].seqs
                  /\ \A j \in DOMAIN K.ges[x].seqs \cap {i} : Z.ges[x].seqs[j].ended
        BY <4>2, EndAllDoes
      <4> HIDE DEF Z
      <4>4. Tidy(K, Z, {})
        BY <4>3, ElsewhereTidy DEF Calms, Tidy
      <4>5. Advances(C, Z, x)
        BY <1>4, <2>6, <4>3, <4>4, AdvancesCalms
      <4>6. DOMAIN <<>> = {}
        OBVIOUS
      <4>7. ~Open(Z, x, i)
        BY <4>3, <4>6 DEF Open
      <4> QED BY <4>1, <4>3, <4>5, <4>7 DEF Calms
    <3>2. CASE ~Ends(type, b)
      <4>1. E = K
        BY <3>2
      <4> QED BY <2>6, <3>2, <4>1, FollowsItself
    <3> QED BY <3>1, <3>2
  <2> HIDE DEF E
  <2>9. Advances(C, T, x) /\ Follows(E, T)
    <3>1. CASE claims
      <4>1. T = A
        BY <1>1, <1>6, <3>1
      <4>2. Sound(A) /\ Follows(E, A) /\ Calmed(E, A) /\ Tidy(E, A, {})
        BY <2>8, ClaimDoes DEF Advances
      <4> HIDE DEF A, T
      <4>3. Follows(C, A) /\ Tidy(C, A, {})
        BY <2>8, <4>2, FollowsTransitive DEF Advances, Tidy
      <4>4. Single(C) => Single(A)
        BY <2>8, <4>2, CalmsSingle DEF Advances
      <4>5. \A y \in All : A.ges[y].cancels \subseteq C.ges[y].cancels
        BY <2>8, <4>2 DEF Advances, Calmed
      <4>6. \A y \in All \ {x} : \/ A.ges[y].state = C.ges[y].state
                                 \/ A.ges[y].state \in {"CANCELLED", "WAITING"}
        BY <2>8, <4>2 DEF Advances, Calmed
      <4>7. C.ges[x].state # "POSSIBLE"
        BY <1>4, <3>1
      <4>8. Advances(C, A, x)
        BY <4>2, <4>3, <4>4, <4>5, <4>6, <4>7 DEF Advances
      <4> QED BY <4>1, <4>2, <4>8
    <3>2. CASE ~claims
      <4>1. T = E
        BY <1>1, <1>6, <3>2
      <4> HIDE DEF T
      <4> QED BY <2>8, <4>1, FollowsItself
    <3> QED BY <3>1, <3>2
  <2> HIDE DEF T
  <2>10. Open(T, x, i) => Open(E, x, i) /\ (E.ges[x].seqs[i].seen => T.ges[x].seqs[i].seen)
    BY <2>9, FollowsOpen DEF Open
  <2>11. Open(E, x, i) => Open(K, x, i) /\ (K.ges[x].seqs[i].seen => E.ges[x].seqs[i].seen)
    BY <2>8, FollowsOpen, SMTT(40) DEF Open
  <2> QED BY <1>3, <1>6, <2>7, <2>8, <2>9, <2>10, <2>11 DEF C, T
<1> QED BY <1>5, <1>6

(* An event of no sequence of the gesture is not its own.                  *)
LEMMA HandleIgnores ==
    ASSUME NEW S, NEW x, NEW p, NEW type, NEW request, NEW may,
           get_sequence_data(S, x, p) = 0 \/ ~S.ges[x].attached
    PROVE  handle_event(S, x, p, type, request, may) = S
  BY DEF handle_event

-----------------------------------------------------------------------------
(* The invariant, one lemma for each action.  First, operations that leave *)
(* the sprites and the event alone.                                        *)
LEMMA HeldFollows ==
    ASSUME NEW S, NEW T, NEW e, Held(S, e), Sound(T), Single(T), Follows(S, T), Tidy(S, T, {})
    PROVE  Held(T, e)
<1>1. \A x \in All : Rested(T, x) /\ Distinct(T, x)
  BY FollowsDistinct DEF Held, Tidy
<1>2. ASSUME NEW x \in All, NEW i \in DOMAIN T.ges[x].seqs, Open(T, x, i)
      PROVE  Linked(T, e, x, T.ges[x].seqs[i])
  <2> DEFINE d == S.ges[x].seqs[i]
             f == T.ges[x].seqs[i]
  <2>1. /\ i \in DOMAIN S.ges[x].seqs /\ Open(S, x, i)
        /\ f.sprite = d.sprite /\ f.buttons = d.buttons /\ (d.seen => f.seen)
    BY <1>2, FollowsOpen
  <2>2. Linked(S, e, x, d)
    BY <2>1 DEF Held
  <2>3. /\ T.ges[x].attached <=> S.ges[x].attached
        /\ S.ges[x].state \in Over => T.ges[x].state \in Over \cup {"WAITING"}
    BY DEF Follows, FollowsAt
  <2>4. T.ges[x].state # "WAITING"
    <3>1. DOMAIN <<>> = {}
      OBVIOUS
    <3> QED BY <1>2, <3>1 DEF Sound
  <2>5. d.sprite \in Points
    <3>1. S.ges[x].seqs \in Seq(Datum)
      BY DEF Held, Sound, Stage, Gesture
    <3>2. d \in Datum
      BY <2>1, <3>1, ElementOfSeq, LenProperties
    <3> QED BY <3>2 DEF Datum
  <2>6. /\ T.sprites[d.sprite].press_count = S.sprites[d.sprite].press_count
        /\ T.sprites[d.sprite].chain = S.sprites[d.sprite].chain
    BY <2>5 DEF Follows
  <2> HIDE DEF d, f
  <2>7. Linked(T, e, x, f)
    BY <2>1, <2>2, <2>3, <2>4, <2>6 DEF Linked
  <2> QED BY <2>7 DEF f
<1>3. \A p \in Points : IsInjective(T.sprites[p].chain)
  BY DEF Held, Follows
<1> QED BY <1>1, <1>2, <1>3 DEF Held

LEMMA HeldCalms ==
    ASSUME NEW S, NEW T, NEW X, NEW e, Held(S, e), Calms(S, T, X), Tidy(S, T, {})
    PROVE  Held(T, e)
<1>1. Single(T)
  BY CalmsSingle DEF Held, Calms
<1> QED BY <1>1, HeldFollows DEF Calms

LEMMA HeldAdvances ==
    ASSUME NEW S, NEW T, NEW x, NEW e, Held(S, e), Advances(S, T, x)
    PROVE  Held(T, e)
  BY HeldFollows DEF Held, Advances

(* Another record for one sprite                                           *)
PutSprite(S, p, h) == [S EXCEPT !.sprites = [S.sprites EXCEPT ![p] = h]]

LEMMA SpriteDoes ==
    ASSUME NEW S, Sound(S), NEW p \in Points, NEW h \in Sprite
    PROVE  LET T == PutSprite(S, p, h) IN
           /\ Sound(T) /\ T.ges = S.ges /\ T.active = S.active /\ T.failed = S.failed
           /\ T.sprites[p] = h /\ \A q \in Points \ {p} : T.sprites[q] = S.sprites[q]
<1> DEFINE T == PutSprite(S, p, h)
<1>1. S \in Stage /\ S.sprites \in [Points -> Sprite]
  BY DEF Sound, Stage
<1>2. [S.sprites EXCEPT ![p] = h] \in [Points -> Sprite]
  BY <1>1
<1>3. /\ T \in Stage /\ T.ges = S.ges /\ T.active = S.active /\ T.failed = S.failed
      /\ T.sprites[p] = h /\ \A q \in Points \ {p} : T.sprites[q] = S.sprites[q]
  BY <1>1, <1>2 DEF PutSprite, Stage
<1> HIDE DEF T
<1>4. Sound(T)
  BY <1>3 DEF Sound
<1> QED BY <1>3, <1>4 DEF T

(* Sequences are of the sprites there are.                                 *)
LEMMA SpriteOf ==
    ASSUME NEW S, Sound(S), NEW x \in All, NEW i \in DOMAIN S.ges[x].seqs
    PROVE  S.ges[x].seqs[i] \in Datum /\ S.ges[x].seqs[i].sprite \in Points
<1>1. S.ges[x].seqs \in Seq(Datum)
  BY DEF Sound, Stage, Gesture
<1>2. S.ges[x].seqs[i] \in Datum
  BY <1>1, ElementOfSeq, LenProperties
<1> QED BY <1>2 DEF Datum

(* A change of the sprite p and of the event: the parts of the invariant   *)
(* but for the sequences that go on are about the gestures.                *)
LEMMA HeldSprite ==
    ASSUME NEW S, NEW T, NEW e, NEW f, Held(S, e), Sound(T), T.ges = S.ges,
           T.failed = S.failed, \A p \in Points : IsInjective(T.sprites[p].chain),
           f \in Emissions, IsInjective(f.rest),
           \A x \in All : \A i \in DOMAIN S.ges[x].seqs :
              Open(S, x, i) /\ Linked(S, e, x, S.ges[x].seqs[i]) =>
                 Linked(T, f, x, S.ges[x].seqs[i])
    PROVE  Held(T, f)
<1>1. Single(T)
  BY DEF Held, Single
<1>2. \A x \in All : Rested(T, x) /\ Distinct(T, x)
  BY DEF Held, Rested, AllEnded, Distinct, Open
<1>3. \A x \in All : \A i \in DOMAIN T.ges[x].seqs :
        Open(T, x, i) => Linked(T, f, x, T.ges[x].seqs[i])
  BY DEF Held, Open
<1> QED BY <1>1, <1>2, <1>3 DEF Held

LEMMA IdleFacts ==
    /\ Idle \in Emissions /\ IsInjective(Idle.rest) /\ Idle.type = "none"
    /\ \A x, p : /\ ~Hears(Idle, x, p, "begin") /\ ~Hears(Idle, x, p, "press")
                 /\ ~Heard(Idle, x, p, "release")
                 /\ ~Heard(Idle, x, p, "end") /\ ~Heard(Idle, x, p, "cancel")
<1>1. DOMAIN <<>> = {}
  OBVIOUS
<1>2. Idle.rest = <<>> /\ Idle.type = "none"
  BY DEF Idle
<1>3. IsInjective(Idle.rest)
  BY <1>1, <1>2 DEF IsInjective
<1> QED BY <1>2, <1>3 DEF Emissions, Hears, Heard

(* The sprite p is let go, when no gesture has a sequence of it.           *)
LEMMA HeldWithout ==
    ASSUME NEW S, NEW e, Held(S, e), NEW p \in Points, e = Idle \/ e.sprite = p,
           \A x \in All : Gone(S, x, p), NEW h \in Sprite, IsInjective(h.chain)
    PROVE  Held(PutSprite(S, p, h), Idle)
<1> DEFINE T == PutSprite(S, p, h)
<1>1. Sound(S)
  BY DEF Held
<1>2. /\ Sound(T) /\ T.ges = S.ges /\ T.active = S.active /\ T.failed = S.failed
      /\ T.sprites[p] = h /\ \A q \in Points \ {p} : T.sprites[q] = S.sprites[q]
  BY <1>1, SpriteDoes
<1> HIDE DEF T
<1>3. \A q \in Points : IsInjective(T.sprites[q].chain)
  BY <1>2 DEF Held
<1>4. ASSUME NEW x \in All, NEW i \in DOMAIN S.ges[x].seqs, Open(S, x, i),
             Linked(S, e, x, S.ges[x].seqs[i])
      PROVE  Linked(T, Idle, x, S.ges[x].seqs[i])
  <2> DEFINE d == S.ges[x].seqs[i]
  <2>1. d.sprite \in Points \ {p}
    BY <1>1, <1>4, SpriteOf DEF Gone
  <2>2. T.sprites[d.sprite] = S.sprites[d.sprite]
    BY <1>2, <2>1
  <2>3. /\ ~Hears(e, x, d.sprite, "begin") /\ ~Hears(e, x, d.sprite, "press")
        /\ ~Heard(e, x, d.sprite, "release")
    BY <2>1, IdleFacts DEF Hears, Heard
  <2>4. Linked(S, e, x, d)
    BY <1>4
  <2> HIDE DEF d
  <2>5. Linked(T, Idle, x, d)
    BY <1>2, <2>2, <2>3, <2>4, IdleFacts DEF Linked
  <2> QED BY <2>5 DEF d
<1>5. Held(T, Idle)
  BY <1>2, <1>3, <1>4, IdleFacts, HeldSprite
<1> QED BY <1>5 DEF T

(* What a step does to gestures that must not cancel others: one that goes *)
(* on from POSSIBLE spares those it does not cancel, and none comes to     *)
(* cancel what it can not.                                                 *)
Acts(S, T) ==
    /\ \A x \in All : S.ges[x].state = "POSSIBLE"
                         /\ T.ges[x].state \in {"RECOGNIZING", "COMPLETED"} => Spares(S, T, x)
    /\ \A x \in All : T.ges[x].cancels \cap T.ges[x].can_not_cancel
                         \subseteq S.ges[x].cancels \cap S.ges[x].can_not_cancel

LEMMA CalmedActs ==
    ASSUME NEW S, NEW T, Follows(S, T), Calmed(S, T)
    PROVE  Acts(S, T)
<1>1. \A x \in All : ~(S.ges[x].state = "POSSIBLE"
                         /\ T.ges[x].state \in {"RECOGNIZING", "COMPLETED"})
  BY DEF Calmed
<1>2. \A x \in All : T.ges[x].can_not_cancel = S.ges[x].can_not_cancel
  BY DEF Follows, FollowsAt
<1> QED BY <1>1, <1>2 DEF Calmed, Acts

LEMMA AdvancesActs ==
    ASSUME NEW S, NEW T, NEW x \in All, Advances(S, T, x)
    PROVE  Acts(S, T)
<1>1. \A y \in All \ {x} : ~(S.ges[y].state = "POSSIBLE"
                               /\ T.ges[y].state \in {"RECOGNIZING", "COMPLETED"})
  BY DEF Advances
<1>2. \A y \in All : T.ges[y].can_not_cancel = S.ges[y].can_not_cancel
  BY DEF Advances, Follows, FollowsAt
<1> QED BY <1>1, <1>2 DEF Advances, Acts

LEMMA EmissionFacts ==
    ASSUME NEW e \in Emissions
    PROVE  /\ e.rest \in Seq(All)
           /\ e # Idle => e.sprite \in Points
           /\ e.type \in {"begin", "end", "cancel"} => e.sprite \in Touches
           /\ e.type \in {"press", "release"} => e.sprite \in Pointers
           /\ e = [sprite |-> e.sprite, type |-> e.type, rest |-> e.rest]
<1>1. <<>> \in Seq(All)
  OBVIOUS
<1>2. CASE e = Idle
  BY <1>1, <1>2 DEF Idle
<1>3. CASE e \in [sprite : Touches, type : {"begin", "update", "end", "cancel"}, rest : Seq(All)]
  BY <1>3 DEF Points
<1>4. CASE e \in [sprite : Pointers, type : {"press", "update", "release"}, rest : Seq(All)]
  BY <1>4 DEF Points
<1> QED BY <1>2, <1>3, <1>4 DEF Emissions

LEMMA SpriteFacts ==
    ASSUME NEW S, Sound(S), NEW p \in Points
    PROVE  /\ S.sprites[p] \in Sprite /\ S.sprites[p].press_count \in Nat
           /\ S.sprites[p].chain \in Seq(All)
  BY DEF Sound, Stage, Sprite

(* Events of other sprites                                                 *)
LEMMA OtherSprite ==
    ASSUME NEW e, NEW x, NEW p, e.sprite # p
    PROVE  /\ ~Hears(e, x, p, "begin") /\ ~Hears(e, x, p, "press")
           /\ ~Heard(e, x, p, "release") /\ ~Heard(e, x, p, "end") /\ ~Heard(e, x, p, "cancel")
  BY DEF Hears, Heard

LEMMA PressMoreHolds ==
    ASSUME GestureInv, NEW p \in Points, PressMore(p)
    PROVE  GestureInv'
<1> DEFINE h == [s.sprites[p] EXCEPT !.press_count = @ + 1]
           f == [sprite |-> p, type |-> "press", rest |-> s.sprites[p].chain]
           T == PutSprite(s, p, h)
<1>1. Held(s, Idle) /\ Sound(s)
  BY DEF GestureInv, PressMore, Held
<1>2. s.sprites[p] \in Sprite /\ s.sprites[p].press_count \in Nat /\ s.sprites[p].chain \in Seq(All)
  BY <1>1, SpriteFacts
<1>3. h \in Sprite /\ h.chain = s.sprites[p].chain
      /\ h.press_count = s.sprites[p].press_count + 1
  BY <1>2 DEF Sprite
<1>4. s' = T
  BY DEF PressMore, PutSprite
<1>5. emission' = f
  BY DEF PressMore, Emit
<1>6. f \in Emissions /\ IsInjective(f.rest)
  BY <1>1, <1>2 DEF Emissions, PressMore, Held
<1>7. f.sprite = p /\ f.type = "press" /\ f.rest = s.sprites[p].chain
  OBVIOUS
<1> HIDE DEF h, f
<1>8. /\ Sound(T) /\ T.ges = s.ges /\ T.active = s.active /\ T.failed = s.failed
      /\ T.sprites[p] = h /\ \A q \in Points \ {p} : T.sprites[q] = s.sprites[q]
  BY <1>1, <1>3, SpriteDoes
<1> HIDE DEF T
<1>9. \A q \in Points : IsInjective(T.sprites[q].chain)
  BY <1>1, <1>3, <1>8 DEF Held
<1>10. ASSUME NEW x \in All, NEW i \in DOMAIN s.ges[x].seqs, Open(s, x, i),
              Linked(s, Idle, x, s.ges[x].seqs[i])
       PROVE  Linked(T, f, x, s.ges[x].seqs[i])
  <2> DEFINE d == s.ges[x].seqs[i]
  <2>1. d.sprite \in Points
    BY <1>1, SpriteOf
  <2>2. Linked(s, Idle, x, d)
    BY <1>10, SMTT(40)
  <2> HIDE DEF d
  <2>3. CASE d.sprite # p
    <3>1. T.sprites[d.sprite] = s.sprites[d.sprite]
      BY <1>8, <2>1, <2>3
    <3> QED BY <1>7, <1>8, <2>2, <2>3, <3>1, OtherSprite, IdleFacts DEF Linked, d
  <2>4. CASE d.sprite = p
    <3>1. x \in ToSet(f.rest)
      BY <1>7, <2>2, <2>4 DEF Linked
    <3>2. Hears(f, x, p, "press") /\ ~Heard(f, x, p, "release")
          /\ ~Heard(f, x, p, "end") /\ ~Heard(f, x, p, "cancel")
      BY <1>7, <3>1 DEF Hears, Heard
    <3>3. /\ s.ges[x].attached /\ x \in ToSet(s.sprites[p].chain)
          /\ d.seen \/ s.ges[x].state \in Over
          /\ p \in Pointers => d.buttons = s.sprites[p].press_count
      BY <2>2, <2>4, IdleFacts DEF Linked
    <3>4. h.press_count > 0 /\ (p \in Pointers => d.buttons = h.press_count - 1)
      BY <1>2, <1>3, <3>3
    <3>5. Linked(T, f, x, d)
      BY <1>3, <1>8, <2>4, <3>2, <3>3, <3>4 DEF Linked
    <3> QED BY <3>5 DEF d
  <2> QED BY <2>3, <2>4
<1>11. Held(T, f)
  BY <1>1, <1>6, <1>8, <1>9, <1>10, HeldSprite
<1> QED BY <1>4, <1>5, <1>11 DEF GestureInv

LEMMA PropagateHolds ==
    ASSUME GestureInv, NEW p \in Points, Propagate(p)
    PROVE  GestureInv'
<1>1. PICK type \in {"update"} \cup IF p \in Touches THEN {"end", "cancel"} ELSE {"release"} :
        emission' = [sprite |-> p, type |-> type, rest |-> s.sprites[p].chain]
  BY DEF Propagate, Emit
<1> DEFINE f == [sprite |-> p, type |-> type, rest |-> s.sprites[p].chain]
<1>2. Held(s, Idle) /\ Sound(s)
  BY DEF GestureInv, Propagate, Held
<1>3. s.sprites[p] \in Sprite /\ s.sprites[p].press_count \in Nat /\ s.sprites[p].chain \in Seq(All)
  BY <1>2, SpriteFacts
<1>4. f \in Emissions /\ IsInjective(f.rest)
  BY <1>2, <1>3 DEF Emissions, Points, Held
<1>5. f.sprite = p /\ f.type \notin {"begin", "press"} /\ f.rest = s.sprites[p].chain
  OBVIOUS
<1> HIDE DEF f
<1>6. ASSUME NEW x \in All, NEW i \in DOMAIN s.ges[x].seqs, Open(s, x, i),
              Linked(s, Idle, x, s.ges[x].seqs[i])
      PROVE  Linked(s, f, x, s.ges[x].seqs[i])
  <2> DEFINE d == s.ges[x].seqs[i]
  <2>1. Linked(s, Idle, x, d)
    BY <1>6, SMTT(40)
  <2> HIDE DEF d
  <2>2. CASE d.sprite # p
    BY <1>5, <2>1, <2>2, OtherSprite, IdleFacts DEF Linked, d
  <2>3. CASE d.sprite = p
    <3>1. x \in ToSet(f.rest)
      BY <1>5, <2>1, <2>3 DEF Linked
    <3>2. /\ ~Hears(f, x, p, "press") /\ ~Hears(f, x, p, "begin") /\ ~Heard(f, x, p, "release")
          /\ ~Heard(f, x, p, "end") /\ ~Heard(f, x, p, "cancel")
      BY <1>5, <3>1 DEF Hears, Heard
    <3> QED BY <2>1, <2>3, <3>2, IdleFacts DEF Linked, d
  <2> QED BY <2>2, <2>3
<1>7. Held(s, f)
  BY <1>2, <1>4, <1>6, HeldSprite DEF Held
<1>8. s' = s /\ emission' = f
  BY <1>1 DEF Propagate, f
<1> QED BY <1>7, <1>8 DEF GestureInv

(* When the gestures of the chain of p are cancelled, none follows p.      *)
LEMMA CancelOnChain ==
    ASSUME NEW S, NEW e, Held(S, e), NEW p \in Points
    PROVE  LET T == CancelOn(S, p, S.sprites[p].chain) IN
           Held(T, e) /\ Follows(S, T) /\ Calmed(S, T) /\ \A x \in All : Gone(T, x, p)
<1> DEFINE chain == S.sprites[p].chain
           T == CancelOn(S, p, chain)
<1>1. Sound(S) /\ \A x \in All : Distinct(S, x)
  BY DEF Held
<1>2. chain \in Seq(All)
  BY <1>1, SpriteFacts
<1> HIDE DEF chain
<1>3. /\ Calms(S, T, ToSet(chain)) /\ Tidy(S, T, {})
      /\ \A x \in ToSet(chain) : Gone(T, x, p)
  BY <1>1, <1>2, CancelOnDoes
<1> HIDE DEF T
<1>4. Held(T, e)
  BY <1>3, HeldCalms
<1>5. ASSUME NEW x \in All, x \notin ToSet(chain) PROVE Gone(T, x, p)
  <2>1. Gone(S, x, p)
    BY <1>5 DEF Gone, Held, Linked, chain
  <2> QED BY <1>3, <2>1, FollowsGone, SMTT(40) DEF Calms
<1> QED BY <1>3, <1>4, <1>5 DEF Calms, T, chain

LEMMA NoReceivers ==
    [press_count |-> 0, chain |-> <<>>, actors |-> FALSE] \in Sprite /\ IsInjective(<<>>)
<1>1. DOMAIN <<>> = {} /\ <<>> \in Seq(All)
  OBVIOUS
<1> QED BY <1>1 DEF Sprite, IsInjective

LEMMA LostGrabHolds ==
    ASSUME GestureInv, NEW p \in Points, LostGrab(p)
    PROVE  GestureInv'
<1> DEFINE T == CancelOn(s, p, s.sprites[p].chain)
           h == [press_count |-> 0, chain |-> <<>>, actors |-> FALSE]
<1>1. Held(s, Idle)
  BY DEF GestureInv, LostGrab
<1>2. Held(T, Idle) /\ \A x \in All : Gone(T, x, p)
  BY <1>1, CancelOnChain
<1>3. s' = PutSprite(T, p, h) /\ emission' = Idle
  BY DEF LostGrab, PutSprite
<1>4. h \in Sprite /\ IsInjective(h.chain)
  BY NoReceivers
<1> HIDE DEF T, h
<1>5. Held(PutSprite(T, p, h), Idle)
  BY <1>2, <1>4, HeldWithout
<1> QED BY <1>3, <1>5 DEF GestureInv

(* Released, if no gesture follows p                                       *)
LEMMA ReleasedHolds ==
    ASSUME NEW S, NEW e, Held(S, e), e # Idle, \A x \in All : Gone(S, x, e.sprite), NEW h \in Sprite,
           IsInjective(h.chain)
    PROVE  Held(Released(PutSprite(S, e.sprite, h), e.sprite, e.type), Idle)
<1> DEFINE p == e.sprite
           k == [h EXCEPT !.press_count = @ - 1]
           n == [press_count |-> 0, chain |-> <<>>, actors |-> FALSE]
           T == PutSprite(S, p, h)
<1>1. p \in Points /\ Sound(S)
  BY EmissionFacts DEF Held
<1>2. S.sprites \in [Points -> Sprite] /\ S \in Stage
  BY <1>1 DEF Sound, Stage
<1>3. Held(T, Idle)
  BY <1>1, HeldWithout
<1>4. T.sprites[p] = h
  BY <1>1, <1>2 DEF PutSprite, Stage
<1>5. CASE e.type \notin {"end", "cancel", "release"}
  <2>1. Released(T, p, e.type) = T
    BY <1>5 DEF Released
  <2> QED BY <1>3, <2>1
<1>6. CASE e.type \in {"end", "cancel", "release"} /\ h.press_count > 1
  <2>1. Released(T, p, e.type) = PutSprite(S, p, k)
    BY <1>1, <1>2, <1>4, <1>6 DEF Released, PutSprite, Stage
  <2>2. k \in Sprite /\ k.chain = h.chain
    BY <1>6 DEF Sprite
  <2> HIDE DEF k
  <2>3. Held(PutSprite(S, p, k), Idle)
    BY <1>1, <2>2, HeldWithout
  <2> QED BY <2>1, <2>3
<1>7. CASE e.type \in {"end", "cancel", "release"} /\ ~(h.press_count > 1)
  <2>1. Released(T, p, e.type) = PutSprite(S, p, n)
    BY <1>1, <1>2, <1>4, <1>7 DEF Released, PutSprite, Stage
  <2>2. n \in Sprite /\ IsInjective(n.chain)
    BY NoReceivers
  <2> HIDE DEF n
  <2>3. Held(PutSprite(S, p, n), Idle)
    BY <1>1, <2>2, HeldWithout
  <2> QED BY <2>1, <2>3
<1> QED BY <1>5, <1>6, <1>7

LEMMA ActorHandlesHolds ==
    ASSUME GestureInv, ActorHandles
    PROVE  GestureInv'
<1> DEFINE p == emission.sprite
           T == CancelOn(s, p, s.sprites[p].chain)
           h == [T.sprites[p] EXCEPT !.chain = <<>>]
<1>1. Held(s, emission) /\ emission # Idle /\ emission' = Idle
  BY DEF GestureInv, ActorHandles
<1>2. p \in Points
  BY <1>1, EmissionFacts DEF Held
<1>3. Held(T, emission) /\ \A x \in All : Gone(T, x, p)
  BY <1>1, <1>2, CancelOnChain, SMTT(40)
<1>4. T.sprites[p] \in Sprite
  BY <1>2, <1>3, SpriteFacts, SMTT(40) DEF Held
<1>5. s' = Released(PutSprite(T, p, h), p, emission.type)
  BY DEF ActorHandles, PutSprite
<1> HIDE DEF T
<1>6. h \in Sprite /\ IsInjective(h.chain)
  <2>1. <<>> \in Seq(All)
    OBVIOUS
  <2> QED BY <1>4, <2>1, NoReceivers DEF Sprite
<1> HIDE DEF h
<1>7. Held(Released(PutSprite(T, p, h), p, emission.type), Idle)
  BY <1>1, <1>3, <1>6, ReleasedHolds
<1> QED BY <1>1, <1>5, <1>7, SMTT(40) DEF GestureInv

LEMMA EmittedHolds ==
    ASSUME GestureInv, Emitted
    PROVE  GestureInv'
<1> DEFINE p == emission.sprite
           k == [s.sprites[p] EXCEPT !.press_count = @ - 1]
<1>1. /\ Held(s, emission) /\ Sound(s) /\ emission # Idle /\ emission' = Idle
      /\ emission.rest = <<>> /\ s' = Released(s, p, emission.type)
  BY DEF GestureInv, Emitted, Held
<1>2. p \in Points
  BY <1>1, EmissionFacts DEF Held
<1>3. /\ s.sprites[p] \in Sprite /\ s.sprites[p].press_count \in Nat
      /\ s.sprites[p].chain \in Seq(All) /\ IsInjective(s.sprites[p].chain)
  BY <1>1, <1>2, SpriteFacts DEF Held
<1>4. DOMAIN <<>> = {}
  OBVIOUS
<1>5. ToSet(emission.rest) = {}
  BY <1>1, <1>4 DEF ToSet
<1>6. CASE \/ emission.type \in {"end", "cancel"}
           \/ emission.type = "release" /\ ~(s.sprites[p].press_count > 1)
  <2>1. ASSUME NEW x \in All PROVE Gone(s, x, p)
    <3> SUFFICES ASSUME NEW i \in DOMAIN s.ges[x].seqs, Open(s, x, i),
                        s.ges[x].seqs[i].sprite = p
                 PROVE  FALSE
      BY DEF Gone
    <3>1. Linked(s, emission, x, s.ges[x].seqs[i])
      BY <1>1 DEF Held
    <3> QED BY <1>5, <1>6, <3>1 DEF Linked, Heard
  <2>2. PutSprite(s, p, s.sprites[p]) = s
    BY <1>1, <1>2 DEF PutSprite, Sound, Stage
  <2>3. Held(Released(PutSprite(s, p, s.sprites[p]), p, emission.type), Idle)
    BY <1>1, <1>3, <2>1, ReleasedHolds
  <2> QED BY <1>1, <2>2, <2>3 DEF GestureInv
<1>7. CASE emission.type = "release" /\ s.sprites[p].press_count > 1
  <2> DEFINE T == PutSprite(s, p, k)
  <2>1. s' = T
    BY <1>1, <1>7 DEF Released, PutSprite
  <2>2. /\ k \in Sprite /\ k.chain = s.sprites[p].chain
        /\ k.press_count = s.sprites[p].press_count - 1
    BY <1>3, <1>7 DEF Sprite
  <2> HIDE DEF k
  <2>3. /\ Sound(T) /\ T.ges = s.ges /\ T.active = s.active /\ T.failed = s.failed
        /\ T.sprites[p] = k /\ \A q \in Points \ {p} : T.sprites[q] = s.sprites[q]
    BY <1>1, <1>2, <2>2, SpriteDoes
  <2> HIDE DEF T
  <2>4. \A q \in Points : IsInjective(T.sprites[q].chain)
    BY <1>1, <2>2, <2>3 DEF Held
  <2>5. ASSUME NEW x \in All, NEW i \in DOMAIN s.ges[x].seqs, Open(s, x, i),
               Linked(s, emission, x, s.ges[x].seqs[i])
        PROVE  Linked(T, Idle, x, s.ges[x].seqs[i])
    <3> DEFINE d == s.ges[x].seqs[i]
    <3>1. Linked(s, emission, x, d) /\ d.sprite \in Points
      BY <1>1, <2>5, SpriteOf
    <3>2. ~Hears(emission, x, d.sprite, "begin") /\ ~Hears(emission, x, d.sprite, "press")
      BY <1>5, SMTT(40) DEF Hears
    <3> HIDE DEF d
    <3>3. CASE d.sprite # p
      <4>1. T.sprites[d.sprite] = s.sprites[d.sprite] /\ ~Heard(emission, x, d.sprite, "release")
        BY <2>3, <3>1, <3>3, OtherSprite
      <4> QED BY <2>3, <3>1, <3>2, <4>1, IdleFacts DEF Linked, d
    <3>4. CASE d.sprite = p
      <4>1. Heard(emission, x, p, "release")
        BY <1>5, <1>7 DEF Heard
      <4>2. /\ s.ges[x].attached /\ x \in ToSet(s.sprites[p].chain)
            /\ d.seen \/ s.ges[x].state \in Over
            /\ p \in Pointers => d.buttons = s.sprites[p].press_count - 1
        BY <3>1, <3>2, <3>4, <4>1 DEF Linked
      <4>3. k.press_count > 0 /\ (p \in Pointers => d.buttons = k.press_count)
        BY <1>3, <1>7, <2>2, <4>2
      <4>4. Linked(T, Idle, x, d)
        BY <2>2, <2>3, <3>4, <4>2, <4>3, IdleFacts DEF Linked
      <4> QED BY <4>4 DEF d
    <3> QED BY <3>3, <3>4
  <2>6. Held(T, Idle)
    BY <1>1, <2>3, <2>4, <2>5, IdleFacts, HeldSprite
  <2> QED BY <1>1, <2>1, <2>6 DEF GestureInv
<1>8. CASE emission.type \notin {"end", "cancel", "release"}
  <2>1. s' = s
    BY <1>1, <1>8 DEF Released
  <2>2. ASSUME NEW x \in All, NEW i \in DOMAIN s.ges[x].seqs, Open(s, x, i),
               Linked(s, emission, x, s.ges[x].seqs[i])
        PROVE  Linked(s, Idle, x, s.ges[x].seqs[i])
    <3> DEFINE d == s.ges[x].seqs[i]
    <3>1. Linked(s, emission, x, d)
      BY <2>2
    <3>2. /\ ~Hears(emission, x, d.sprite, "begin") /\ ~Hears(emission, x, d.sprite, "press")
          /\ ~Heard(emission, x, d.sprite, "release")
      BY <1>5, <1>8 DEF Hears, Heard
    <3> HIDE DEF d
    <3>3. Linked(s, Idle, x, d)
      BY <3>1, <3>2, IdleFacts DEF Linked
    <3> QED BY <3>3 DEF d
  <2>3. Held(s, Idle)
    <3>1. \A q \in Points : IsInjective(s.sprites[q].chain)
      BY <1>1 DEF Held
    <3> QED BY <1>1, <2>2, <3>1, IdleFacts, HeldSprite
  <2> QED BY <1>1, <2>1, <2>3 DEF GestureInv
<1> QED BY <1>6, <1>7, <1>8

LEMMA AsksHolds ==
    ASSUME GestureInv, NEW x \in All, Asks(x)
    PROVE  GestureInv' /\ Acts(s, s')
<1>1. PICK state \in {"RECOGNIZING"} \cup Over, may \in BOOLEAN :
        s' = clutter_gesture_set_state(s, x, state, may)
  BY DEF Asks
<1>2. Held(s, emission) /\ Sound(s) /\ emission' = emission
  BY DEF GestureInv, Held, Asks
<1>3. Advances(s, s', x)
  BY <1>1, <1>2, SetStateDoes
<1>4. Held(s', emission)
  BY <1>2, <1>3, HeldAdvances
<1> QED BY <1>2, <1>3, <1>4, AdvancesActs DEF GestureInv

(* Flags of a gesture; it is attached or detached when no sequence of it   *)
(* goes on.                                                                *)
LEMMA FlagsHold ==
    ASSUME NEW S, NEW e, Held(S, e), NEW x \in All, NEW h \in Gesture,
           h.state = S.ges[x].state, h.seqs = S.ges[x].seqs, h.rel = S.ges[x].rel,
           h.cancels = S.ges[x].cancels, x \notin h.can_not_cancel,
           \/ h.attached <=> S.ges[x].attached
           \/ \A i \in DOMAIN S.ges[x].seqs : S.ges[x].seqs[i].ended
    PROVE  Held(Put(S, x, h), e)
<1> DEFINE T == Put(S, x, h)
<1>1. Sound(S) /\ S \in Stage
  BY DEF Held, Sound
<1>2. /\ T \in Stage /\ T.active = S.active /\ T.sprites = S.sprites
      /\ T.failed = S.failed /\ T.ges[x] = h
      /\ \A y \in All \ {x} : T.ges[y] = S.ges[y]
  BY <1>1, ChangeOne
<1> HIDE DEF T
<1>3. \A y \in All : /\ T.ges[y].state = S.ges[y].state /\ T.ges[y].seqs = S.ges[y].seqs
                     /\ T.ges[y].rel = S.ges[y].rel /\ T.ges[y].cancels = S.ges[y].cancels
  BY <1>2
<1>4. Sound(T)
  <2>1. \A y \in All : y \notin T.ges[y].can_not_cancel
    BY <1>1, <1>2 DEF Sound
  <2> QED BY <1>1, <1>2, <1>3, <2>1 DEF Sound
<1>5. Single(T)
  BY <1>3 DEF Held, Single
<1>6. \A y \in All : Rested(T, y) /\ Distinct(T, y)
  BY <1>2, <1>3, SMTT(40) DEF Held, Rested, AllEnded, Distinct, Open
<1>7. ASSUME NEW y \in All, NEW i \in DOMAIN T.ges[y].seqs, Open(T, y, i)
      PROVE  Linked(T, e, y, T.ges[y].seqs[i])
  <2>1. Open(S, y, i) /\ i \in DOMAIN S.ges[y].seqs /\ T.ges[y].seqs[i] = S.ges[y].seqs[i]
    BY <1>3, <1>7 DEF Open
  <2>2. Linked(S, e, y, S.ges[y].seqs[i])
    BY <2>1, SMTT(40) DEF Held
  <2>3. T.ges[y].attached
    BY <1>2, <2>1, <2>2 DEF Linked, Open
  <2> QED BY <1>2, <1>3, <2>1, <2>2, <2>3 DEF Linked
<1>8. \A p \in Points : IsInjective(T.sprites[p].chain)
  BY <1>2 DEF Held
<1>9. Held(T, e)
  BY <1>4, <1>5, <1>6, <1>7, <1>8 DEF Held
<1> QED BY <1>9 DEF T

LEMMA SetEnabledHolds ==
    ASSUME GestureInv, NEW x \in All, SetEnabled(x)
    PROVE  GestureInv'
<1> DEFINE on == ~s.ges[x].enabled
           W == IF on THEN s ELSE cancel_all_points(s, x)
           h == [W.ges[x] EXCEPT !.enabled = on]
<1>1. Held(s, emission) /\ Sound(s) /\ emission' = emission
  BY DEF GestureInv, Held, SetEnabled
<1>2. Held(W, emission)
  <2>1. Calms(s, cancel_all_points(s, x), {x}) /\ Tidy(s, cancel_all_points(s, x), {})
    BY <1>1, CancelAllPointsDoes
  <2>2. Held(cancel_all_points(s, x), emission)
    BY <1>1, <2>1, HeldCalms
  <2> QED BY <1>1, <2>2
<1>3. s' = Put(W, x, h)
  BY DEF SetEnabled, Put
<1>4. W.ges[x] \in Gesture /\ x \notin W.ges[x].can_not_cancel
  BY <1>2 DEF Held, Sound, Stage
<1> HIDE DEF W
<1>5. /\ h \in Gesture /\ h.state = W.ges[x].state /\ h.seqs = W.ges[x].seqs
      /\ h.rel = W.ges[x].rel /\ h.cancels = W.ges[x].cancels
      /\ x \notin h.can_not_cancel /\ (h.attached <=> W.ges[x].attached)
  BY <1>4 DEF Gesture
<1> HIDE DEF h
<1>6. Held(Put(W, x, h), emission)
  BY <1>2, <1>5, FlagsHold
<1> QED BY <1>1, <1>3, <1>6 DEF GestureInv

LEMMA SetActorHolds ==
    ASSUME GestureInv, NEW x \in All, SetActor(x)
    PROVE  GestureInv'
<1> DEFINE W == cancel_all_points(s, x)
           h == [W.ges[x] EXCEPT !.attached = ~W.ges[x].attached,
                                 !.list = W.ges[x].list /\ ~s.ges[x].attached]
<1>1. Held(s, emission) /\ Sound(s) /\ emission' = emission
  BY DEF GestureInv, Held, SetActor
<1>2. /\ Calms(s, W, {x}) /\ Tidy(s, W, {})
      /\ \A i \in DOMAIN W.ges[x].seqs : W.ges[x].seqs[i].ended
  BY <1>1, CancelAllPointsDoes
<1>3. s' = [W EXCEPT !.ges[x].attached = ~@, !.ges[x].list = @ /\ ~s.ges[x].attached]
  BY DEF SetActor
<1> HIDE DEF W
<1>4. Held(W, emission)
  BY <1>1, <1>2, HeldCalms
<1>5. W \in Stage /\ W.ges[x] \in Gesture /\ x \notin W.ges[x].can_not_cancel
  BY <1>4 DEF Held, Sound, Stage
<1>6. s' = Put(W, x, h)
  BY <1>3, <1>5 DEF Put, Stage, Gesture
<1>7. /\ h \in Gesture /\ h.state = W.ges[x].state /\ h.seqs = W.ges[x].seqs
      /\ h.rel = W.ges[x].rel /\ h.cancels = W.ges[x].cancels
      /\ x \notin h.can_not_cancel
  BY <1>5 DEF Gesture
<1> HIDE DEF h
<1>8. Held(Put(W, x, h), emission)
  BY <1>2, <1>4, <1>7, FlagsHold
<1> QED BY <1>1, <1>6, <1>8 DEF GestureInv

LEMMA CanNotCancelHolds ==
    ASSUME GestureInv, NEW x \in All, CanNotCancel(x)
    PROVE  GestureInv'
<1>1. Held(s, emission) /\ emission' = emission
  BY DEF GestureInv, CanNotCancel
<1>2. PICK y \in All \ ({x} \cup s.ges[x].can_not_cancel) :
        s' = [s EXCEPT !.ges[x].can_not_cancel = @ \cup {y}]
  BY DEF CanNotCancel
<1> DEFINE h == [s.ges[x] EXCEPT !.can_not_cancel = @ \cup {y}]
<1>3. s' = Put(s, x, h)
  BY <1>2 DEF Put
<1>4. s.ges[x] \in Gesture /\ x \notin s.ges[x].can_not_cancel
  BY <1>1 DEF Held, Sound, Stage
<1>5. /\ h \in Gesture /\ h.state = s.ges[x].state /\ h.seqs = s.ges[x].seqs
      /\ h.rel = s.ges[x].rel /\ h.cancels = s.ges[x].cancels
      /\ x \notin h.can_not_cancel /\ (h.attached <=> s.ges[x].attached)
  BY <1>4 DEF Gesture
<1> HIDE DEF h
<1>6. Held(Put(s, x, h), emission)
  BY <1>1, <1>5, FlagsHold
<1> QED BY <1>1, <1>3, <1>6 DEF GestureInv

(* Receivers taken out of the event                                        *)
LEMMA RestFacts ==
    ASSUME NEW e \in Emissions, IsInjective(e.rest), NEW X
    PROVE  LET f == [e EXCEPT !.rest = Those(e.rest, X)] IN
           /\ f \in Emissions /\ IsInjective(f.rest) /\ f.type = e.type /\ f.sprite = e.sprite
           /\ ToSet(f.rest) = ToSet(e.rest) \cap X
<1> DEFINE r == Those(e.rest, X)
           f == [e EXCEPT !.rest = r]
<1>1. e.rest \in Seq(All)
  BY EmissionFacts
<1>2. r \in Seq(All) /\ ToSet(r) = ToSet(e.rest) \cap X /\ IsInjective(r)
  BY <1>1, ThoseProperties
<1> HIDE DEF r
<1>3. f.rest = r /\ f.type = e.type /\ f.sprite = e.sprite
  <2>1. e = [sprite |-> e.sprite, type |-> e.type, rest |-> e.rest]
    BY EmissionFacts
  <2> QED BY <2>1
<1>4. f \in Emissions
  <2>1. CASE e = Idle
    <3>1. DOMAIN <<>> = {}
      OBVIOUS
    <3>2. ToSet(e.rest) = {}
      BY <2>1, <3>1 DEF Idle, ToSet
    <3>3. DOMAIN r = {}
      BY <1>2, <3>2 DEF ToSet
    <3>4. r = <<>>
      BY <1>2, <3>3, EmptyDomain
    <3>5. f = Idle
      BY <2>1, <3>4 DEF Idle
    <3> QED BY <3>5 DEF Emissions
  <2>2. CASE e \in [sprite : Touches, type : {"begin", "update", "end", "cancel"}, rest : Seq(All)]
    BY <1>2, <2>2 DEF Emissions
  <2>3. CASE e \in [sprite : Pointers, type : {"press", "update", "release"}, rest : Seq(All)]
    BY <1>2, <2>3 DEF Emissions
  <2> QED BY <2>1, <2>2, <2>3 DEF Emissions
<1> HIDE DEF f
<1>5. /\ f \in Emissions /\ IsInjective(f.rest) /\ f.type = e.type /\ f.sprite = e.sprite
      /\ ToSet(f.rest) = ToSet(e.rest) \cap X
  BY <1>2, <1>3, <1>4
<1> QED BY <1>5 DEF f, r

LEMMA DroppedHolds ==
    ASSUME GestureInv, NEW p \in Points, Dropped(p)
    PROVE  GestureInv'
<1>1. PICK X \in (SUBSET ToSet(s.sprites[p].chain)) \ {{}} :
        /\ s' = [CancelOn(s, p, Those(s.sprites[p].chain, X)) EXCEPT
                   !.sprites[p].chain = Those(@, All \ X)]
        /\ emission' = IF emission.sprite = p
                       THEN [emission EXCEPT !.rest = Those(@, All \ X)] ELSE emission
  BY DEF Dropped
<1> DEFINE e == emission
           gone == Those(s.sprites[p].chain, X)
           T == CancelOn(s, p, gone)
           h == [T.sprites[p] EXCEPT !.chain = Those(T.sprites[p].chain, All \ X)]
           U == PutSprite(T, p, h)
           f == IF e.sprite = p THEN [e EXCEPT !.rest = Those(e.rest, All \ X)] ELSE e
<1>2. /\ Held(s, e) /\ Sound(s) /\ (\A x \in All : Distinct(s, x))
      /\ e \in Emissions /\ IsInjective(e.rest)
  BY DEF GestureInv, Held
<1>3. s.sprites[p].chain \in Seq(All)
  BY <1>2, SpriteFacts
<1>4. gone \in Seq(All) /\ ToSet(gone) = X
  BY <1>3, ThoseProperties
<1>5. s' = U
  BY <1>1 DEF PutSprite
<1>6. emission' = f
  BY <1>1
<1> HIDE DEF gone
<1>7. Calms(s, T, ToSet(gone)) /\ Tidy(s, T, {}) /\ \A x \in ToSet(gone) : Gone(T, x, p)
  BY <1>2, <1>4, CancelOnDoes
<1> HIDE DEF T
<1>8. Held(T, e) /\ Sound(T)
  BY <1>2, <1>7, HeldCalms DEF Calms
<1>9. /\ T.sprites[p] \in Sprite /\ T.sprites[p].chain \in Seq(All)
      /\ IsInjective(T.sprites[p].chain)
  BY <1>8, SpriteFacts DEF Held
<1>10. /\ h \in Sprite /\ h.press_count = T.sprites[p].press_count /\ IsInjective(h.chain)
       /\ ToSet(h.chain) = ToSet(T.sprites[p].chain) \cap (All \ X)
  <2> DEFINE c == Those(T.sprites[p].chain, All \ X)
  <2>1. /\ c \in Seq(All) /\ IsInjective(c)
        /\ ToSet(c) = ToSet(T.sprites[p].chain) \cap (All \ X)
    BY <1>9, ThoseProperties
  <2> HIDE DEF c
  <2>2. LET k == [T.sprites[p] EXCEPT !.chain = c] IN
        k \in Sprite /\ k.press_count = T.sprites[p].press_count /\ k.chain = c
    BY <1>9, <2>1 DEF Sprite
  <2> QED BY <2>1, <2>2 DEF c
<1> HIDE DEF h
<1>11. /\ Sound(U) /\ U.ges = T.ges /\ U.active = T.active /\ U.failed = T.failed
       /\ U.sprites[p] = h /\ \A q \in Points \ {p} : U.sprites[q] = T.sprites[q]
  BY <1>8, <1>10, SpriteDoes
<1> HIDE DEF U
<1>12. /\ f \in Emissions /\ IsInjective(f.rest) /\ f.type = e.type /\ f.sprite = e.sprite
       /\ e.sprite = p => ToSet(f.rest) = ToSet(e.rest) \cap (All \ X)
       /\ e.sprite # p => f = e
  <2>1. CASE e.sprite = p
    <3> DEFINE k == [e EXCEPT !.rest = Those(e.rest, All \ X)]
    <3>1. f = k
      BY <2>1
    <3>2. /\ k \in Emissions /\ IsInjective(k.rest) /\ k.type = e.type /\ k.sprite = e.sprite
          /\ ToSet(k.rest) = ToSet(e.rest) \cap (All \ X)
      BY <1>2, RestFacts
    <3> HIDE DEF k, f
    <3> QED BY <2>1, <3>1, <3>2
  <2>2. CASE e.sprite # p
    BY <1>2, <2>2
  <2> QED BY <2>1, <2>2
<1> HIDE DEF f
<1>13. \A q \in Points : IsInjective(U.sprites[q].chain)
  BY <1>8, <1>10, <1>11 DEF Held
<1>14. ASSUME NEW x \in All, NEW i \in DOMAIN T.ges[x].seqs, Open(T, x, i),
              Linked(T, e, x, T.ges[x].seqs[i])
       PROVE  Linked(U, f, x, T.ges[x].seqs[i])
  <2> DEFINE d == T.ges[x].seqs[i]
  <2>1. Linked(T, e, x, d) /\ d.sprite \in Points
    BY <1>8, <1>14, SpriteOf
  <2>2. d.sprite = p => x \notin X
    BY <1>4, <1>7, <1>14 DEF Gone
  <2> HIDE DEF d
  <2>3. \A type : /\ Hears(f, x, d.sprite, type) <=> Hears(e, x, d.sprite, type)
                  /\ Heard(f, x, d.sprite, type) <=> Heard(e, x, d.sprite, type)
    <3>1. CASE e.sprite # p
      BY <1>12, <3>1
    <3>2. CASE e.sprite = p /\ d.sprite # p
      BY <1>12, <3>2 DEF Hears, Heard
    <3>3. CASE e.sprite = p /\ d.sprite = p
      BY <1>12, <2>2, <3>3 DEF Hears, Heard
    <3> QED BY <3>1, <3>2, <3>3
  <2>4. /\ U.sprites[d.sprite].press_count = T.sprites[d.sprite].press_count
        /\ x \in ToSet(T.sprites[d.sprite].chain) => x \in ToSet(U.sprites[d.sprite].chain)
    BY <1>10, <1>11, <2>1, <2>2
  <2>5. Linked(U, f, x, d)
    BY <1>11, <2>1, <2>3, <2>4 DEF Linked
  <2> QED BY <2>5 DEF d
<1>15. Held(U, f)
  BY <1>8, <1>11, <1>12, <1>13, <1>14, HeldSprite
<1> QED BY <1>5, <1>6, <1>15, SMTT(40) DEF GestureInv

(* The first receiver and the others                                       *)
LEMMA FirstReceiver ==
    ASSUME NEW r \in Seq(All), IsInjective(r), r # <<>>
    PROVE  /\ Head(r) \in All /\ Head(r) \in ToSet(r)
           /\ Tail(r) \in Seq(All) /\ IsInjective(Tail(r))
           /\ ToSet(Tail(r)) = ToSet(r) \ {Head(r)}
<1> DEFINE n == Len(r)
           t == Tail(r)
<1>1. n \in Nat /\ n # 0 /\ DOMAIN r = 1..n /\ \A i \in 1..n : r[i] \in All
  BY LenProperties, EmptySeq
<1>2. Head(r) = r[1] /\ 1 \in 1..n
  BY <1>1, HeadTailProperties
<1>3. t \in Seq(All) /\ Len(t) = n - 1 /\ \A i \in 1..n - 1 : t[i] = r[i + 1]
  BY HeadTailProperties
<1>4. DOMAIN t = 1..n - 1
  BY <1>3, LenProperties
<1> HIDE DEF t, n
<1>5. IsInjective(t)
  <2> SUFFICES ASSUME NEW a \in 1..n - 1, NEW b \in 1..n - 1, t[a] = t[b] PROVE a = b
    BY <1>4 DEF IsInjective
  <2>1. a + 1 \in 1..n /\ b + 1 \in 1..n /\ r[a + 1] = r[b + 1]
    BY <1>1, <1>3
  <2>2. a + 1 = b + 1
    BY <1>1, <2>1 DEF IsInjective
  <2> QED BY <2>2
<1>6. ASSUME NEW y \in ToSet(t) PROVE y \in ToSet(r) \ {Head(r)}
  <2>1. PICK a \in 1..n - 1 : y = t[a]
    BY <1>4 DEF ToSet
  <2>2. a + 1 \in 1..n /\ y = r[a + 1] /\ a + 1 # 1
    BY <1>1, <1>3, <2>1
  <2>3. r[a + 1] # r[1]
    BY <1>1, <1>2, <2>2 DEF IsInjective
  <2> QED BY <1>1, <1>2, <2>2, <2>3 DEF ToSet
<1>7. ASSUME NEW y \in ToSet(r) \ {Head(r)} PROVE y \in ToSet(t)
  <2>1. PICK a \in 1..n : y = r[a]
    BY <1>1 DEF ToSet
  <2>2. a # 1
    BY <1>2, <2>1
  <2>3. a - 1 \in 1..n - 1 /\ a - 1 + 1 = a
    BY <1>1, <2>2
  <2>4. t[a - 1] = y
    BY <1>3, <2>1, <2>3
  <2> QED BY <1>4, <2>3, <2>4 DEF ToSet
<1>8. Head(r) \in All /\ Head(r) \in ToSet(r)
  BY <1>1, <1>2 DEF ToSet
<1> QED BY <1>3, <1>5, <1>6, <1>7, <1>8 DEF t

(* emit_event, for the first of the receivers: handle_event, with the      *)
(* event still to be given to the others.                                  *)
LEMMA EmitToActionHolds ==
    ASSUME GestureInv, EmitToAction
    PROVE  GestureInv' /\ Acts(s, s')
<1> DEFINE e == emission
           x == Head(e.rest)
           p == e.sprite
           f == [e EXCEPT !.rest = Tail(e.rest)]
           i == get_sequence_data(s, x, p)
           b == Buttons(s, x, i, e.type)
           C == Counted(s, x, i, b)
<1>1. PICK request \in Requests(s, x, e.type), may \in BOOLEAN :
        s' = handle_event(s, x, p, e.type, request, may)
  BY DEF EmitToAction
<1>2. /\ Held(s, e) /\ Sound(s) /\ e \in Emissions /\ IsInjective(e.rest)
      /\ e.rest # <<>> /\ emission' = f
  BY DEF GestureInv, EmitToAction, Held
<1>3. e.rest \in Seq(All)
  BY <1>2, EmissionFacts
<1>4. /\ x \in All /\ x \in ToSet(e.rest)
      /\ Tail(e.rest) \in Seq(All) /\ IsInjective(Tail(e.rest))
      /\ ToSet(Tail(e.rest)) = ToSet(e.rest) \ {x}
  BY <1>2, <1>3, FirstReceiver
<1>5. /\ f \in Emissions /\ IsInjective(f.rest) /\ f.type = e.type /\ f.sprite = p
      /\ ToSet(f.rest) = ToSet(e.rest) \ {x}
  <2> DEFINE t == Tail(e.rest)
  <2>1. e # Idle
    BY <1>2 DEF Idle
  <2>2. t \in Seq(All) /\ IsInjective(t) /\ ToSet(t) = ToSet(e.rest) \ {x}
    BY <1>4
  <2>3. e = [sprite |-> e.sprite, type |-> e.type, rest |-> e.rest]
    BY <1>2, EmissionFacts
  <2> HIDE DEF t, x
  <2>4. LET k == [e EXCEPT !.rest = t] IN k.rest = t /\ k.type = e.type /\ k.sprite = p
    BY <2>3
  <2>5. [e EXCEPT !.rest = t] \in Emissions
    BY <1>2, <2>1, <2>2 DEF Emissions
  <2> QED BY <2>2, <2>4, <2>5 DEF t
<1> HIDE DEF f, x
<1>6. ASSUME NEW y \in All, NEW q, y # x \/ q # p
      PROVE  \A type : /\ Hears(f, y, q, type) <=> Hears(e, y, q, type)
                       /\ Heard(f, y, q, type) <=> Heard(e, y, q, type)
  BY <1>5, <1>6 DEF Hears, Heard
<1>7. \A type : ~Hears(f, x, p, type)
  BY <1>5 DEF Hears
<1>8. CASE i = 0
  <2>1. s' = s
    BY <1>1, <1>8, HandleIgnores
  <2>2. Gone(s, x, p)
    BY <1>2, <1>4, <1>8, get_sequence_data_Finds, SMTT(40) DEF Gone, Open
  <2>3. ASSUME NEW y \in All, NEW j \in DOMAIN s.ges[y].seqs, Open(s, y, j),
               Linked(s, e, y, s.ges[y].seqs[j])
        PROVE  Linked(s, f, y, s.ges[y].seqs[j])
    <3>1. y # x \/ s.ges[y].seqs[j].sprite # p
      BY <2>2, <2>3 DEF Gone
    <3> QED BY <1>6, <2>3, <3>1 DEF Linked
  <2>4. Held(s, f)
    <3>1. \A q \in Points : IsInjective(s.sprites[q].chain)
      BY <1>2 DEF Held
    <3> QED BY <1>2, <1>5, <2>3, <3>1, HeldSprite
  <2> QED BY <1>2, <2>1, <2>4 DEF GestureInv, Acts, Spares
<1>9. CASE i # 0
  <2> DEFINE d == s.ges[x].seqs[i]
             T == handle_event(s, x, p, e.type, request, may)
             presses == s.sprites[p].press_count
  <2>1. Open(s, x, i) /\ d.sprite = p /\ i \in DOMAIN s.ges[x].seqs
    BY <1>2, <1>4, <1>9, get_sequence_data_Finds DEF Open
  <2>2. Linked(s, e, x, d)
    BY <1>2, <1>4, <2>1 DEF Held
  <2>3. p \in Points /\ d \in Datum /\ d.buttons \in Nat /\ presses \in Nat
    BY <1>2, <1>4, <2>1, SpriteOf, SpriteFacts DEF Datum
  <2>4. /\ s.ges[x].attached
        /\ \/ d.seen \/ s.ges[x].state \in Over
           \/ d.buttons = 0 /\ e.type \in {"begin", "press"}
        /\ p \in Pointers => d.buttons = IF e.type = "press" THEN presses - 1 ELSE presses
        /\ presses > 0 /\ x \in ToSet(s.sprites[p].chain)
    <3>1. /\ ~Heard(e, x, p, "release")
          /\ Hears(e, x, p, "begin") <=> e.type = "begin"
          /\ Hears(e, x, p, "press") <=> e.type = "press"
      BY <1>4 DEF Hears, Heard
    <3> QED BY <2>1, <2>2, <3>1 DEF Linked
  <2>5. e.type \in {"press", "release"} => p \in Pointers
    BY <1>2, EmissionFacts
  <2>6. b = d.buttons + (CASE e.type = "press" -> 1 [] e.type = "release" -> -1 [] OTHER -> 0)
    BY DEF Buttons
  <2> HIDE DEF d, presses
  <2>7. /\ b \in Nat
        /\ p \in Pointers => b = IF e.type = "release" THEN presses - 1 ELSE presses
        /\ e.type = "release" => (b >= 1 => presses > 1)
    <3>1. CASE e.type = "press"
      BY <2>3, <2>4, <2>6, <3>1
    <3>2. CASE e.type = "release"
      BY <2>3, <2>4, <2>5, <2>6, <3>2
    <3>3. CASE e.type \notin {"press", "release"}
      BY <2>3, <2>4, <2>6, <3>3
    <3> QED BY <3>1, <3>2, <3>3
  <2>8. Refused(s, x, i) => e.type \in {"begin", "press"}
    BY <2>4 DEF Refused, Over, d
  <2>9. (~d.seen /\ Told(s, x, e.type, b)) \/ d.seen \/ s.ges[x].state \in Over
    <3> SUFFICES ASSUME ~d.seen, s.ges[x].state \notin Over PROVE Told(s, x, e.type, b)
      OBVIOUS
    <3>1. d.buttons = 0 /\ e.type \in {"begin", "press"}
      BY <2>4
    <3>2. e.type = "press" => b = 1
      BY <2>6, <3>1
    <3> QED BY <3>1, <3>2 DEF Told
  <2> DEFINE q == [s.ges[x].seqs EXCEPT ![i].buttons = b]
  <2> HIDE DEF b, i
  <2>10. /\ OnlySeqs(s, C, x, q)
         /\ Advances(C, T, x)
         /\ Refused(s, x, i) => T.ges[x].state \in {"CANCELLED", "WAITING"}
         /\ ~Refused(s, x, i) /\ Ends(e.type, b) => ~Open(T, x, i)
         /\ ~Refused(s, x, i) /\ Told(s, x, e.type, b) /\ Open(T, x, i) =>
               T.ges[x].seqs[i].seen
    <3>1. i = get_sequence_data(s, x, p) /\ b = Buttons(s, x, i, e.type)
      BY DEF i, b
    <3> QED BY <1>2, <1>4, <1>9, <2>4, <2>7, <3>1, HandleDoes
  <2> HIDE DEF C, T
  <2>11. /\ C.sprites = s.sprites /\ C.failed = s.failed /\ C.ges[x].seqs = q
         /\ (\A y \in All \ {x} : C.ges[y] = s.ges[y])
         /\ \A y \in All : /\ C.ges[y].state = s.ges[y].state
                           /\ C.ges[y].rel = s.ges[y].rel
                           /\ C.ges[y].cancels = s.ges[y].cancels
                           /\ C.ges[y].can_not_cancel = s.ges[y].can_not_cancel
                           /\ C.ges[y].attached = s.ges[y].attached
    BY <2>10 DEF OnlySeqs
  <2>12. /\ DOMAIN q = DOMAIN s.ges[x].seqs
         /\ \A j \in DOMAIN q : /\ j # i => q[j] = s.ges[x].seqs[j]
                                /\ (q[j].ended <=> s.ges[x].seqs[j].ended)
                                /\ (q[j].seen <=> s.ges[x].seqs[j].seen)
                                /\ q[j].sprite = s.ges[x].seqs[j].sprite
         /\ q[i].buttons = b
    <3>1. \A j \in DOMAIN s.ges[x].seqs : s.ges[x].seqs[j] \in Datum
      BY <1>2, <1>4, SpriteOf
    <3> QED BY <2>1, <3>1 DEF Datum
  <2> HIDE DEF q
  <2>13. \A y \in All : Rested(C, y) /\ Distinct(C, y)
    <3>1. \A y \in All : Rested(s, y) /\ Distinct(s, y)
      BY <1>2 DEF Held
    <3>2. \A y \in All \ {x} : Rested(C, y) /\ Distinct(C, y)
      BY <2>11, <3>1 DEF Rested, AllEnded, Distinct, Open
    <3>3. Rested(C, x)
      BY <1>4, <2>11, <2>12, <3>1 DEF Rested, AllEnded
    <3>4. Distinct(C, x)
      BY <1>4, <2>11, <2>12, <3>1 DEF Distinct, Open
    <3> QED BY <3>2, <3>3, <3>4
  <2>14. Single(C)
    BY <1>2, <2>11 DEF Held, Single
  <2>15. /\ Sound(T) /\ Follows(C, T) /\ Single(T)
         /\ \A y \in All : Rested(T, y) /\ Distinct(T, y)
    BY <2>10, <2>13, <2>14, FollowsDistinct DEF Advances, Tidy
  <2>16. \A r \in Points : /\ T.sprites[r].press_count = s.sprites[r].press_count
                           /\ T.sprites[r].chain = s.sprites[r].chain
    BY <2>11, <2>15 DEF Follows
  <2>17. ASSUME NEW y \in All, NEW j \in DOMAIN T.ges[y].seqs, Open(T, y, j)
         PROVE  Linked(T, f, y, T.ges[y].seqs[j])
    <3> DEFINE c == C.ges[y].seqs[j]
               a == s.ges[y].seqs[j]
               g == T.ges[y].seqs[j]
    <3>1. /\ j \in DOMAIN C.ges[y].seqs /\ Open(C, y, j)
          /\ g.sprite = c.sprite /\ g.buttons = c.buttons /\ (c.seen => g.seen)
      BY <2>15, <2>17, FollowsOpen
    <3>2. /\ j \in DOMAIN s.ges[y].seqs /\ Open(s, y, j)
          /\ c.sprite = a.sprite /\ (c.seen <=> a.seen)
          /\ y # x \/ j # i => c.buttons = a.buttons
      BY <2>11, <2>12, <3>1 DEF Open
    <3>3. Linked(s, e, y, a) /\ a.sprite \in Points
      BY <1>2, <3>2, SpriteOf DEF Held
    <3>4. /\ T.ges[y].attached <=> s.ges[y].attached
          /\ s.ges[y].state \in Over => T.ges[y].state \in Over \cup {"WAITING"}
      BY <2>11, <2>15 DEF Follows, FollowsAt
    <3>5. T.ges[y].state # "WAITING"
      <4>1. DOMAIN <<>> = {}
        OBVIOUS
      <4> QED BY <2>15, <2>17, <4>1 DEF Sound
    <3>6. CASE y # x \/ j # i
      <4>1. y # x \/ a.sprite # p
        <5>1. CASE y = x /\ a.sprite = p
          BY <1>2, <1>4, <2>1, <3>2, <3>6, <5>1 DEF Held, Distinct, d
        <5> QED BY <5>1
      <4>2. \A type : /\ Hears(f, y, a.sprite, type) <=> Hears(e, y, a.sprite, type)
                      /\ Heard(f, y, a.sprite, type) <=> Heard(e, y, a.sprite, type)
        BY <1>6, <4>1
      <4> HIDE DEF a, g, c
      <4>3. Linked(T, f, y, g)
        BY <2>16, <3>1, <3>2, <3>3, <3>4, <3>5, <3>6, <4>2 DEF Linked
      <4> QED BY <4>3 DEF g
    <3>7. CASE y = x /\ j = i
      <4>1. a.sprite = p /\ c.buttons = b /\ a = d
        BY <2>1, <2>11, <2>12, <3>2, <3>7 DEF d
      <4> HIDE DEF a, g, c
      <4>2. Refused(s, x, i) \/ ~Ends(e.type, b)
        BY <2>10, <2>17, <3>7
      <4>3. e.type \notin {"end", "cancel"} /\ (e.type = "release" => b >= 1)
        BY <2>7, <2>8, <4>2 DEF Ends
      <4>4. g.seen \/ T.ges[x].state \in Over
        <5>1. CASE Refused(s, x, i)
          BY <2>10, <3>5, <3>7, <5>1 DEF Over
        <5>2. CASE ~Refused(s, x, i) /\ Told(s, x, e.type, b)
          BY <2>10, <2>17, <3>7, <5>2 DEF g
        <5>3. CASE d.seen
          BY <3>1, <3>2, <4>1, <5>3
        <5>4. CASE s.ges[x].state \in Over
          BY <3>4, <3>5, <3>7, <5>4
        <5> QED BY <2>9, <5>1, <5>2, <5>3, <5>4
      <4>5. /\ ~Heard(f, x, p, "end") /\ ~Heard(f, x, p, "cancel")
            /\ Heard(f, x, p, "release") <=> e.type = "release"
        BY <1>5, <4>3 DEF Heard
      <4>6. /\ T.sprites[p].press_count = presses
            /\ T.sprites[p].chain = s.sprites[p].chain
        BY <2>3, <2>16 DEF presses
      <4>7. g.sprite = p /\ g.buttons = b
        BY <3>1, <3>2, <4>1
      <4>8. /\ p \in Pointers => g.buttons = IF Heard(f, x, p, "release")
                                             THEN presses - 1 ELSE presses
            /\ Heard(f, x, p, "release") => presses > 1
        BY <2>7, <4>3, <4>5, <4>7
      <4>9. Linked(T, f, x, g)
        BY <1>7, <2>4, <3>4, <3>7, <4>4, <4>5, <4>6, <4>7, <4>8 DEF Linked
      <4> QED BY <3>7, <4>9 DEF g
    <3> QED BY <3>6, <3>7
  <2>18. \A r \in Points : IsInjective(T.sprites[r].chain)
    BY <1>2, <2>16 DEF Held
  <2>19. Held(T, f)
    BY <1>5, <2>15, <2>17, <2>18 DEF Held
  <2>20. Acts(s, T)
    <3>1. Acts(C, T)
      BY <1>4, <2>10, AdvancesActs
    <3>2. \A y \in All : s.ges[y].rel \subseteq All
      BY <1>2 DEF Sound, Stage, Gesture
    <3> QED BY <2>11, <3>1, <3>2 DEF Acts, Spares
  <2> QED BY <1>1, <1>2, <2>19, <2>20 DEF GestureInv, T
<1> QED BY <1>8, <1>9

-----------------------------------------------------------------------------
(* The first press of a sprite.  New sequences have been neither seen nor  *)
(* ended; S becomes T when the gestures of X register one of p.            *)
Fresh(p) == [sprite |-> p, seen |-> FALSE, ended |-> FALSE, buttons |-> 0]

RegisteredAt(g, h, p) ==
    /\ h.seqs = Append(g.seqs, Fresh(p))
    /\ h.state = IF g.state = "WAITING" THEN "POSSIBLE" ELSE g.state
    /\ h.rel = g.rel /\ h.cancels = g.cancels /\ h.can_not_cancel = g.can_not_cancel
    /\ h.attached = g.attached

Registered(S, T, X, p) ==
    /\ T \in Stage /\ T.sprites = S.sprites /\ T.failed = S.failed
    /\ T.active = S.active \cup X
    /\ \A y \in All \ X : T.ges[y] = S.ges[y]
    /\ \A y \in X : RegisteredAt(S.ges[y], T.ges[y], p)

LEMMA RegisterDoes ==
    ASSUME NEW S \in Stage, NEW x \in All, NEW p \in Points
    PROVE  LET T == register_sequence(S, x, p) IN
           /\ T \in Stage /\ T.sprites = S.sprites /\ T.failed = S.failed
           /\ T.active = IF S.ges[x].state = "WAITING" THEN S.active \cup {x} ELSE S.active
           /\ \A y \in All \ {x} : T.ges[y] = S.ges[y]
           /\ RegisteredAt(S.ges[x], T.ges[x], p)
<1> DEFINE w == S.ges[x].state = "WAITING"
           A == [S EXCEPT !.active = @ \cup {x}]
           k == [A.ges[x] EXCEPT !.list = TRUE]
           B == Put(A, x, k)
           l == [B.ges[x] EXCEPT !.state = "POSSIBLE"]
           C == IF w THEN Put(B, x, l) ELSE S
           q == Append(C.ges[x].seqs, Fresh(p))
           h == [C.ges[x] EXCEPT !.seqs = q]
           T == register_sequence(S, x, p)
<1>1. S.ges[x] \in Gesture
  BY DEF Stage
<1>2. /\ A \in Stage /\ A.ges = S.ges /\ A.sprites = S.sprites /\ A.failed = S.failed
      /\ A.active = S.active \cup {x}
  BY DEF Stage
<1>3. [S EXCEPT !.active = @ \cup {x}, !.ges[x].list = TRUE] = B
  BY <1>2, SMTT(40) DEF Put, Stage
<1>4. T = Put(C, x, h)
  <2>1. CASE w
    <3>1. T = [State(B, x, "POSSIBLE") EXCEPT !.ges[x].seqs = Append(@, Fresh(p))]
      BY <1>3, <2>1 DEF register_sequence, Fresh
    <3>2. State(B, x, "POSSIBLE") = C
      BY <2>1 DEF State, Put
    <3>3. T = [C EXCEPT !.ges[x].seqs = Append(@, Fresh(p))]
      BY <3>1, <3>2
    <3> HIDE DEF T, C
    <3> QED BY <3>3 DEF Put
  <2>2. CASE ~w
    <3>1. T = [C EXCEPT !.ges[x].seqs = Append(@, Fresh(p))]
      BY <2>2 DEF register_sequence, Fresh
    <3> HIDE DEF T, C
    <3> QED BY <3>1 DEF Put
  <2> QED BY <2>1, <2>2
<1> HIDE DEF A, T
<1>5. /\ k \in Gesture /\ k.seqs = S.ges[x].seqs /\ k.state = S.ges[x].state
      /\ k.rel = S.ges[x].rel /\ k.cancels = S.ges[x].cancels
      /\ k.can_not_cancel = S.ges[x].can_not_cancel /\ k.attached = S.ges[x].attached
  BY <1>1, <1>2 DEF Gesture
<1> HIDE DEF k
<1>6. /\ B \in Stage /\ B.active = A.active /\ B.sprites = A.sprites /\ B.failed = A.failed
      /\ B.ges[x] = k /\ \A y \in All \ {x} : B.ges[y] = A.ges[y]
  BY <1>2, <1>5, ChangeOne
<1> HIDE DEF B
<1>7. /\ l \in Gesture /\ l.seqs = k.seqs /\ l.state = "POSSIBLE" /\ l.rel = k.rel
      /\ l.cancels = k.cancels /\ l.can_not_cancel = k.can_not_cancel
      /\ l.attached = k.attached
  BY <1>5, <1>6 DEF Gesture, States
<1> HIDE DEF l
<1>8. /\ C \in Stage /\ C.sprites = S.sprites /\ C.failed = S.failed
      /\ C.active = IF w THEN S.active \cup {x} ELSE S.active
      /\ \A y \in All \ {x} : C.ges[y] = S.ges[y]
      /\ C.ges[x].state = IF w THEN "POSSIBLE" ELSE S.ges[x].state
      /\ C.ges[x].seqs = S.ges[x].seqs /\ C.ges[x].rel = S.ges[x].rel
      /\ C.ges[x].cancels = S.ges[x].cancels
      /\ C.ges[x].can_not_cancel = S.ges[x].can_not_cancel
      /\ C.ges[x].attached = S.ges[x].attached
  <2>1. CASE w
    <3>1. C = Put(B, x, l)
      BY <2>1
    <3>2. /\ C \in Stage /\ C.active = B.active /\ C.sprites = B.sprites
          /\ C.failed = B.failed /\ C.ges[x] = l /\ \A y \in All \ {x} : C.ges[y] = B.ges[y]
      BY <1>6, <1>7, <3>1, ChangeOne
    <3> HIDE DEF C
    <3> QED BY <1>2, <1>5, <1>6, <1>7, <2>1, <3>2
  <2>2. CASE ~w
    BY <2>2
  <2> QED BY <2>1, <2>2
<1> HIDE DEF C
<1>9. C.ges[x] \in Gesture /\ q \in Seq(Datum)
  <2>1. Fresh(p) \in Datum
    BY DEF Fresh, Datum
  <2>2. C.ges[x] \in Gesture /\ C.ges[x].seqs \in Seq(Datum)
    BY <1>8 DEF Stage, Gesture
  <2> QED BY <2>1, <2>2, AppendProperties
<1>10. q = Append(S.ges[x].seqs, Fresh(p))
  BY <1>8
<1> HIDE DEF q
<1>11. /\ h \in Gesture /\ h.seqs = q /\ h.state = C.ges[x].state /\ h.rel = C.ges[x].rel
       /\ h.cancels = C.ges[x].cancels /\ h.can_not_cancel = C.ges[x].can_not_cancel
       /\ h.attached = C.ges[x].attached
  BY <1>9 DEF Gesture
<1> HIDE DEF h
<1>12. /\ T \in Stage /\ T.active = C.active /\ T.sprites = C.sprites /\ T.failed = C.failed
       /\ T.ges[x] = h /\ \A y \in All \ {x} : T.ges[y] = C.ges[y]
  BY <1>4, <1>8, <1>11, ChangeOne
<1>13. RegisteredAt(S.ges[x], T.ges[x], p)
  BY <1>8, <1>10, <1>11, <1>12 DEF RegisteredAt
<1> QED BY <1>8, <1>12, <1>13 DEF T

(* Registration, one gesture after the other                               *)
LEMMA RegisterFolds ==
    ASSUME NEW S \in Stage, NEW chain \in Seq(All), NEW p \in Points
    PROVE  \E f : /\ f[0] = S
                  /\ \A k \in 1..Len(chain) : f[k] = register_sequence(f[k - 1], chain[k], p)
                  /\ RegisterAll(S, p, chain) = f[Len(chain)]
<1> DEFINE n == Len(chain)
           Step(x, T) == register_sequence(T, chain[x], p)
           G == [x \in 1..n |-> [T \in Stage |-> Step(x, T)]]
           Is(f) == f = [u \in SUBSET (1..n) |->
                           IF u = {} THEN S ELSE Step(Max(u), f[u \ {Max(u)}])]
           iter == CHOOSE f : Is(f)
           g == [k \in 0..n |-> iter[1..k]]
<1>1. n \in Nat /\ DOMAIN chain = 1..n /\ \A x \in 1..n : chain[x] \in All
  BY LenProperties
<1>2. RegisterAll(S, p, chain) = iter[1..n]
  BY <1>1 DEF RegisterAll, FoldLeft, MapThenFoldSet
<1>3. \A x \in 1..n, T \in Stage : Step(x, T) \in Stage
  BY <1>1, RegisterDoes
<1>4. G \in [1..n -> [Stage -> Stage]]
  BY <1>3
<1>5. \A x \in 1..n, T \in Stage : G[x][T] = Step(x, T)
  OBVIOUS
<1> HIDE DEF G, Step, n
<1>6. PICK f : IsLeftFold(f, S, n, G, Stage)
  BY <1>1, <1>4, FoldLeftExists
<1>7. Is(f)
  <2>1. ASSUME NEW u \in SUBSET (1..n), u # {}
        PROVE  G[Max(u)][f[u \ {Max(u)}]] = Step(Max(u), f[u \ {Max(u)}])
    <3>1. Max(u) \in 1..n /\ u \ {Max(u)} \in SUBSET (1..n)
      BY <1>1, <2>1, MaxOfSome
    <3>2. f[u \ {Max(u)}] \in Stage
      BY <1>6, <3>1 DEF IsLeftFold
    <3> QED BY <1>5, <3>1, <3>2
  <2>2. \A u \in SUBSET (1..n) :
          f[u] = IF u = {} THEN S ELSE Step(Max(u), f[u \ {Max(u)}])
    BY <1>6, <2>1 DEF IsLeftFold
  <2> QED BY <1>6, <2>2 DEF IsLeftFold
<1>8. Is(iter)
  BY <1>7
<1>9. \A u \in SUBSET (1..n) :
        iter[u] = IF u = {} THEN S ELSE Step(Max(u), iter[u \ {Max(u)}])
  BY <1>8
<1> HIDE DEF iter
<1>10. g[0] = S /\ g[n] = iter[1..n]
  <2>1. 1..0 = {} /\ {} \in SUBSET (1..n) /\ 0 \in 0..n /\ n \in 0..n
    BY <1>1
  <2> QED BY <1>9, <2>1
<1>11. ASSUME NEW k \in 1..n PROVE g[k] = Step(k, g[k - 1])
  <2>1. k \in 0..n /\ k - 1 \in 0..n
    BY <1>1
  <2>2. iter[1..k] = Step(k, iter[1..k - 1])
    <3> DEFINE u == 1..k
    <3>1. u \in SUBSET (1..n) /\ u # {} /\ Max(u) = k /\ u \ {k} = 1..k - 1
      BY <1>1, FirstOf
    <3> HIDE DEF u
    <3>2. iter[u] = Step(k, iter[u \ {k}])
      BY <1>9, <3>1
    <3>3. iter[u] = Step(k, iter[1..k - 1])
      BY <3>1, <3>2
    <3> QED BY <3>3 DEF u
  <2> QED BY <2>1, <2>2
<1> HIDE DEF g
<1> QED BY <1>2, <1>10, <1>11 DEF Step, n

LEMMA RegisterAllDoes ==
    ASSUME NEW S, Sound(S), NEW chain \in Seq(All), IsInjective(chain), NEW p \in Points
    PROVE  Registered(S, RegisterAll(S, p, chain), ToSet(chain), p)
<1> DEFINE n == Len(chain)
           First(k) == {chain[j] : j \in 1..k}
<1>1. S \in Stage
  BY DEF Sound
<1>2. PICK f : /\ f[0] = S
               /\ \A k \in 1..n : f[k] = register_sequence(f[k - 1], chain[k], p)
               /\ RegisterAll(S, p, chain) = f[n]
  BY <1>1, RegisterFolds
<1> DEFINE P == {k \in 0..n : Registered(S, f[k], First(k), p)}
<1>3. n \in Nat /\ DOMAIN chain = 1..n /\ \A x \in 1..n : chain[x] \in All
  BY LenProperties
<1> HIDE DEF n
<1>4. 0 \in P
  <2>1. First(0) = {} /\ 0 \in 0..n
    BY <1>3
  <2>2. Registered(S, S, {}, p)
    BY <1>1 DEF Registered
  <2> HIDE DEF First
  <2> QED BY <1>2, <2>1, <2>2
<1>5. ASSUME NEW k \in 0..n - 1, k \in P PROVE k + 1 \in P
  <2> DEFINE T == f[k]
             U == f[k + 1]
             x == chain[k + 1]
             X == First(k)
  <2>1. k \in Nat /\ k + 1 \in 1..n /\ k + 1 \in 0..n /\ k + 1 - 1 = k
    BY <1>3
  <2>2. Registered(S, T, X, p)
    BY <1>5
  <2>3. x \in All /\ U = register_sequence(T, x, p)
    <3>1. f[k + 1] = register_sequence(f[k + 1 - 1], chain[k + 1], p)
      BY <1>2, <2>1
    <3> QED BY <1>3, <2>1, <3>1
  <2>4. First(k + 1) = X \cup {x}
    <3>1. 1..k + 1 = (1..k) \cup {k + 1}
      BY <2>1
    <3> QED BY <3>1
  <2>5. x \notin X /\ X \subseteq All
    <3>1. \A j \in 1..k : j \in 1..n /\ j # k + 1
      BY <1>3, <2>1
    <3> QED BY <1>3, <2>1, <3>1 DEF IsInjective
  <2> HIDE DEF T, U, x, First
  <2>6. T \in Stage
    BY <2>2 DEF Registered
  <2>7. /\ U \in Stage /\ U.sprites = T.sprites /\ U.failed = T.failed
        /\ U.active = IF T.ges[x].state = "WAITING" THEN T.active \cup {x} ELSE T.active
        /\ \A y \in All \ {x} : U.ges[y] = T.ges[y]
        /\ RegisteredAt(T.ges[x], U.ges[x], p)
    BY <2>3, <2>6, RegisterDoes
  <2>8. T.ges[x] = S.ges[x] /\ T.active = S.active \cup X
    BY <2>2, <2>3, <2>5 DEF Registered
  <2>9. U.active = S.active \cup (X \cup {x})
    <3>1. S.ges[x].state # "WAITING" => x \in S.active
      BY <2>3 DEF Sound
    <3> QED BY <2>7, <2>8, <3>1
  <2>10. RegisteredAt(S.ges[x], U.ges[x], p)
    BY <2>7, <2>8
  <2>11. \A y \in X : RegisteredAt(S.ges[y], U.ges[y], p)
    BY <2>2, <2>5, <2>7 DEF Registered
  <2>12. Registered(S, U, X \cup {x}, p)
    BY <2>2, <2>5, <2>7, <2>9, <2>10, <2>11 DEF Registered
  <2>13. Registered(S, f[k + 1], First(k + 1), p)
    BY <2>4, <2>12 DEF U
  <2> QED BY <2>1, <2>13
<1> HIDE DEF P
<1>6. n \in P
  <2>1. \A k \in 0..n : k \in P
    BY <1>3, <1>4, <1>5, UpTo
  <2> QED BY <1>3, <2>1
<1>7. First(n) = ToSet(chain)
  BY <1>3 DEF ToSet
<1>8. Registered(S, f[n], First(n), p)
  BY <1>6 DEF P
<1> HIDE DEF First
<1> QED BY <1>2, <1>7, <1>8

(* setup_relationships: those of X are related to one another, and may     *)
(* cancel those they were not related to.                                  *)
LEMMA RelatedDoes ==
    ASSUME NEW S \in Stage, NEW X \in SUBSET All
    PROVE  LET T == setup_relationships(S, X) IN
           /\ T \in Stage /\ T.sprites = S.sprites /\ T.failed = S.failed
           /\ T.active = S.active
           /\ \A y \in All \ X : T.ges[y] = S.ges[y]
           /\ \A y \in X :
                /\ T.ges[y].rel = S.ges[y].rel \cup (X \ {y})
                /\ T.ges[y].cancels = S.ges[y].cancels \cup
                     ((X \ ({y} \cup S.ges[y].rel)) \ S.ges[y].can_not_cancel)
                /\ T.ges[y].state = S.ges[y].state /\ T.ges[y].seqs = S.ges[y].seqs
                /\ T.ges[y].can_not_cancel = S.ges[y].can_not_cancel
                /\ T.ges[y].attached = S.ges[y].attached
<1> DEFINE new(y) == X \ ({y} \cup S.ges[y].rel)
           h(y) == [S.ges[y] EXCEPT !.rel = S.ges[y].rel \cup new(y),
                                    !.cancels = S.ges[y].cancels \cup
                                                  (new(y) \ S.ges[y].can_not_cancel)]
           k(y) == IF y \notin X THEN S.ges[y] ELSE h(y)
           T == setup_relationships(S, X)
<1>1. T = [S EXCEPT !.ges = [y \in All |-> k(y)]]
  BY DEF setup_relationships
<1>2. \A y \in All : S.ges[y] \in Gesture
  BY DEF Stage
<1>3. \A y \in All : /\ h(y) \in Gesture
                     /\ h(y).rel = S.ges[y].rel \cup new(y)
                     /\ h(y).cancels = S.ges[y].cancels \cup (new(y) \ S.ges[y].can_not_cancel)
                     /\ h(y).state = S.ges[y].state /\ h(y).seqs = S.ges[y].seqs
                     /\ h(y).can_not_cancel = S.ges[y].can_not_cancel
                     /\ h(y).attached = S.ges[y].attached
  <2>1. ASSUME NEW y \in All
        PROVE  /\ S.ges[y].rel \cup new(y) \in SUBSET All
               /\ S.ges[y].cancels \cup (new(y) \ S.ges[y].can_not_cancel) \in SUBSET All
    BY <1>2 DEF Gesture
  <2> SUFFICES ASSUME NEW y \in All
               PROVE  /\ h(y) \in Gesture
                      /\ h(y).rel = S.ges[y].rel \cup new(y)
                      /\ h(y).cancels = S.ges[y].cancels \cup (new(y) \ S.ges[y].can_not_cancel)
                      /\ h(y).state = S.ges[y].state /\ h(y).seqs = S.ges[y].seqs
                      /\ h(y).can_not_cancel = S.ges[y].can_not_cancel
                      /\ h(y).attached = S.ges[y].attached
    OBVIOUS
  <2> DEFINE r == S.ges[y].rel \cup new(y)
             c == S.ges[y].cancels \cup (new(y) \ S.ges[y].can_not_cancel)
             l == [S.ges[y] EXCEPT !.rel = r, !.cancels = c]
  <2>3. h(y) = l
    OBVIOUS
  <2>4. r \in SUBSET All /\ c \in SUBSET All /\ S.ges[y] \in Gesture
    BY <1>2, <2>1
  <2> HIDE DEF h, r, c
  <2>5. /\ l \in Gesture /\ l.rel = r /\ l.cancels = c
        /\ l.state = S.ges[y].state /\ l.seqs = S.ges[y].seqs
        /\ l.can_not_cancel = S.ges[y].can_not_cancel /\ l.attached = S.ges[y].attached
    BY <2>4 DEF Gesture
  <2> HIDE DEF l
  <2> QED BY <2>3, <2>5 DEF r, c
<1>4. \A y \in All : (y \notin X => k(y) = S.ges[y]) /\ (y \in X => k(y) = h(y))
  OBVIOUS
<1>5. \A y \in All : S.ges[y].rel \cup new(y) = S.ges[y].rel \cup (X \ {y}) \/ y \notin X
      \/ y \in S.ges[y].rel
  OBVIOUS
<1>6. \A y \in X : y \in S.ges[y].rel => S.ges[y].rel \cup new(y) = S.ges[y].rel \cup (X \ {y})
  OBVIOUS
<1> HIDE DEF h, k
<1>7. [y \in All |-> k(y)] \in [All -> Gesture]
  BY <1>2, <1>3, <1>4
<1>8. /\ T \in Stage /\ T.sprites = S.sprites /\ T.failed = S.failed /\ T.active = S.active
      /\ T.ges = [y \in All |-> k(y)]
  BY <1>1, <1>7 DEF Stage
<1>9. \A y \in All : T.ges[y] = k(y)
  BY <1>8
<1> HIDE DEF T
<1> QED BY <1>3, <1>4, <1>5, <1>6, <1>8, <1>9 DEF T

LEMMA AppendedDatum ==
    ASSUME NEW q \in Seq(Datum), NEW d \in Datum, NEW i \in DOMAIN Append(q, d)
    PROVE  \/ i \in DOMAIN q /\ Append(q, d)[i] = q[i]
           \/ i = Len(q) + 1 /\ i \notin DOMAIN q /\ Append(q, d)[i] = d
<1>1. Len(q) \in Nat /\ DOMAIN q = 1..Len(q)
  BY LenProperties
<1>2. /\ Append(q, d) \in Seq(Datum) /\ Len(Append(q, d)) = Len(q) + 1
      /\ (\A j \in 1..Len(q) : Append(q, d)[j] = q[j]) /\ Append(q, d)[Len(q) + 1] = d
  BY AppendProperties
<1>3. i \in 1..Len(q) + 1
  BY <1>2, LenProperties
<1> QED BY <1>1, <1>2, <1>3

LEMMA PressHolds ==
    ASSUME GestureInv, NEW p \in Points, Press(p)
    PROVE  GestureInv' /\ Acts(s, s')
<1>1. PICK X \in SUBSET {x \in All : MayRegister(s, x, p)} :
        /\ s' = [setup_relationships(RegisterAll(s, p, Those(Gestures, X)), X) EXCEPT
                   !.sprites[p] = [press_count |-> 1, chain |-> Those(Gestures, X),
                                   actors |-> TRUE]]
        /\ emission' = [sprite |-> p, type |-> IF p \in Touches THEN "begin" ELSE "press",
                        rest |-> Those(Gestures, X)]
  BY DEF Press, Emit
<1> DEFINE chain == Those(Gestures, X)
           R == RegisterAll(s, p, chain)
           U == setup_relationships(R, X)
           h == [press_count |-> 1, chain |-> chain, actors |-> TRUE]
           T == PutSprite(U, p, h)
           f == [sprite |-> p, type |-> IF p \in Touches THEN "begin" ELSE "press",
                 rest |-> chain]
<1>2. Held(s, Idle) /\ Sound(s) /\ s.sprites[p].press_count = 0
  BY DEF GestureInv, Press, Held
<1>3. chain \in Seq(All) /\ ToSet(chain) = X /\ IsInjective(chain)
  <2>1. Gestures \in Seq(All) /\ IsInjective(Gestures) /\ ToSet(Gestures) = All
    BY GestureAssumption DEF All
  <2>2. X \in SUBSET All
    OBVIOUS
  <2>3. chain \in Seq(All) /\ ToSet(chain) = All \cap X /\ IsInjective(chain)
    BY <2>1, ThoseProperties
  <2> QED BY <2>2, <2>3
<1>4. /\ X \in SUBSET All
      /\ \A x \in X : s.ges[x].attached /\ s.ges[x].state \notin Over
  BY DEF MayRegister
<1>5. s' = T
  BY <1>1 DEF PutSprite
<1>6. emission' = f
  BY <1>1
<1> HIDE DEF chain
<1>7. Registered(s, R, X, p)
  BY <1>2, <1>3, RegisterAllDoes
<1> HIDE DEF R
<1>8. R \in Stage
  BY <1>7 DEF Registered
<1>9. /\ U \in Stage /\ U.sprites = R.sprites /\ U.failed = R.failed /\ U.active = R.active
      /\ \A y \in All \ X : U.ges[y] = R.ges[y]
      /\ \A y \in X :
           /\ U.ges[y].rel = R.ges[y].rel \cup (X \ {y})
           /\ U.ges[y].cancels = R.ges[y].cancels \cup
                ((X \ ({y} \cup R.ges[y].rel)) \ R.ges[y].can_not_cancel)
           /\ U.ges[y].state = R.ges[y].state /\ U.ges[y].seqs = R.ges[y].seqs
           /\ U.ges[y].can_not_cancel = R.ges[y].can_not_cancel
           /\ U.ges[y].attached = R.ges[y].attached
  BY <1>4, <1>8, RelatedDoes
<1> HIDE DEF U
<1>10. /\ U.sprites = s.sprites /\ U.failed = s.failed /\ U.active = s.active \cup X
       /\ \A y \in All \ X : U.ges[y] = s.ges[y]
       /\ \A y \in X :
            /\ U.ges[y].rel = s.ges[y].rel \cup (X \ {y})
            /\ U.ges[y].cancels = s.ges[y].cancels \cup
                 ((X \ ({y} \cup s.ges[y].rel)) \ s.ges[y].can_not_cancel)
            /\ U.ges[y].state = (IF s.ges[y].state = "WAITING" THEN "POSSIBLE"
                                 ELSE s.ges[y].state)
            /\ U.ges[y].seqs = Append(s.ges[y].seqs, Fresh(p))
            /\ U.ges[y].can_not_cancel = s.ges[y].can_not_cancel
            /\ U.ges[y].attached = s.ges[y].attached
  <2>1. \A y \in X : RegisteredAt(s.ges[y], R.ges[y], p)
    BY <1>7 DEF Registered
  <2>2. \A y \in All \ X : R.ges[y] = s.ges[y]
    BY <1>7 DEF Registered
  <2>3. U.sprites = s.sprites /\ U.failed = s.failed /\ U.active = s.active \cup X
    BY <1>7, <1>9 DEF Registered
  <2>4. \A y \in All \ X : U.ges[y] = s.ges[y]
    BY <1>9, <2>2
  <2>5. ASSUME NEW y \in X
        PROVE  /\ U.ges[y].rel = s.ges[y].rel \cup (X \ {y})
               /\ U.ges[y].cancels = s.ges[y].cancels \cup
                    ((X \ ({y} \cup s.ges[y].rel)) \ s.ges[y].can_not_cancel)
               /\ U.ges[y].state = (IF s.ges[y].state = "WAITING" THEN "POSSIBLE"
                                    ELSE s.ges[y].state)
               /\ U.ges[y].seqs = Append(s.ges[y].seqs, Fresh(p))
               /\ U.ges[y].can_not_cancel = s.ges[y].can_not_cancel
               /\ U.ges[y].attached = s.ges[y].attached
    <3>1. /\ R.ges[y].rel = s.ges[y].rel /\ R.ges[y].cancels = s.ges[y].cancels
          /\ R.ges[y].can_not_cancel = s.ges[y].can_not_cancel
          /\ R.ges[y].attached = s.ges[y].attached
          /\ R.ges[y].seqs = Append(s.ges[y].seqs, Fresh(p))
          /\ R.ges[y].state = (IF s.ges[y].state = "WAITING" THEN "POSSIBLE"
                               ELSE s.ges[y].state)
      BY <2>1 DEF RegisteredAt
    <3>2. /\ U.ges[y].rel = R.ges[y].rel \cup (X \ {y})
          /\ U.ges[y].cancels = R.ges[y].cancels \cup
               ((X \ ({y} \cup R.ges[y].rel)) \ R.ges[y].can_not_cancel)
          /\ U.ges[y].state = R.ges[y].state /\ U.ges[y].seqs = R.ges[y].seqs
          /\ U.ges[y].can_not_cancel = R.ges[y].can_not_cancel
          /\ U.ges[y].attached = R.ges[y].attached
      BY <1>9
    <3> QED BY <3>1, <3>2, Zenon
  <2> QED BY <2>3, <2>4, <2>5
<1>11. Sound(U)
  <2>1. \A x \in All : x \notin U.ges[x].rel \cup U.ges[x].cancels \cup U.ges[x].can_not_cancel
    BY <1>2, <1>10 DEF Sound
  <2>2. \A x \in All : U.ges[x].state = "WAITING" => U.ges[x].seqs = <<>>
    BY <1>2, <1>10 DEF Sound
  <2>3. \A x \in All : x \in U.active <=> U.ges[x].state # "WAITING"
    BY <1>2, <1>10 DEF Sound
  <2>4. ASSUME NEW x \in All, NEW y \in All, y \in U.ges[x].rel
        PROVE  x \in U.active /\ y \in U.active /\ x \in U.ges[y].rel
    <3>1. CASE y \in s.ges[x].rel
      <4>1. x \in s.active /\ y \in s.active /\ x \in s.ges[y].rel
        BY <1>2, <3>1 DEF Sound
      <4> QED BY <1>10, <4>1
    <3>2. CASE x \in X /\ y \in X \ {x}
      BY <1>10, <3>2
    <3> QED BY <1>10, <2>4, <3>1, <3>2
  <2> QED BY <1>9, <2>1, <2>2, <2>3, <2>4 DEF Sound
<1>12. h \in Sprite /\ h.chain = chain /\ h.press_count = 1
  BY <1>3 DEF Sprite
<1>13. /\ f \in Emissions /\ IsInjective(f.rest) /\ f.sprite = p /\ ToSet(f.rest) = X
       /\ f.type = IF p \in Touches THEN "begin" ELSE "press"
  BY <1>3 DEF Emissions, Points
<1> HIDE DEF h, f
<1>14. /\ Sound(T) /\ T.ges = U.ges /\ T.active = U.active /\ T.failed = U.failed
       /\ T.sprites[p] = h /\ \A q \in Points \ {p} : T.sprites[q] = U.sprites[q]
  BY <1>11, <1>12, SpriteDoes
<1> HIDE DEF T
<1>15. ASSUME NEW x \in All, NEW i \in DOMAIN T.ges[x].seqs, Open(T, x, i)
       PROVE  \/ /\ i \in DOMAIN s.ges[x].seqs /\ Open(s, x, i)
                 /\ T.ges[x].seqs[i] = s.ges[x].seqs[i]
                 /\ s.ges[x].seqs[i].sprite # p
              \/ /\ x \in X /\ T.ges[x].seqs[i] = Fresh(p) /\ i = Len(s.ges[x].seqs) + 1
  <2>1. ASSUME i \in DOMAIN s.ges[x].seqs, T.ges[x].seqs[i] = s.ges[x].seqs[i]
        PROVE  Open(s, x, i) /\ s.ges[x].seqs[i].sprite # p
    <3>1. Open(s, x, i)
      BY <1>15, <2>1 DEF Open
    <3>2. Linked(s, Idle, x, s.ges[x].seqs[i])
      BY <1>2, <2>1, <3>1 DEF Held
    <3> QED BY <1>2, <3>1, <3>2 DEF Linked
  <2>2. CASE x \notin X
    BY <1>10, <1>14, <1>15, <2>1, <2>2
  <2>3. CASE x \in X
    <3>1. s.ges[x].seqs \in Seq(Datum) /\ Fresh(p) \in Datum
      BY <1>2 DEF Sound, Stage, Gesture, Fresh, Datum
    <3>2. T.ges[x].seqs = Append(s.ges[x].seqs, Fresh(p))
      BY <1>10, <1>14, <2>3
    <3> DEFINE q == s.ges[x].seqs
               d == Fresh(p)
    <3> HIDE DEF q, d
    <3>3. i \in DOMAIN Append(q, d)
      BY <1>15, <3>2 DEF q, d
    <3>4. \/ i \in DOMAIN q /\ Append(q, d)[i] = q[i]
          \/ i = Len(q) + 1 /\ i \notin DOMAIN q /\ Append(q, d)[i] = d
      BY <3>1, <3>3, AppendedDatum DEF q, d
    <3> QED BY <2>1, <2>3, <3>2, <3>4 DEF q, d
  <2> QED BY <2>2, <2>3, SMTT(40)
<1>16. Single(T)
  <2> SUFFICES ASSUME NEW x \in All, NEW y \in All, x # y,
                      T.ges[x].state = "RECOGNIZING", T.ges[y].state = "RECOGNIZING"
               PROVE  /\ y \in T.ges[x].rel
                      /\ y \notin T.ges[x].cancels \/ x \notin T.ges[y].cancels
    BY DEF Single
  <2>1. s.ges[x].state = "RECOGNIZING" /\ s.ges[y].state = "RECOGNIZING"
    BY <1>10, <1>14
  <2>2. /\ y \in s.ges[x].rel /\ x \in s.ges[y].rel
        /\ y \notin s.ges[x].cancels \/ x \notin s.ges[y].cancels
    BY <1>2, <2>1 DEF Held, Single
  <2>3. y \in T.ges[x].rel
    BY <1>10, <1>14, <2>2
  <2>4. /\ y \in T.ges[x].cancels => y \in s.ges[x].cancels
        /\ x \in T.ges[y].cancels => x \in s.ges[y].cancels
    BY <1>10, <1>14, <2>2
  <2> QED BY <2>2, <2>3, <2>4
<1>17. ASSUME NEW x \in All PROVE Rested(T, x)
  <2>1. Rested(s, x)
    BY <1>2 DEF Held
  <2>2. CASE x \notin X
    BY <1>10, <1>14, <2>1, <2>2 DEF Rested, AllEnded
  <2>3. CASE x \in X
    BY <1>4, <1>10, <1>14, <2>3 DEF Rested, Over
  <2> QED BY <2>2, <2>3
<1>18. ASSUME NEW x \in All PROVE Distinct(T, x)
  <2>1. Distinct(s, x)
    BY <1>2 DEF Held
  <2>2. Fresh(p).sprite = p
    BY DEF Fresh
  <2> QED BY <1>15, <2>1, <2>2 DEF Distinct
<1>19. ASSUME NEW x \in All, NEW i \in DOMAIN T.ges[x].seqs, Open(T, x, i)
       PROVE  Linked(T, f, x, T.ges[x].seqs[i])
  <2>1. CASE /\ i \in DOMAIN s.ges[x].seqs /\ Open(s, x, i)
             /\ T.ges[x].seqs[i] = s.ges[x].seqs[i] /\ s.ges[x].seqs[i].sprite # p
    <3> DEFINE d == s.ges[x].seqs[i]
    <3>1. Linked(s, Idle, x, d) /\ d.sprite \in Points /\ d.sprite # p
      BY <1>2, <2>1, SpriteOf DEF Held
    <3>2. T.sprites[d.sprite] = s.sprites[d.sprite]
      BY <1>10, <1>14, <3>1
    <3>3. /\ T.ges[x].attached = s.ges[x].attached
          /\ s.ges[x].state \in Over => T.ges[x].state \in Over
      BY <1>4, <1>10, <1>14 DEF Over
    <3> HIDE DEF d
    <3>4. Linked(T, f, x, d)
      BY <1>13, <3>1, <3>2, <3>3, OtherSprite, IdleFacts DEF Linked
    <3> QED BY <2>1, <3>4 DEF d
  <2>2. CASE x \in X /\ T.ges[x].seqs[i] = Fresh(p)
    <3> DEFINE d == Fresh(p)
    <3>1. d.sprite = p /\ d.buttons = 0
      BY DEF Fresh
    <3>2. /\ T.ges[x].attached /\ x \in ToSet(T.sprites[p].chain)
          /\ T.sprites[p].press_count = 1
      BY <1>3, <1>4, <1>10, <1>12, <1>14, <2>2
    <3>3. /\ Hears(f, x, p, "begin") \/ Hears(f, x, p, "press")
          /\ p \in Pointers => Hears(f, x, p, "press")
          /\ ~Heard(f, x, p, "release") /\ ~Heard(f, x, p, "end") /\ ~Heard(f, x, p, "cancel")
      BY <1>13, <2>2, GestureAssumption DEF Hears, Heard
    <3> HIDE DEF d
    <3>4. Linked(T, f, x, d)
      BY <3>1, <3>2, <3>3 DEF Linked
    <3> QED BY <2>2, <3>4 DEF d
  <2> QED BY <1>15, <1>19, <2>1, <2>2
<1>20. \A q \in Points : IsInjective(T.sprites[q].chain)
  BY <1>2, <1>3, <1>10, <1>12, <1>14 DEF Held
<1>21. Held(T, f)
  BY <1>13, <1>14, <1>16, <1>17, <1>18, <1>19, <1>20 DEF Held
<1>22. Acts(s, T)
  BY <1>10, <1>14 DEF Acts
<1> QED BY <1>5, <1>6, <1>21, <1>22 DEF GestureInv

-----------------------------------------------------------------------------
(* Theorems                                                                *)
LEMMA InitHolds == Init => GestureInv
<1> SUFFICES ASSUME Init PROVE Held(s, emission)
  BY DEF GestureInv
<1>1. PICK keeps \in Keeps :
        /\ s = [ges |-> [x \in All |->
                   [state |-> "WAITING", seqs |-> <<>>, rel |-> {}, cancels |-> {},
                    can_not_cancel |-> keeps[x], list |-> FALSE, attached |-> TRUE,
                    enabled |-> TRUE]],
                active |-> {},
                sprites |-> [p \in Points |->
                   [press_count |-> 0, chain |-> <<>>, actors |-> FALSE]],
                failed |-> FALSE]
        /\ emission = Idle
  BY DEF Init
<1>2. \A x \in All : keeps[x] \in SUBSET All /\ x \notin keeps[x]
  BY GestureAssumption
<1>3. DOMAIN <<>> = {} /\ <<>> \in Seq(Datum) /\ <<>> \in Seq(All)
  OBVIOUS
<1> DEFINE g(x) == [state |-> "WAITING", seqs |-> <<>>, rel |-> {}, cancels |-> {},
                    can_not_cancel |-> keeps[x], list |-> FALSE, attached |-> TRUE,
                    enabled |-> TRUE]
           h == [press_count |-> 0, chain |-> <<>>, actors |-> FALSE]
<1>4. \A x \in All : g(x) \in Gesture
  BY <1>2, <1>3 DEF Gesture, States
<1>5. h \in Sprite
  BY NoReceivers
<1>6. /\ s \in Stage /\ s.active = {} /\ s.failed = FALSE
      /\ (\A x \in All : s.ges[x] = g(x)) /\ \A p \in Points : s.sprites[p] = h
  <2> HIDE DEF g, h
  <2>1. s = [ges |-> [x \in All |-> g(x)], active |-> {}, sprites |-> [p \in Points |-> h],
             failed |-> FALSE]
    BY <1>1 DEF g, h
  <2> QED BY <1>4, <1>5, <2>1 DEF Stage
<1>7. \A x \in All : /\ s.ges[x].state = "WAITING" /\ s.ges[x].seqs = <<>>
                     /\ s.ges[x].rel = {} /\ s.ges[x].cancels = {}
                     /\ s.ges[x].can_not_cancel = keeps[x]
  <2>1. \A x : /\ g(x).state = "WAITING" /\ g(x).seqs = <<>> /\ g(x).rel = {}
               /\ g(x).cancels = {} /\ g(x).can_not_cancel = keeps[x]
    OBVIOUS
  <2> HIDE DEF g
  <2> QED BY <1>6, <2>1
<1>8. \A p \in Points : s.sprites[p].chain = <<>>
  BY <1>6
<1> HIDE DEF g, h
<1>9. Sound(s)
  BY <1>2, <1>6, <1>7 DEF Sound
<1>10. Single(s)
  BY <1>7 DEF Single
<1>11. \A x \in All : Rested(s, x) /\ Distinct(s, x)
  BY <1>3, <1>7 DEF Rested, Over, Distinct
<1>12. \A x \in All : \A i \in DOMAIN s.ges[x].seqs : FALSE
  BY <1>3, <1>7
<1>13. \A p \in Points : IsInjective(s.sprites[p].chain)
  BY <1>8, NoReceivers
<1>14. emission \in Emissions /\ IsInjective(emission.rest)
  BY <1>1, IdleFacts
<1> QED BY <1>9, <1>10, <1>11, <1>12, <1>13, <1>14 DEF Held

LEMMA NextHolds == GestureInv /\ [Next]_vars => GestureInv'
<1> SUFFICES ASSUME GestureInv, [Next]_vars PROVE GestureInv'
  OBVIOUS
<1>1. ASSUME NEW p \in Points, Press(p) PROVE GestureInv'
  BY <1>1, PressHolds
<1>2. ASSUME NEW p \in Points, PressMore(p) PROVE GestureInv'
  BY <1>2, PressMoreHolds
<1>3. ASSUME NEW p \in Points, Propagate(p) PROVE GestureInv'
  BY <1>3, PropagateHolds
<1>4. ASSUME NEW p \in Points, LostGrab(p) PROVE GestureInv'
  BY <1>4, LostGrabHolds
<1>5. ASSUME NEW p \in Points, Dropped(p) PROVE GestureInv'
  BY <1>5, DroppedHolds
<1>6. CASE EmitToAction
  BY <1>6, EmitToActionHolds
<1>7. CASE Emitted
  BY <1>7, EmittedHolds
<1>8. CASE ActorHandles
  BY <1>8, ActorHandlesHolds
<1>9. ASSUME NEW x \in All, Asks(x) PROVE GestureInv'
  BY <1>9, AsksHolds
<1>10. ASSUME NEW x \in All, SetEnabled(x) PROVE GestureInv'
  BY <1>10, SetEnabledHolds
<1>11. ASSUME NEW x \in All, SetActor(x) PROVE GestureInv'
  BY <1>11, SetActorHolds
<1>12. ASSUME NEW x \in All, CanNotCancel(x) PROVE GestureInv'
  BY <1>12, CanNotCancelHolds
<1>13. CASE UNCHANGED vars
  BY <1>13 DEF vars, GestureInv
<1> QED
  BY <1>1, <1>2, <1>3, <1>4, <1>5, <1>6, <1>7, <1>8, <1>9, <1>10, <1>11, <1>12, <1>13 DEF Next

(* The inductive invariant: what gestures, sprites and the event being     *)
(* emitted record of one another, for any number of them.                  *)
THEOREM GestureInvariant == Spec => []GestureInv
<1>1. Init => GestureInv
  BY InitHolds
<1>2. GestureInv /\ [Next]_vars => GestureInv'
  BY NextHolds
<1> QED BY <1>1, <1>2, PTL DEF Spec

LEMMA Agree == GestureInv => GesturesAgree
<1> SUFFICES ASSUME GestureInv PROVE TypeOK /\ RelationsAgree
  BY DEF GesturesAgree
<1>1. Sound(s) /\ s \in Stage /\ emission \in Emissions
  BY DEF GestureInv, Held, Sound
<1>2. s.active \subseteq All /\ \A x \in All : s.ges[x] \in Gesture
  BY <1>1 DEF Stage
<1>3. ASSUME NEW x \in All
      PROVE  LET g == s.ges[x] IN
             /\ g.state \in {"WAITING", "POSSIBLE", "RECOGNIZING"} \cup Over
             /\ g.rel \cup g.cancels \cup g.can_not_cancel \subseteq All \ {x}
             /\ g.state = "WAITING" => g.seqs = <<>>
             /\ \A d \in ToSet(g.seqs) : d.buttons >= 0
  <2>1. s.ges[x].state \in {"WAITING", "POSSIBLE", "RECOGNIZING"} \cup Over
    BY <1>2 DEF Gesture, States, Over
  <2>2. s.ges[x].rel \cup s.ges[x].cancels \cup s.ges[x].can_not_cancel \subseteq All \ {x}
    BY <1>1, <1>2 DEF Gesture, Sound
  <2>3. s.ges[x].state = "WAITING" => s.ges[x].seqs = <<>>
    BY <1>1 DEF Sound
  <2>4. ASSUME NEW d \in ToSet(s.ges[x].seqs) PROVE d.buttons >= 0
    <3>1. PICK i \in DOMAIN s.ges[x].seqs : d = s.ges[x].seqs[i]
      BY DEF ToSet
    <3>2. d \in Datum
      BY <1>1, <3>1, SpriteOf
    <3> QED BY <3>2 DEF Datum
  <2> QED BY <2>1, <2>2, <2>3, <2>4
<1>4. ToSet(emission.rest) \subseteq All
  <2>1. emission.rest \in Seq(All)
    BY <1>1, EmissionFacts
  <2>2. \A i \in DOMAIN emission.rest : emission.rest[i] \in All
    BY <2>1, ElementOfSeq, LenProperties
  <2> QED BY <2>2 DEF ToSet
<1>5. TypeOK
  BY <1>2, <1>3, <1>4 DEF TypeOK
<1>6. s.active = {x \in All : s.ges[x].state # "WAITING"}
  BY <1>1, <1>2 DEF Sound
<1>7. ASSUME NEW x \in All, NEW y \in s.ges[x].rel
      PROVE  {x, y} \subseteq s.active /\ x \in s.ges[y].rel
  <2>1. y \in All
    BY <1>2 DEF Gesture
  <2> QED BY <1>1, <2>1 DEF Sound
<1>8. RelationsAgree
  BY <1>6, <1>7 DEF RelationsAgree
<1> QED BY <1>5, <1>8

(* The state is well-typed, relationships are mutual and between active    *)
(* gestures, and the list of the stage is of the active gestures, which is *)
(* what set_state and maybe_influence_other_gestures assert.               *)
THEOREM GesturesAgreeCorrect == Spec => []GesturesAgree
  BY GestureInvariant, Agree, PTL

(* At most one gesture recognizes, but for those related to it of which    *)
(* one does not cancel the other: new_gesture_allowed_to_start and         *)
(* maybe_influence_other_gestures suffice, whoever asks and whenever.      *)
THEOREM SingleRecognizingCorrect == Spec => []SingleRecognizing
<1>1. GestureInv => SingleRecognizing
  BY DEF GestureInv, Held, Single, SingleRecognizing
<1> QED BY <1>1, GestureInvariant, PTL

(* A gesture with a sequence that goes on gets the events of its sprite.   *)
THEOREM HearsOfTheEndCorrect == Spec => []HearsOfTheEnd
<1>1. ASSUME GestureInv PROVE HearsOfTheEnd
  <2> SUFFICES ASSUME NEW x \in All, NEW d \in ToSet(s.ges[x].seqs), ~d.ended
               PROVE  /\ Contains(s.sprites[d.sprite].chain, x)
                      /\ s.sprites[d.sprite].press_count > 0
                      /\ s.ges[x].attached
    BY DEF HearsOfTheEnd
  <2>1. PICK i \in DOMAIN s.ges[x].seqs : d = s.ges[x].seqs[i]
    BY DEF ToSet
  <2>2. Sound(s) /\ Open(s, x, i)
    BY <1>1, <2>1 DEF GestureInv, Held, Open
  <2>3. Linked(s, emission, x, d) /\ d.sprite \in Points
    BY <1>1, <2>1, <2>2, SpriteOf DEF GestureInv, Held
  <2>4. s.sprites[d.sprite].chain \in Seq(All) /\ x \in ToSet(s.sprites[d.sprite].chain)
    BY <2>2, <2>3, SpriteFacts DEF Linked
  <2>5. PICK j \in DOMAIN s.sprites[d.sprite].chain : s.sprites[d.sprite].chain[j] = x
    BY <2>4 DEF ToSet
  <2>6. j \in 1..Len(s.sprites[d.sprite].chain)
    BY <2>4, LenProperties
  <2>7. Contains(s.sprites[d.sprite].chain, x)
    BY <2>5, <2>6 DEF Contains
  <2> QED BY <2>3, <2>7 DEF Linked
<1> QED BY <1>1, GestureInvariant, PTL

(* A gesture that is over waits only for sequences that go on.             *)
THEOREM EndsInWaitingCorrect == Spec => []EndsInWaiting
<1>1. GestureInv => EndsInWaiting
  BY DEF GestureInv, Held, Rested, EndsInWaiting
<1> QED BY <1>1, GestureInvariant, PTL

-----------------------------------------------------------------------------
(* Gestures that can not cancel one another.  Until can_not_cancel is      *)
(* called for gestures that may be related already, what a gesture cancels *)
(* is apart from what it can not.                                          *)
Unopposed ==
    /\ left \in [presses : Int, ops : Int] /\ left.ops <= MaxOps
    /\ left.ops = MaxOps => \A x \in All : s.ges[x].cancels \cap s.ges[x].can_not_cancel = {}

LEMMA SameActs ==
    ASSUME NEW S, NEW T, T.ges = S.ges
    PROVE  Acts(S, T)
  BY DEF Acts, Spares

(* Of the actions that leave the bound on operations alone, none makes a   *)
(* gesture cancel what it can not, and every action spares it.             *)
LEMMA NextActs ==
    ASSUME GestureInv, [Next]_vars
    PROVE  Acts(s, s') \/ ((\E x \in All : SetEnabled(x) \/ SetActor(x) \/ CanNotCancel(x)))
<1>1. Sound(s) /\ Held(s, emission) /\ s \in Stage
  BY DEF GestureInv, Held, Sound
<1>2. ASSUME NEW p \in Points, Press(p) PROVE Acts(s, s')
  BY <1>2, PressHolds
<1>3. ASSUME NEW p \in Points, PressMore(p) PROVE Acts(s, s')
  <2>1. s'.ges = s.ges
    BY <1>1, <1>3 DEF PressMore, Stage
  <2> QED BY <2>1, SameActs
<1>4. ASSUME NEW p \in Points, Propagate(p) PROVE Acts(s, s')
  BY <1>4, SameActs DEF Propagate
<1>5. ASSUME NEW p \in Points, LostGrab(p) PROVE Acts(s, s')
  <2> DEFINE T == CancelOn(s, p, s.sprites[p].chain)
  <2>1. Follows(s, T) /\ Calmed(s, T) /\ Held(T, emission)
    BY <1>1, CancelOnChain
  <2>2. s' = [T EXCEPT !.sprites[p] = [press_count |-> 0, chain |-> <<>>, actors |-> FALSE]]
    BY <1>5 DEF LostGrab
  <2> HIDE DEF T
  <2>3. s'.ges = T.ges
    BY <2>1, <2>2 DEF Held, Sound, Stage
  <2> QED BY <2>1, <2>3, CalmedActs DEF Acts, Spares
<1>6. ASSUME NEW p \in Points, Dropped(p) PROVE Acts(s, s')
  <2>1. PICK X \in (SUBSET ToSet(s.sprites[p].chain)) \ {{}} :
          s' = [CancelOn(s, p, Those(s.sprites[p].chain, X)) EXCEPT
                  !.sprites[p].chain = Those(@, All \ X)]
    BY <1>6 DEF Dropped
  <2> DEFINE gone == Those(s.sprites[p].chain, X)
             T == CancelOn(s, p, gone)
  <2>2. s.sprites[p].chain \in Seq(All) /\ \A x \in All : Distinct(s, x)
    BY <1>1, SpriteFacts DEF Held
  <2>3. gone \in Seq(All)
    BY <2>2, ThoseProperties
  <2> HIDE DEF gone
  <2>4. Calms(s, T, ToSet(gone))
    BY <1>1, <2>2, <2>3, CancelOnDoes
  <2>5. s' = [T EXCEPT !.sprites[p].chain = Those(@, All \ X)]
    BY <2>1 DEF gone
  <2> HIDE DEF T
  <2>6. s'.ges = T.ges
    BY <2>4, <2>5 DEF Calms, Sound, Stage
  <2> QED BY <2>4, <2>6, CalmedActs, SMTT(40) DEF Calms, Acts, Spares
<1>7. CASE EmitToAction
  BY <1>7, EmitToActionHolds
<1>8. ASSUME NEW S \in Stage, NEW p, NEW type PROVE Released(S, p, type).ges = S.ges
  BY DEF Released, Stage
<1>9. CASE Emitted
  BY <1>1, <1>8, <1>9, SameActs DEF Emitted
<1>10. CASE ActorHandles
  <2> DEFINE p == emission.sprite
             T == CancelOn(s, p, s.sprites[p].chain)
             h == [T.sprites[p] EXCEPT !.chain = <<>>]
             U == PutSprite(T, p, h)
  <2>1. p \in Points
    BY <1>1, <1>10, EmissionFacts DEF Held, ActorHandles
  <2>2. Follows(s, T) /\ Calmed(s, T) /\ Held(T, emission)
    BY <1>1, <2>1, CancelOnChain, SMTT(40)
  <2>3. s' = Released(U, p, emission.type)
    BY <1>10 DEF ActorHandles, PutSprite
  <2> HIDE DEF T
  <2>4. Sound(T) /\ T.sprites[p] \in Sprite
    BY <2>1, <2>2, SpriteFacts DEF Held
  <2>5. h \in Sprite
    <3>1. <<>> \in Seq(All)
      OBVIOUS
    <3> QED BY <2>4, <3>1 DEF Sprite
  <2> HIDE DEF h
  <2>6. Sound(U) /\ U.ges = T.ges
    BY <2>1, <2>4, <2>5, SpriteDoes
  <2> HIDE DEF U
  <2>7. s'.ges = T.ges
    BY <1>8, <2>3, <2>6 DEF Sound
  <2> QED BY <2>2, <2>7, CalmedActs, SMTT(40) DEF Acts, Spares
<1>11. ASSUME NEW x \in All, Asks(x) PROVE Acts(s, s')
  BY <1>11, AsksHolds
<1>12. CASE UNCHANGED vars
  BY <1>12, SameActs DEF vars
<1> QED
  BY <1>2, <1>3, <1>4, <1>5, <1>6, <1>7, <1>9, <1>10, <1>11, <1>12 DEF Next

LEMMA InitUnopposed == Init => Unopposed
<1> SUFFICES ASSUME Init PROVE Unopposed
  OBVIOUS
<1>1. PICK keeps \in Keeps :
        s = [ges |-> [x \in All |->
               [state |-> "WAITING", seqs |-> <<>>, rel |-> {}, cancels |-> {},
                can_not_cancel |-> keeps[x], list |-> FALSE, attached |-> TRUE,
                enabled |-> TRUE]],
             active |-> {},
             sprites |-> [p \in Points |->
               [press_count |-> 0, chain |-> <<>>, actors |-> FALSE]],
             failed |-> FALSE]
  BY DEF Init
<1>2. \A x \in All : s.ges[x].cancels = {}
  <2>1. s.ges = [x \in All |->
               [state |-> "WAITING", seqs |-> <<>>, rel |-> {}, cancels |-> {},
                can_not_cancel |-> keeps[x], list |-> FALSE, attached |-> TRUE,
                enabled |-> TRUE]]
    BY <1>1
  <2> QED BY <2>1
<1>3. left = [presses |-> MaxPresses, ops |-> MaxOps]
  BY DEF Init
<1>4. MaxPresses \in Nat /\ MaxOps \in Nat
  BY GestureAssumption
<1> QED BY <1>2, <1>3, <1>4 DEF Unopposed

LEMMA NextUnopposed ==
    ASSUME GestureInv, Unopposed, [Next]_vars
    PROVE  Unopposed'
<1>1. MaxOps \in Nat /\ left \in [presses : Int, ops : Int] /\ left.ops <= MaxOps
  BY GestureAssumption DEF Unopposed
<1>2. CASE left' = [left EXCEPT !.ops = @ - 1]
  BY <1>1, <1>2 DEF Unopposed
<1>3. CASE left' = [left EXCEPT !.presses = @ - 1] \/ left' = left
  <2>1. left' \in [presses : Int, ops : Int] /\ left'.ops = left.ops
    BY <1>1, <1>3, SMTT(40)
  <2>2. ~(\E x \in All : SetEnabled(x) \/ SetActor(x) \/ CanNotCancel(x))
    <3>1. left' # [left EXCEPT !.ops = @ - 1]
      <4>1. [left EXCEPT !.ops = @ - 1].ops = left.ops - 1
        BY <1>1
      <4> QED BY <1>1, <2>1, <4>1
    <3> QED BY <3>1 DEF SetEnabled, SetActor, CanNotCancel
  <2>3. Acts(s, s')
    BY <2>2, NextActs, SMTT(40)
  <2> QED BY <1>1, <2>1, <2>3 DEF Unopposed, Acts
<1>4. \/ left' = [left EXCEPT !.ops = @ - 1]
      \/ left' = [left EXCEPT !.presses = @ - 1] \/ left' = left
  BY DEF Next, Press, PressMore, Propagate, LostGrab, Dropped, EmitToAction, Emitted,
         ActorHandles, Asks, SetEnabled, SetActor, CanNotCancel, vars
<1> QED BY <1>2, <1>3, <1>4

(* Setting flags changes no state but to cancel.                           *)
LEMMA FlagsSpare ==
    ASSUME GestureInv, NEW x \in All, SetEnabled(x) \/ SetActor(x) \/ CanNotCancel(x)
    PROVE  \A y \in All : ~(s.ges[y].state = "POSSIBLE"
                              /\ s'.ges[y].state \in {"RECOGNIZING", "COMPLETED"})
<1> DEFINE W == cancel_all_points(s, x)
<1>1. Sound(s) /\ s \in Stage
  BY DEF GestureInv, Held, Sound
<1>2. Calms(s, W, {x})
  BY <1>1, CancelAllPointsDoes
<1>3. W \in Stage /\ Calmed(s, W)
  BY <1>2 DEF Calms, Sound
<1>4. ASSUME NEW S \in Stage, NEW h, h.state = S.ges[x].state
      PROVE  \A y \in All : Put(S, x, h).ges[y].state = S.ges[y].state
  BY <1>4 DEF Put, Stage
<1>5. CASE SetEnabled(x)
  <2> DEFINE on == ~s.ges[x].enabled
             V == IF on THEN s ELSE W
             h == [V.ges[x] EXCEPT !.enabled = on]
  <2>1. s' = Put(V, x, h)
    BY <1>5 DEF SetEnabled, Put
  <2>2. V \in Stage /\ (V = s \/ V = W)
    BY <1>1, <1>3
  <2> HIDE DEF V, W
  <2>3. h.state = V.ges[x].state
    BY <2>2 DEF Stage, Gesture
  <2> HIDE DEF h
  <2>4. \A y \in All : s'.ges[y].state = V.ges[y].state
    BY <1>4, <2>1, <2>2, <2>3
  <2> QED BY <1>3, <2>2, <2>4 DEF Calmed
<1>6. CASE SetActor(x)
  <2> DEFINE h == [W.ges[x] EXCEPT !.attached = ~W.ges[x].attached,
                                   !.list = W.ges[x].list /\ ~s.ges[x].attached]
  <2>1. s' = [W EXCEPT !.ges[x].attached = ~@, !.ges[x].list = @ /\ ~s.ges[x].attached]
    BY <1>6 DEF SetActor
  <2> HIDE DEF W
  <2>2. s' = Put(W, x, h)
    BY <1>3, <2>1 DEF Put, Stage, Gesture
  <2>3. h.state = W.ges[x].state
    BY <1>3 DEF Stage, Gesture
  <2> HIDE DEF h
  <2>4. \A y \in All : s'.ges[y].state = W.ges[y].state
    BY <1>3, <1>4, <2>2, <2>3
  <2> QED BY <1>3, <2>4 DEF Calmed
<1>7. CASE CanNotCancel(x)
  <2>1. PICK y \in All : s' = [s EXCEPT !.ges[x].can_not_cancel = @ \cup {y}]
    BY <1>7 DEF CanNotCancel
  <2> DEFINE h == [s.ges[x] EXCEPT !.can_not_cancel = @ \cup {y}]
  <2>2. s' = Put(s, x, h)
    BY <2>1 DEF Put
  <2>3. h.state = s.ges[x].state
    BY <1>1 DEF Stage, Gesture
  <2> HIDE DEF h
  <2>4. \A z \in All : s'.ges[z].state = s.ges[z].state
    BY <1>1, <1>4, <2>2, <2>3
  <2> QED BY <2>4
<1> QED BY <1>5, <1>6, <1>7

(* clutter_gesture_can_not_cancel, called before the points: when a        *)
(* gesture recognizes, those of its relationships that it can not cancel   *)
(* keep their states.                                                      *)
THEOREM RespectsCanNotCancelCorrect == Spec => RespectsCanNotCancel
<1>1. Init => Unopposed
  BY InitUnopposed
<1>2. GestureInv /\ Unopposed /\ [Next]_vars => Unopposed'
  BY NextUnopposed
<1>3. ASSUME GestureInv, Unopposed, [Next]_vars,
             NEW x \in All, NEW y \in s.ges[x].can_not_cancel \cap s.ges[x].rel,
             left.ops = MaxOps, s.ges[x].state = "POSSIBLE",
             s'.ges[x].state \in {"RECOGNIZING", "COMPLETED"}
      PROVE  s'.ges[y].state = s.ges[y].state
  <2>1. y \notin s.ges[x].cancels
    BY <1>3 DEF Unopposed
  <2>2. ~\E z \in All : SetEnabled(z) \/ SetActor(z) \/ CanNotCancel(z)
    BY <1>3, FlagsSpare
  <2>3. Acts(s, s')
    BY <1>3, <2>2, NextActs
  <2> QED BY <1>3, <2>1, <2>3 DEF Acts, Spares
<1>4. GestureInv /\ Unopposed /\ [Next]_vars =>
        [\A x \in All : \A y \in s.ges[x].can_not_cancel \cap s.ges[x].rel :
           /\ left.ops = MaxOps
           /\ s.ges[x].state = "POSSIBLE"
           /\ s'.ges[x].state \in {"RECOGNIZING", "COMPLETED"}
           => s'.ges[y].state = s.ges[y].state]_vars
  BY <1>3
<1> QED BY <1>1, <1>2, <1>4, GestureInvariant, PTL DEF Spec, RespectsCanNotCancel

=============================================================================
