------------------------- MODULE OnscreenNativeProofs -------------------------
(***************************************************************************)
(* What OnscreenNative promises for any number of frames and changes of    *)
(* gamma, in each world a behaviour may have.                              *)
(***************************************************************************)
EXTENDS OnscreenNative, SequenceTheorems, TLAPS

Gammas == 0..MaxGammas + 1

Frames == [id : 1..MaxFrames, buffer : BOOLEAN, scanout : BOOLEAN,
           update : BOOLEAN, gamma : Gammas] \cup {NoFrame}

Infos == [id : 1..MaxFrames, counter : Nat]

Listeners == {"scanout", "swap_buffer", "finish_frame"}

Updates == [id : 1..MaxFrames, gamma : Gammas, listeners : Seq(Listeners)] \cup {NoUpdate}

Warnings == {"not dispatched", "no frame info", "released with update"}

Onscreens == [presented : 0..MaxFrames, posted : Frames, superseded : Frames,
              next : Frames, infos : Seq(Infos), counter : Nat,
              gamma : [invalidated : BOOLEAN, target : Nat], needs_flush : BOOLEAN,
              dummy_flip : BOOLEAN, warnings : SUBSET Warnings]

States == [o : Onscreens, kms : Updates, clock : 0..2]

(* Nothing happens but frames and changes of gamma.                        *)
Calm == world \subseteq {"undamaged", "gamma"}

One(b) == IF b THEN 1 ELSE 0

(* Which of the slots are taken: P, U and N are the posted, superseded and *)
(* next frame, k the update in KMS and d whether the timer is queued.      *)
Slots(P, U, N, k, d) ==
    /\ (k = NoUpdate) <=> (P = NoFrame)
    /\ P # NoFrame => k.id = P.id
    /\ U # NoFrame => N # NoFrame
    /\ Calm => U = NoFrame /\ ~d
    /\ "undamaged" \notin world =>
         /\ P # NoFrame => P.buffer
         /\ U # NoFrame => U.buffer
         /\ N # NoFrame => N.buffer
         /\ k # NoUpdate => Len(k.listeners) = 1

Shape(P, U, N, k, d) ==
    /\ Slots(P, U, N, k, d)
    /\ "refused" \notin world /\ N # NoFrame => P # NoFrame \/ d

(* How the frame infos I and the c frames of the clock match the slots.    *)
Books(P, U, N, I, c) ==
    LET p == One(P # NoFrame)
        u == One(U.buffer)
        n == One(N.buffer)
    IN /\ Len(I) = p + u + n
       /\ "swap" \notin world =>
            /\ c = p + One(U # NoFrame) + One(N # NoFrame)
            /\ P # NoFrame => I[1].id = P.id
            /\ U.buffer => I[p + 1].id = U.id
            /\ N.buffer => I[p + u + 1].id = N.id

(* The newest gamma w is in the kernel, which has h, or it will be drawn,  *)
(* or it is in the waiting or in the posted frame, whose counter then is   *)
(* the target. Gammas reach the kernel in the order they were asked for.   *)
GammaInv(N, I, k, G, C, h, w) ==
    /\ C > 0
    /\ \A i \in 1..Len(I) : I[i].counter \in 1..C - 1
    /\ Len(I) = 2 => I[1].counter < I[2].counter
    /\ h <= w /\ k.gamma <= w /\ N.gamma <= w
    /\ k.gamma # 0 => h <= k.gamma
    /\ N.gamma # 0 => h <= N.gamma /\ k.gamma <= N.gamma
    /\ \/ h = w
       \/ G.invalidated
       \/ N.gamma = w /\ G.target = I[Len(I)].counter
       \/ k.gamma = w /\ G.target = I[1].counter

Typed ==
    /\ State \in States
    /\ hw \in Gammas /\ wanted \in 1..MaxGammas + 1 /\ drawn \in 0..MaxFrames
    /\ power_save \in BOOLEAN /\ (power_save => "power" \in world)

OnscreenInv ==
    /\ Typed
    /\ Tame => /\ Shape(o.posted, o.superseded, o.next, kms, o.dummy_flip)
               /\ Books(o.posted, o.superseded, o.next, o.infos, clock)
    /\ world = {"gamma"} /\ FirstCounter > 0 =>
         GammaInv(o.next, o.infos, kms, o.gamma, o.counter, hw, wanted)

-----------------------------------------------------------------------------
(* The fields of a state that the invariant is about.                      *)
Is(s, P, U, N, I, k, c, d, G, C) ==
    /\ s \in States
    /\ s.o.posted = P /\ s.o.superseded = U /\ s.o.next = N /\ s.o.infos = I
    /\ s.kms = k /\ s.clock = c /\ s.o.dummy_flip = d /\ s.o.gamma = G /\ s.o.counter = C

(* What a completion leaves of the infos, and of the clock's frames.       *)
Dec(c) == IF c > 0 THEN c - 1 ELSE c
Rest(I) == IF I = <<>> THEN I ELSE Tail(I)
Left(I, c) == IF I = <<>> THEN c ELSE Dec(c)

LEMMA NoFrameProperties ==
    /\ NoFrame \in Frames /\ ~NoFrame.buffer /\ NoFrame.gamma = 0 /\ NoFrame.id = 0
    /\ NoUpdate \in Updates /\ NoUpdate.gamma = 0
    /\ \A f \in Frames : /\ f.id \in 0..MaxFrames /\ f.buffer \in BOOLEAN
                         /\ f.update \in BOOLEAN /\ f.gamma \in Gammas
                         /\ f.scanout \in BOOLEAN
                         /\ f # NoFrame => f.id \in 1..MaxFrames
    /\ \A k \in Updates : k.gamma \in Gammas
<1>1. 0 \in Gammas /\ 0 \in 0..MaxFrames /\ \A n \in 1..MaxFrames : n \in 0..MaxFrames /\ n # 0
  BY OnscreenAssumption DEF Gammas
<1>2. /\ NoFrame \in Frames /\ ~NoFrame.buffer /\ NoFrame.gamma = 0 /\ NoFrame.id = 0
      /\ NoFrame.update = FALSE /\ NoFrame.scanout = FALSE
  BY DEF Frames, NoFrame
<1>3. NoUpdate \in Updates /\ NoUpdate.gamma = 0
  BY DEF Updates, NoUpdate
<1>4. ASSUME NEW f \in Frames
      PROVE  /\ f.id \in 0..MaxFrames /\ f.buffer \in BOOLEAN
             /\ f.update \in BOOLEAN /\ f.gamma \in Gammas
             /\ f.scanout \in BOOLEAN
             /\ f # NoFrame => f.id \in 1..MaxFrames
  <2>1. CASE f = NoFrame
    <3>1. NoFrame.buffer \in BOOLEAN /\ NoFrame.update \in BOOLEAN /\ NoFrame.scanout \in BOOLEAN
      BY DEF NoFrame
    <3> QED BY <1>1, <1>2, <2>1, <3>1
  <2>2. CASE f # NoFrame
    <3>1. f \in [id : 1..MaxFrames, buffer : BOOLEAN, scanout : BOOLEAN,
                 update : BOOLEAN, gamma : Gammas]
      BY <2>2 DEF Frames
    <3>2. /\ f.id \in 1..MaxFrames /\ f.buffer \in BOOLEAN
          /\ f.update \in BOOLEAN /\ f.gamma \in Gammas /\ f.scanout \in BOOLEAN
      BY <3>1
    <3> QED BY <1>1, <3>2
  <2> QED BY <2>1, <2>2
<1>5. ASSUME NEW k \in Updates
      PROVE  k.gamma \in Gammas
  BY <1>1, <1>3 DEF Updates
<1> QED BY <1>2, <1>3, <1>4, <1>5

LEMMA StateFields ==
    ASSUME NEW s \in States
    PROVE  /\ s.o \in Onscreens /\ s.kms \in Updates /\ s.clock \in 0..2
           /\ s.o.posted \in Frames /\ s.o.superseded \in Frames /\ s.o.next \in Frames
           /\ s.o.infos \in Seq(Infos) /\ s.o.counter \in Nat /\ s.o.presented \in 0..MaxFrames
           /\ s.o.gamma \in [invalidated : BOOLEAN, target : Nat]
           /\ s.o.needs_flush \in BOOLEAN /\ s.o.dummy_flip \in BOOLEAN
           /\ s.o.warnings \in SUBSET Warnings
BY DEF States, Onscreens

LEMMA OnscreenChanged ==
    ASSUME NEW s \in States, NEW x \in Onscreens
    PROVE  /\ [s EXCEPT !.o = x] \in States /\ [s EXCEPT !.o = x].o = x
           /\ [s EXCEPT !.o = x].kms = s.kms /\ [s EXCEPT !.o = x].clock = s.clock
BY DEF States

LEMMA RestProperties ==
    ASSUME NEW I \in Seq(Infos)
    PROVE  /\ Rest(I) \in Seq(Infos) /\ Len(Rest(I)) = Dec(Len(I)) /\ Len(I) \in Nat
           /\ \A i \in 1..Len(I) - 1 : Rest(I)[i] = I[i + 1]
           /\ I = <<>> <=> Len(I) = 0
<1>1. Len(I) \in Nat
  BY LenProperties
<1>2. CASE I = <<>>
  <2>1. Rest(I) = I /\ Len(I) = 0
    BY <1>2, EmptySeq DEF Rest
  <2>2. Len(Rest(I)) = Dec(Len(I)) /\ \A i \in 1..Len(I) - 1 : FALSE
    BY <2>1 DEF Dec
  <2> QED BY <1>1, <1>2, <2>1, <2>2
<1>3. CASE I # <<>>
  <2>1. /\ Tail(I) \in Seq(Infos) /\ Len(Tail(I)) = Len(I) - 1
        /\ \A i \in 1..Len(Tail(I)) : Tail(I)[i] = I[i + 1]
        /\ Len(I) \in Nat \ {0}
    BY <1>3, HeadTailProperties, EmptySeq
  <2>2. Rest(I) = Tail(I)
    BY <1>3 DEF Rest
  <2>3. Len(I) # 0 /\ Len(I) - 1 = Len(Tail(I))
    BY <2>1
  <2>4. \A n \in Nat : n # 0 => Dec(n) = n - 1
    BY DEF Dec
  <2> QED BY <1>1, <1>3, <2>1, <2>2, <2>3, <2>4
<1> QED BY <1>2, <1>3

LEMMA NotifyClock ==
    ASSUME NEW s, NEW P, NEW U, NEW N, NEW I, NEW k, NEW c, NEW d, NEW G, NEW C,
           Is(s, P, U, N, I, k, c, d, G, C)
    PROVE  Is(notify_clock(s), P, U, N, I, k, Dec(c), d, G, C)
<1>1. s \in States /\ s.clock = c /\ c \in 0..2
  BY StateFields DEF Is
<1>2. CASE s.clock > 0
  <2>1. notify_clock(s) = [s EXCEPT !.clock = s.clock - 1]
    BY <1>2 DEF notify_clock
  <2>2. s.clock - 1 \in 0..2 /\ Dec(c) = s.clock - 1
    BY <1>1, <1>2 DEF Dec
  <2>3. /\ notify_clock(s) \in States /\ notify_clock(s).clock = s.clock - 1
        /\ notify_clock(s).o = s.o /\ notify_clock(s).kms = s.kms
    BY <1>1, <2>1, <2>2 DEF States
  <2> QED BY <2>2, <2>3 DEF Is
<1>3. CASE ~(s.clock > 0)
  <2> DEFINE x == [s.o EXCEPT !.warnings = s.o.warnings \cup {"not dispatched"}]
  <2>0. s.o \in Onscreens /\ s.o.warnings \cup {"not dispatched"} \in SUBSET Warnings
    BY <1>1, StateFields DEF Warnings
  <2>1. notify_clock(s) = [s EXCEPT !.o = x]
    BY <1>3 DEF notify_clock
  <2>2. x \in Onscreens
        /\ x.posted = s.o.posted /\ x.superseded = s.o.superseded /\ x.next = s.o.next
        /\ x.infos = s.o.infos /\ x.dummy_flip = s.o.dummy_flip /\ x.gamma = s.o.gamma
        /\ x.counter = s.o.counter
    BY <2>0 DEF Onscreens
  <2>3. Dec(c) = c
    BY <1>1, <1>3 DEF Dec
  <2> HIDE DEF x
  <2> QED BY <1>1, <2>1, <2>2, <2>3, OnscreenChanged DEF Is
<1> QED BY <1>2, <1>3

LEMMA FrameComplete ==
    ASSUME NEW s, NEW P, NEW U, NEW N, NEW I, NEW k, NEW c, NEW d, NEW G, NEW C,
           Is(s, P, U, N, I, k, c, d, G, C)
    PROVE  Is(notify_frame_complete(s), P, U, N, Rest(I), k, Left(I, c), d, G, C)
<1>1. s \in States /\ s.o.infos = I /\ I \in Seq(Infos)
  BY StateFields DEF Is
<1>2. CASE I = <<>>
  BY <1>1, <1>2 DEF notify_frame_complete, Rest, Left
<1>3. CASE I # <<>>
  <2> DEFINE x == [s.o EXCEPT !.infos = Tail(s.o.infos)]
             t == [s EXCEPT !.o = x]
  <2>1. notify_frame_complete(s) = notify_clock(t)
    BY <1>1, <1>3 DEF notify_frame_complete
  <2>2. Tail(I) \in Seq(Infos)
    BY <1>1, <1>3, HeadTailProperties
  <2>3. x \in Onscreens /\ x.infos = Tail(I)
        /\ x.posted = s.o.posted /\ x.superseded = s.o.superseded /\ x.next = s.o.next
        /\ x.dummy_flip = s.o.dummy_flip /\ x.gamma = s.o.gamma /\ x.counter = s.o.counter
    BY <1>1, <2>2, StateFields DEF Onscreens
  <2> HIDE DEF x
  <2>4. Is(t, P, U, N, Tail(I), k, c, d, G, C)
    BY <1>1, <2>3, OnscreenChanged DEF Is
  <2> HIDE DEF t
  <2>5. Is(notify_clock(t), P, U, N, Tail(I), k, Dec(c), d, G, C)
    BY <2>4, NotifyClock
  <2> QED BY <1>3, <2>1, <2>5 DEF Rest, Left
<1> QED BY <1>2, <1>3

LEMMA Released ==
    ASSUME NEW s, NEW P, NEW U, NEW N, NEW I, NEW k, NEW c, NEW d, NEW G, NEW C, NEW f,
           Is(s, P, U, N, I, k, c, d, G, C)
    PROVE  Is(release(s, f), P, U, N, I, k, c, d, G, C)
<1>1. s \in States
  BY DEF Is
<1>2. CASE ~f.update
  BY <1>2 DEF release
<1>3. CASE f.update
  <2> DEFINE x == [s.o EXCEPT !.warnings = s.o.warnings \cup {"released with update"}]
  <2>0. s.o \in Onscreens /\ s.o.warnings \cup {"released with update"} \in SUBSET Warnings
    BY <1>1, StateFields DEF Warnings
  <2>1. release(s, f) = [s EXCEPT !.o = x]
    BY <1>3 DEF release
  <2>2. x \in Onscreens
        /\ x.posted = s.o.posted /\ x.superseded = s.o.superseded /\ x.next = s.o.next
        /\ x.infos = s.o.infos /\ x.dummy_flip = s.o.dummy_flip /\ x.gamma = s.o.gamma
        /\ x.counter = s.o.counter
    BY <2>0 DEF Onscreens
  <2> HIDE DEF x
  <2> QED BY <1>1, <2>1, <2>2, OnscreenChanged DEF Is
<1> QED BY <1>2, <1>3

LEMMA SupersededCleared ==
    ASSUME NEW s, NEW P, NEW U, NEW N, NEW I, NEW k, NEW c, NEW d, NEW G, NEW C,
           Is(s, P, U, N, I, k, c, d, G, C)
    PROVE  IF U = NoFrame
           THEN Is(clear_superseded_frame(s), P, U, N, I, k, c, d, G, C)
           ELSE Is(clear_superseded_frame(s), P, NoFrame, N, Rest(I), k, Left(I, c), d, G, C)
<1>1. s \in States /\ s.o.superseded = U
  BY DEF Is
<1>2. CASE U = NoFrame
  BY <1>1, <1>2 DEF clear_superseded_frame
<1>3. CASE U # NoFrame
  <2> DEFINE x == [s.o EXCEPT !.superseded = NoFrame]
             t == [s EXCEPT !.o = x]
  <2>1. clear_superseded_frame(s) = notify_frame_complete(release(t, U))
    BY <1>1, <1>3 DEF clear_superseded_frame
  <2>2. x \in Onscreens /\ x.superseded = NoFrame
        /\ x.posted = s.o.posted /\ x.next = s.o.next /\ x.infos = s.o.infos
        /\ x.dummy_flip = s.o.dummy_flip /\ x.gamma = s.o.gamma /\ x.counter = s.o.counter
    BY <1>1, StateFields, NoFrameProperties DEF Onscreens
  <2> HIDE DEF x
  <2>3. Is(t, P, NoFrame, N, I, k, c, d, G, C)
    BY <1>1, <2>2, OnscreenChanged DEF Is
  <2> HIDE DEF t
  <2>4. Is(release(t, U), P, NoFrame, N, I, k, c, d, G, C)
    BY <2>3, Released
  <2>5. Is(notify_frame_complete(release(t, U)), P, NoFrame, N, Rest(I), k, Left(I, c), d, G, C)
    BY <2>4, FrameComplete
  <2> QED BY <1>3, <2>1, <2>5
<1> QED BY <1>2, <1>3

-----------------------------------------------------------------------------
(* What can be said of the slots and the books when a frame moves, without *)
(* regard to the records they are kept in.                                 *)
LEMMA Appended ==
    ASSUME NEW I \in Seq(Infos), NEW x \in Infos
    PROVE  /\ Append(I, x) \in Seq(Infos) /\ Len(Append(I, x)) = Len(I) + 1
           /\ \A i \in 1..Len(I) : Append(I, x)[i] = I[i]
           /\ Append(I, x)[Len(I) + 1] = x
BY AppendProperties

(* The next frame becomes the posted one, and what it superseded is        *)
(* completed.                                                              *)
LEMMA PostedBooks ==
    ASSUME Tame,
           NEW U \in Frames, NEW N \in Frames, NEW I \in Seq(Infos), NEW k \in Updates,
           NEW c \in 0..2, NEW d \in BOOLEAN, NEW Q, NEW l \in Updates, NEW x \in Infos,
           N # NoFrame, Q # NoFrame, Q.id = N.id, Q.buffer = N.buffer,
           l # NoUpdate, l.id = N.id, N.buffer => Len(l.listeners) = 1,
           x.id = N.id,
           Slots(NoFrame, U, N, k, d), Books(NoFrame, U, N, I, c)
    PROVE  LET J == IF U = NoFrame THEN I ELSE Rest(I)
               e == IF U = NoFrame THEN c ELSE Left(I, c)
           IN /\ Shape(Q, NoFrame, NoFrame, l, d)
              /\ Books(Q, NoFrame, NoFrame, IF N.buffer THEN J ELSE Append(J, x), e)
<1> DEFINE J == IF U = NoFrame THEN I ELSE Rest(I)
           e == IF U = NoFrame THEN c ELSE Left(I, c)
           K == IF N.buffer THEN J ELSE Append(J, x)
<1>1. Shape(Q, NoFrame, NoFrame, l, d)
  BY NoFrameProperties DEF Shape, Slots
<1>2. /\ ~NoFrame.buffer /\ Len(I) \in Nat
      /\ Len(I) = One(U.buffer) + One(N.buffer)
      /\ "swap" \notin world =>
           /\ c = One(U # NoFrame) + 1
           /\ U.buffer => I[1].id = U.id
           /\ N.buffer => I[One(U.buffer) + 1].id = N.id
  BY NoFrameProperties, RestProperties DEF Books, One
<1>3. CASE U = NoFrame /\ N.buffer
  <2>1. K = I /\ e = c
    BY <1>3
  <2> HIDE DEF K, e
  <2>2. Books(Q, NoFrame, NoFrame, K, e)
    BY <1>2, <1>3, <2>1 DEF Books, One
  <2> QED BY <1>1, <2>2 DEF K, e
<1>4. CASE U = NoFrame /\ ~N.buffer
  <2>1. K = Append(I, x) /\ e = c
    BY <1>4
  <2>2. Len(I) = 0
    BY <1>2, <1>4 DEF One
  <2>3. Len(K) = 1 /\ K[1] = x
    BY <2>1, <2>2, Appended
  <2> HIDE DEF K, e
  <2>4. Books(Q, NoFrame, NoFrame, K, e)
    BY <1>2, <1>4, <2>1, <2>3 DEF Books, One
  <2> QED BY <1>1, <2>4 DEF K, e
<1>5. CASE U # NoFrame
  <2>1. U.buffer /\ N.buffer
    BY <1>5 DEF Slots, Calm, Tame
  <2>2. K = Rest(I) /\ e = Left(I, c)
    BY <1>5, <2>1
  <2>3. Len(I) = 2
    BY <1>2, <2>1 DEF One
  <2>4. Len(Rest(I)) = 1 /\ Rest(I)[1] = I[2] /\ I # <<>>
    <3>1. Dec(2) = 1 /\ 1 \in 1..2 - 1 /\ 1 + 1 = 2 /\ 2 # 0
      BY DEF Dec
    <3>2. /\ Len(Rest(I)) = Dec(Len(I)) /\ (I = <<>> <=> Len(I) = 0)
          /\ \A i \in 1..Len(I) - 1 : Rest(I)[i] = I[i + 1]
      BY RestProperties
    <3>3. \A i \in 1..2 - 1 : Rest(I)[i] = I[i + 1]
      BY <2>3, <3>2
    <3>4. Rest(I)[1] = I[1 + 1]
      BY <3>1, <3>3
    <3> QED BY <2>3, <3>1, <3>2, <3>4
  <2>5. "swap" \notin world => c = 2 /\ I[2].id = N.id /\ Left(I, c) = 1
    <3>1. ASSUME "swap" \notin world PROVE c = 2 /\ I[2].id = N.id
      BY <1>2, <1>5, <2>1, <3>1 DEF One
    <3>2. ASSUME c = 2 PROVE Left(I, c) = 1
      BY <2>4, <3>2 DEF Left, Dec
    <3> QED BY <3>1, <3>2
  <2> HIDE DEF K, e
  <2>6. Books(Q, NoFrame, NoFrame, K, e)
    BY <1>2, <2>2, <2>4, <2>5 DEF Books, One
  <2> QED BY <1>1, <2>6 DEF K, e
<1> QED BY <1>3, <1>4, <1>5, NoFrameProperties

(* A drawn frame becomes the next one. What waited was drawn before the    *)
(* clock knew fewer than two frames, so nothing waits where frames without *)
(* damage or posted frames are about.                                      *)
LEMMA QueuedBooks ==
    ASSUME Tame,
           NEW P \in Frames, NEW U \in Frames, NEW N \in Frames, NEW I \in Seq(Infos),
           NEW k \in Updates, NEW c \in 0..1, NEW d \in BOOLEAN,
           NEW f \in Frames, NEW x \in Infos, f # NoFrame, f.buffer, x.id = f.id,
           Shape(P, U, N, k, d), Books(P, U, N, I, c)
    PROVE  LET J == IF U = NoFrame THEN Append(I, x) ELSE Rest(Append(I, x))
               e == IF U = NoFrame THEN c + 1 ELSE Left(Append(I, x), c + 1)
           IN /\ N = NoFrame => /\ U = NoFrame /\ Slots(P, U, f, k, d)
                                /\ Books(P, U, f, Append(I, x), c + 1)
              /\ N # NoFrame => Slots(P, N, f, k, d) /\ Books(P, N, f, J, e)
<1>1. /\ ~NoFrame.buffer /\ Len(I) \in Nat
      /\ Len(I) = One(P # NoFrame) + One(U.buffer) + One(N.buffer)
      /\ "swap" \notin world =>
           /\ c = One(P # NoFrame) + One(U # NoFrame) + One(N # NoFrame)
           /\ P # NoFrame => I[1].id = P.id
           /\ U.buffer => I[One(P # NoFrame) + 1].id = U.id
           /\ N.buffer => I[One(P # NoFrame) + One(U.buffer) + 1].id = N.id
  BY NoFrameProperties, RestProperties DEF Books, One
<1> DEFINE A == Append(I, x)
<1>2. /\ A \in Seq(Infos) /\ Len(A) = Len(I) + 1
      /\ \A i \in 1..Len(I) : A[i] = I[i]
      /\ A[Len(I) + 1] = x
  BY Appended
<1> HIDE DEF A
<1>3. CASE N = NoFrame
  <2>1. U = NoFrame /\ Slots(P, U, f, k, d)
    BY <1>3 DEF Shape, Slots
  <2>2. Len(I) = One(P # NoFrame)
    BY <1>1, <1>3, <2>1 DEF One
  <2>3. P # NoFrame => Len(A) = 2 /\ A[1] = I[1] /\ A[2] = x
    <3>1. 1 \in 1..1 /\ 1 + 1 = 2
      OBVIOUS
    <3> QED BY <1>2, <2>2, <3>1 DEF One
  <2>4. P = NoFrame => Len(A) = 1 /\ A[1] = x
    <3>1. 0 + 1 = 1
      OBVIOUS
    <3> QED BY <1>2, <2>2, <3>1 DEF One
  <2>5. Books(P, U, f, A, c + 1)
    <3>1. CASE P # NoFrame
      BY <1>1, <1>3, <2>1, <2>3, <3>1 DEF Books, One
    <3>2. CASE P = NoFrame
      BY <1>1, <1>3, <2>1, <2>4, <3>2 DEF Books, One
    <3> QED BY <3>1, <3>2
  <2> QED BY <1>3, <2>1, <2>5 DEF A
<1>4. CASE N # NoFrame
  <2>1. "swap" \notin world => P = NoFrame /\ U = NoFrame
    BY <1>1, <1>4 DEF One
  <2>2. ~Calm
    <3>1. ASSUME Calm PROVE FALSE
      <4>1. "swap" \notin world /\ "refused" \notin world
        BY <3>1 DEF Calm
      <4> QED BY <1>4, <2>1, <3>1, <4>1 DEF Shape, Slots
    <3> QED BY <3>1
  <2>3. "undamaged" \notin world
    BY <2>2 DEF Tame, Calm
  <2>4. N.buffer /\ (U # NoFrame => U.buffer)
    BY <1>4, <2>3 DEF Shape, Slots
  <2>5. Slots(P, N, f, k, d)
    BY <1>4, <2>2, <2>3, <2>4 DEF Shape, Slots
  <2>6. CASE U = NoFrame
    <3>1. Len(I) = One(P # NoFrame) + 1
      BY <1>1, <2>4, <2>6 DEF One
    <3>2. P = NoFrame => A[1] = I[1] /\ A[2] = x
      <4>1. 1 \in 1..1 /\ 1 + 1 = 2 /\ 0 + 1 = 1
        OBVIOUS
      <4> QED BY <1>2, <3>1, <4>1 DEF One
    <3>3. Len(A) = One(P # NoFrame) + 2
      <4>1. \A n \in Nat : One(P # NoFrame) + 1 = n => n + 1 = One(P # NoFrame) + 2
        BY DEF One
      <4> QED BY <1>1, <1>2, <3>1, <4>1
    <3>4. Books(P, N, f, A, c + 1)
      <4>1. CASE "swap" \notin world
        BY <1>1, <1>4, <2>1, <2>4, <3>2, <3>3, <4>1 DEF Books, One
      <4>2. CASE "swap" \in world
        BY <2>4, <3>3, <4>2 DEF Books, One
      <4> QED BY <4>1, <4>2
    <3> QED BY <1>4, <2>5, <2>6, <3>4 DEF A
  <2>7. CASE U # NoFrame
    <3>1. "swap" \in world
      BY <2>1, <2>7
    <3>2. Len(I) = One(P # NoFrame) + 2
      BY <1>1, <2>4, <2>7 DEF One
    <3>3. Len(Rest(A)) = One(P # NoFrame) + 2
      <4>1. \A n \in Nat : One(P # NoFrame) + 2 = n => Dec(n + 1) = One(P # NoFrame) + 2
        BY DEF One, Dec
      <4>2. Len(Rest(A)) = Dec(Len(A))
        BY <1>2, RestProperties
      <4> QED BY <1>1, <1>2, <3>2, <4>1, <4>2
    <3>4. ASSUME NEW e PROVE Books(P, N, f, Rest(A), e)
      BY <2>4, <3>1, <3>3 DEF Books, One
    <3> QED BY <1>4, <2>5, <2>7, <3>4 DEF A
  <2> QED BY <2>6, <2>7
<1> QED BY <1>3, <1>4

(* KMS answers the posted frame.                                           *)
LEMMA AnsweredBooks ==
    ASSUME Tame,
           NEW P \in Frames, NEW U \in Frames, NEW N \in Frames, NEW I \in Seq(Infos),
           NEW k \in Updates, NEW c \in 0..2, NEW d \in BOOLEAN,
           P # NoFrame, Slots(P, U, N, k, d), Books(P, U, N, I, c)
    PROVE  /\ I # <<>> /\ Slots(NoFrame, U, N, NoUpdate, d)
           /\ Books(NoFrame, U, N, Rest(I), Left(I, c))
<1> DEFINE R == Rest(I)
<1>1. /\ Len(I) \in Nat
      /\ Len(I) = 1 + One(U.buffer) + One(N.buffer)
      /\ "swap" \notin world =>
           /\ c = 1 + One(U # NoFrame) + One(N # NoFrame)
           /\ U.buffer => I[2].id = U.id
           /\ N.buffer => I[One(U.buffer) + 2].id = N.id
  BY RestProperties DEF Books, One
<1>2. Slots(NoFrame, U, N, NoUpdate, d)
  BY DEF Slots
<1>3. I # <<>>
  <2>1. Len(I) # 0
    BY <1>1 DEF One
  <2> QED BY <2>1, RestProperties
<1>4. /\ Len(R) = Dec(Len(I))
      /\ \A i \in 1..Len(I) - 1 : R[i] = I[i + 1]
  BY RestProperties
<1> HIDE DEF R
<1>5. Len(R) = One(U.buffer) + One(N.buffer)
  BY <1>1, <1>4 DEF One, Dec
<1>6. U.buffer => R[1] = I[2]
  <2>1. U.buffer => 1 \in 1..Len(I) - 1 /\ 1 + 1 = 2
    BY <1>1 DEF One
  <2> QED BY <1>4, <2>1
<1>7. N.buffer => R[One(U.buffer) + 1] = I[One(U.buffer) + 2]
  <2>1. N.buffer => /\ One(U.buffer) + 1 \in 1..Len(I) - 1
                    /\ (One(U.buffer) + 1) + 1 = One(U.buffer) + 2
    BY <1>1 DEF One
  <2> QED BY <1>4, <2>1
<1>8. "swap" \notin world => Left(I, c) = One(U # NoFrame) + One(N # NoFrame)
  BY <1>1, <1>3 DEF Left, Dec, One
<1>9. Books(NoFrame, U, N, R, Left(I, c))
  <2> DEFINE p == One(NoFrame # NoFrame)
  <2>1. /\ p + One(U.buffer) + One(N.buffer) = One(U.buffer) + One(N.buffer)
        /\ p + One(U # NoFrame) + One(N # NoFrame) = One(U # NoFrame) + One(N # NoFrame)
        /\ p + 1 = 1 /\ p + One(U.buffer) + 1 = One(U.buffer) + 1
    BY DEF One
  <2>2. Len(R) = p + One(U.buffer) + One(N.buffer)
    BY <1>5, <2>1
  <2>3. ASSUME "swap" \notin world
        PROVE  /\ Left(I, c) = p + One(U # NoFrame) + One(N # NoFrame)
               /\ U.buffer => R[p + 1].id = U.id
               /\ N.buffer => R[p + One(U.buffer) + 1].id = N.id
    BY <1>1, <1>6, <1>7, <1>8, <2>1, <2>3, Zenon
  <2> QED BY <2>2, <2>3, Zenon DEF Books
<1> QED BY <1>2, <1>3, <1>9 DEF R

(* The timer completes what was superseded.                                *)
LEMMA TimerBooks ==
    ASSUME Tame,
           NEW P \in Frames, NEW U \in Frames, NEW N \in Frames, NEW I \in Seq(Infos),
           NEW k \in Updates, NEW c \in 0..2, NEW d \in BOOLEAN,
           U # NoFrame, Slots(P, U, N, k, d), Books(P, U, N, I, c)
    PROVE  Slots(P, NoFrame, N, k, FALSE) /\ Books(P, NoFrame, N, Rest(I), Left(I, c))
<1> DEFINE R == Rest(I)
<1>1. U.buffer /\ N.buffer /\ N # NoFrame
  BY DEF Slots, Calm, Tame
<1>2. Slots(P, NoFrame, N, k, FALSE)
  BY DEF Slots
<1>3. ~NoFrame.buffer /\ Len(I) \in Nat /\ Len(I) = One(P # NoFrame) + 2
      /\ ("swap" \notin world => P = NoFrame /\ c = 2 /\ I[2].id = N.id)
  BY <1>1, NoFrameProperties, RestProperties DEF Books, One
<1>4. /\ Len(R) = Dec(Len(I)) /\ (I = <<>> <=> Len(I) = 0)
      /\ \A i \in 1..Len(I) - 1 : R[i] = I[i + 1]
  BY RestProperties
<1> HIDE DEF R
<1>5. Len(R) = One(P # NoFrame) + 1 /\ Len(I) # 0
  BY <1>3, <1>4 DEF One, Dec
<1>6. R[1] = I[2]
  <2>1. 1 \in 1..Len(I) - 1 /\ 1 + 1 = 2
    BY <1>3 DEF One
  <2> QED BY <1>4, <2>1
<1>7. "swap" \notin world => Left(I, c) = 1
  BY <1>3, <1>4, <1>5 DEF Left, Dec
<1>8. Books(P, NoFrame, N, R, Left(I, c))
  <2>1. CASE "swap" \in world
    BY <1>1, <1>3, <1>5, <2>1 DEF Books, One
  <2>2. CASE "swap" \notin world
    BY <1>1, <1>3, <1>5, <1>6, <1>7, <2>2 DEF Books, One
  <2> QED BY <2>1, <2>2
<1> QED BY <1>2, <1>8 DEF R

(* A frame f without damage waits for the posted one, or is posted at once *)
(* as Q with the info x and the update l; no other frame waits.            *)
WaitsOrPosted(f, Q, x, l, P, U, N, I, k, c, d) ==
    /\ N = NoFrame
    /\ P # NoFrame => Shape(P, U, f, k, d) /\ Books(P, U, f, I, c + 1)
    /\ P = NoFrame => Shape(Q, U, N, l, d) /\ Books(Q, U, N, Append(I, x), c + 1)

LEMMA UndamagedBooks ==
    ASSUME Tame, "undamaged" \in world,
           NEW P \in Frames, NEW U \in Frames, NEW N \in Frames, NEW I \in Seq(Infos),
           NEW k \in Updates, NEW c \in 0..1, NEW d \in BOOLEAN,
           NEW f \in Frames, NEW Q \in Frames, NEW x \in Infos, NEW l \in Updates,
           f # NoFrame, ~f.buffer, Q # NoFrame, Q.id = f.id, x.id = f.id,
           l # NoUpdate, l.id = f.id,
           Shape(P, U, N, k, d), Books(P, U, N, I, c)
    PROVE  WaitsOrPosted(f, Q, x, l, P, U, N, I, k, c, d)
<1>1. Calm /\ U = NoFrame /\ "swap" \notin world /\ "refused" \notin world
  BY DEF Tame, Calm, Shape, Slots
<1>2. ~NoFrame.buffer /\ Len(I) \in Nat
      /\ Len(I) = One(P # NoFrame) + One(N.buffer)
      /\ c = One(P # NoFrame) + One(N # NoFrame)
      /\ (P # NoFrame => I[1].id = P.id)
  BY <1>1, NoFrameProperties, RestProperties DEF Books, One
<1>3. N = NoFrame
  <2>1. N # NoFrame => P # NoFrame
    BY <1>1 DEF Shape, Slots
  <2> QED BY <1>2, <2>1 DEF One
<1>4. ASSUME P # NoFrame PROVE Shape(P, U, f, k, d) /\ Books(P, U, f, I, c + 1)
  <2>1. Shape(P, U, f, k, d)
    BY <1>1, <1>4 DEF Shape, Slots
  <2>2. Books(P, U, f, I, c + 1)
    BY <1>1, <1>2, <1>3, <1>4 DEF Books, One
  <2> QED BY <2>1, <2>2
<1>5. ASSUME P = NoFrame PROVE Shape(Q, U, N, l, d) /\ Books(Q, U, N, Append(I, x), c + 1)
  <2> DEFINE A == Append(I, x)
  <2>1. Shape(Q, U, N, l, d)
    BY <1>1, <1>3 DEF Shape, Slots
  <2>2. Len(I) = 0 /\ c = 0
    BY <1>2, <1>3, <1>5 DEF One
  <2>3. Len(A) = 1 /\ A[1] = x
    <3>1. 0 + 1 = 1
      OBVIOUS
    <3> QED BY <2>2, <3>1, Appended
  <2> HIDE DEF A
  <2>4. Books(Q, U, N, A, c + 1)
    BY <1>1, <1>2, <1>3, <2>2, <2>3 DEF Books, One
  <2> QED BY <2>1, <2>4 DEF A
<1> QED BY <1>3, <1>4, <1>5 DEF WaitsOrPosted

-----------------------------------------------------------------------------
(* What becomes of the gamma, where every frame is drawn and none fails.   *)
LEMMA InfoFields ==
    /\ \A x \in Infos : x.id \in 1..MaxFrames /\ x.counter \in Nat
    /\ \A I \in Seq(Infos), i \in Nat : i \in 1..Len(I) => I[i] \in Infos
    /\ \A g \in Gammas : g \in Nat
<1>1. \A I \in Seq(Infos), i \in Nat : i \in 1..Len(I) => I[i] \in Infos
  BY ElementOfSeq
<1>2. \A g \in Gammas : g \in Nat
  BY DEF Gammas
<1> QED BY <1>1, <1>2 DEF Infos

LEMMA PostedGamma ==
    ASSUME NEW N \in Frames, NEW I \in Seq(Infos), NEW l \in Updates, NEW G, NEW C \in Nat,
           NEW h \in Gammas, NEW w \in Gammas, w # 0, l.gamma = N.gamma, Len(I) = 1,
           GammaInv(N, I, NoUpdate, G, C, h, w)
    PROVE  GammaInv(NoFrame, I, l, G, C, h, w)
<1>1. NoFrame.gamma = 0 /\ NoUpdate.gamma = 0
  BY NoFrameProperties
<1>2. h \in Nat /\ w \in Nat /\ N.gamma \in Nat /\ l.gamma \in Nat
  BY InfoFields, NoFrameProperties
<1> QED BY <1>1, <1>2 DEF GammaInv

LEMMA QueuedGamma ==
    ASSUME NEW f \in Frames, NEW I \in Seq(Infos), NEW k \in Updates, NEW x \in Infos,
           NEW G, NEW H, NEW C \in Nat,
           NEW h \in Gammas, NEW w \in Gammas, w # 0, Len(I) \in {0, 1},
           Len(I) = 0 => k = NoUpdate, x.counter = C,
           \/ H = G /\ f.gamma = 0 /\ ~G.invalidated
           \/ H = [invalidated |-> FALSE, target |-> C] /\ f.gamma = w,
           GammaInv(NoFrame, I, k, G, C, h, w)
    PROVE  GammaInv(f, Append(I, x), k, H, C + 1, h, w)
<1> DEFINE A == Append(I, x)
<1>1. NoFrame.gamma = 0 /\ NoUpdate.gamma = 0
  BY NoFrameProperties
<1>2. h \in Nat /\ w \in Nat /\ f.gamma \in Nat /\ k.gamma \in Nat
  BY InfoFields, NoFrameProperties
<1>3. /\ Len(A) = Len(I) + 1 /\ A[Len(A)] = x
      /\ \A i \in 1..Len(I) : A[i] = I[i]
  BY Appended
<1> HIDE DEF A
<1>4. C > 0 /\ (Len(I) = 1 => I[1].counter \in 1..C - 1 /\ A[1] = I[1])
  <2>1. 1 \in 1..1
    OBVIOUS
  <2> QED BY <1>3, <2>1 DEF GammaInv
<1>5. /\ C + 1 > 0 /\ \A i \in 1..Len(A) : A[i].counter \in 1..(C + 1) - 1
      /\ Len(A) = 2 => A[1].counter < A[2].counter
  <2>1. CASE Len(I) = 0
    <3>1. Len(A) = 1 /\ A[1] = x
      BY <1>3, <2>1
    <3>2. \A i \in 1..1 : i = 1
      OBVIOUS
    <3>3. C + 1 > 0 /\ C \in 1..(C + 1) - 1 /\ 1 # 2
      BY <1>4
    <3> QED BY <3>1, <3>2, <3>3
  <2>2. CASE Len(I) = 1
    <3>1. Len(A) = 2 /\ A[1] = I[1] /\ A[2] = x
      <4>1. 1 + 1 = 2
        OBVIOUS
      <4> QED BY <1>3, <1>4, <2>2, <4>1
    <3>2. \A i \in 1..2 : i = 1 \/ i = 2
      OBVIOUS
    <3>3. /\ C + 1 > 0 /\ C \in 1..(C + 1) - 1
          /\ I[1].counter \in 1..(C + 1) - 1 /\ I[1].counter < C
      <4>1. \A n \in 1..C - 1 : n \in 1..(C + 1) - 1 /\ n < C
        OBVIOUS
      <4> QED BY <1>4, <2>2, <4>1
    <3> QED BY <3>1, <3>2, <3>3
  <2> QED BY <2>1, <2>2
<1>6. /\ h <= w /\ k.gamma <= w /\ f.gamma <= w
      /\ k.gamma # 0 => h <= k.gamma
      /\ f.gamma # 0 => h <= f.gamma /\ k.gamma <= f.gamma
  BY <1>2 DEF GammaInv
<1>7. \/ h = w
      \/ H.invalidated
      \/ f.gamma = w /\ H.target = A[Len(A)].counter
      \/ k.gamma = w /\ H.target = A[1].counter
  <2>1. CASE H = G /\ f.gamma = 0 /\ ~G.invalidated
    <3>1. CASE h = w
      BY <3>1
    <3>2. CASE k.gamma = w /\ G.target = I[1].counter
      <4>1. Len(I) = 1
        BY <1>1, <3>2
      <4> QED BY <1>4, <2>1, <3>2, <4>1
    <3> QED BY <1>1, <2>1, <3>1, <3>2 DEF GammaInv
  <2>2. CASE H = [invalidated |-> FALSE, target |-> C] /\ f.gamma = w
    BY <1>3, <2>2
  <2> QED BY <2>1, <2>2
<1>8. GammaInv(f, A, k, H, C + 1, h, w)
  BY <1>5, <1>6, <1>7, Zenon DEF GammaInv
<1> QED BY <1>8 DEF A

(* What KMS has to say of a gamma g, when the kernel has h.                *)
LEMMA AnsweredGamma ==
    ASSUME NEW N \in Frames, NEW I \in Seq(Infos), NEW k \in Updates,
           NEW G \in [invalidated : BOOLEAN, target : Nat],
           NEW H \in [invalidated : BOOLEAN, target : Nat], NEW C \in Nat,
           NEW h \in Gammas, NEW j \in Gammas, NEW w \in Gammas, w # 0,
           Len(I) \in {1, 2}, N # NoFrame => Len(I) = 2,
           j \in {h, IF k.gamma # 0 THEN k.gamma ELSE h},
           G.invalidated => H.invalidated,
           H.invalidated \/ H.target = G.target \/ I[1].counter >= G.target,
           k.gamma = w /\ G.target = I[1].counter /\ j # w => H.invalidated,
           GammaInv(N, I, k, G, C, h, w)
    PROVE  GammaInv(N, Rest(I), NoUpdate, H, C, j, w)
<1> DEFINE R == Rest(I)
<1>1. NoFrame.gamma = 0 /\ NoUpdate.gamma = 0
  BY NoFrameProperties
<1>2. h \in Nat /\ j \in Nat /\ w \in Nat /\ N.gamma \in Nat /\ k.gamma \in Nat
  BY InfoFields, NoFrameProperties
<1>3. /\ Len(R) = Dec(Len(I))
      /\ \A i \in 1..Len(I) - 1 : R[i] = I[i + 1]
  BY RestProperties
<1> HIDE DEF R
<1>4. Len(I) = 1 => Len(R) = 0
  BY <1>3 DEF Dec
<1>5. Len(I) = 2 => Len(R) = 1 /\ R[1] = I[2]
  <2>1. Dec(2) = 1 /\ 1 \in 1..2 - 1 /\ 1 + 1 = 2
    BY DEF Dec
  <2> QED BY <1>3, <2>1
<1>6. /\ Len(I) = 2 => I[2].counter \in 1..C - 1 /\ I[1].counter < I[2].counter
      /\ I[1].counter \in 1..C - 1
  <2>1. 1 \in 1..1 /\ 1 \in 1..2 /\ 2 \in 1..2
    OBVIOUS
  <2> QED BY <2>1 DEF GammaInv
<1>7. /\ \A i \in 1..Len(R) : R[i].counter \in 1..C - 1
      /\ Len(R) = 2 => R[1].counter < R[2].counter
  <2>1. \A i \in 1..1 : i = 1
    OBVIOUS
  <2>2. \A i \in 1..0 : FALSE
    OBVIOUS
  <2>3. 0 # 2 /\ 1 # 2
    OBVIOUS
  <2> QED BY <1>4, <1>5, <1>6, <2>1, <2>2, <2>3
<1>8. /\ j <= w /\ NoUpdate.gamma <= w /\ N.gamma <= w
      /\ NoUpdate.gamma # 0 => j <= NoUpdate.gamma
      /\ N.gamma # 0 => j <= N.gamma /\ NoUpdate.gamma <= N.gamma
  BY <1>1, <1>2 DEF GammaInv
<1>9. \/ j = w
      \/ H.invalidated
      \/ N.gamma = w /\ H.target = R[Len(R)].counter
  <2>1. CASE h = w
    BY <1>2, <2>1 DEF GammaInv
  <2>2. CASE G.invalidated
    BY <2>2
  <2>3. CASE N.gamma = w /\ G.target = I[Len(I)].counter
    <3>1. Len(I) = 2 /\ R[Len(R)] = I[2]
      BY <1>1, <1>5, <2>3
    <3>2. I[1].counter < G.target /\ I[1].counter \in Nat /\ G.target \in Nat
      BY <1>6, <2>3, <3>1
    <3>3. H.invalidated \/ H.target = G.target
      BY <3>2
    <3> QED BY <2>3, <3>1, <3>3
  <2>4. CASE k.gamma = w /\ G.target = I[1].counter
    BY <2>4
  <2> QED BY <2>1, <2>2, <2>3, <2>4 DEF GammaInv
<1>10. C > 0
  BY DEF GammaInv
<1>11. GammaInv(N, R, NoUpdate, H, C, j, w)
  BY <1>7, <1>8, <1>9, <1>10, Zenon DEF GammaInv
<1> QED BY <1>11 DEF R

-----------------------------------------------------------------------------
(* What the functions make of the state.                                   *)
Sent(f) == [f EXCEPT !.update = FALSE]
Update(f, listeners) == [id |-> f.id, gamma |-> f.gamma, listeners |-> listeners]
Info(f, C) == [id |-> f.id, counter |-> C]

LEMMA FrameProperties ==
    ASSUME NEW f \in Frames, f # NoFrame
    PROVE  /\ Sent(f) \in Frames /\ Sent(f) # NoFrame
           /\ Sent(f).id = f.id /\ Sent(f).buffer = f.buffer
           /\ \A L \in Seq(Listeners) :
                /\ Update(f, L) \in Updates /\ Update(f, L) # NoUpdate
                /\ Update(f, L).id = f.id /\ Update(f, L).gamma = f.gamma
                /\ Update(f, L).listeners = L
           /\ \A C \in Nat : /\ Info(f, C) \in Infos /\ Info(f, C).id = f.id
                             /\ Info(f, C).counter = C
           /\ \A g \in Gammas : /\ [f EXCEPT !.update = TRUE, !.gamma = g] \in Frames
                                /\ [f EXCEPT !.update = TRUE, !.gamma = g] # NoFrame
<1>1. /\ f.id \in 1..MaxFrames /\ f.gamma \in Gammas
      /\ f \in [id : 1..MaxFrames, buffer : BOOLEAN, scanout : BOOLEAN,
                update : BOOLEAN, gamma : Gammas]
  BY NoFrameProperties DEF Frames
<1>2. f.id # 0
  BY <1>1
<1>3. NoFrame.id = 0 /\ NoUpdate.id = 0
  BY NoFrameProperties DEF NoUpdate
<1>4. /\ Sent(f) \in Frames /\ Sent(f).id = f.id /\ Sent(f).buffer = f.buffer
  BY <1>1 DEF Sent, Frames
<1>5. ASSUME NEW L \in Seq(Listeners)
      PROVE  /\ Update(f, L) \in Updates /\ Update(f, L).id = f.id
             /\ Update(f, L).gamma = f.gamma /\ Update(f, L).listeners = L
  BY <1>1 DEF Update, Updates
<1>6. ASSUME NEW C \in Nat
      PROVE  Info(f, C) \in Infos /\ Info(f, C).id = f.id /\ Info(f, C).counter = C
  BY <1>1 DEF Info, Infos
<1>7. ASSUME NEW g \in Gammas
      PROVE  /\ [f EXCEPT !.update = TRUE, !.gamma = g] \in Frames
             /\ [f EXCEPT !.update = TRUE, !.gamma = g].id = f.id
  BY <1>1 DEF Frames
<1> QED BY <1>2, <1>3, <1>4, <1>5, <1>6, <1>7

LEMMA PostedCleared ==
    ASSUME NEW s, NEW P, NEW U, NEW N, NEW I, NEW k, NEW c, NEW d, NEW G, NEW C,
           Is(s, P, U, N, I, k, c, d, G, C)
    PROVE  /\ Is(clear_posted_fb(s), NoFrame, U, N, I, k, c, d, G, C)
           /\ Is(promote_posted_frame(s), NoFrame, U, N, I, k, c, d, G, C)
<1>1. s \in States /\ s.o \in Onscreens
  BY StateFields DEF Is
<1>2. Is(clear_posted_fb(s), NoFrame, U, N, I, k, c, d, G, C)
  <2> DEFINE x == [s.o EXCEPT !.posted = NoFrame]
  <2>1. clear_posted_fb(s) = [s EXCEPT !.o = x]
    BY DEF clear_posted_fb
  <2>2. x \in Onscreens /\ x.posted = NoFrame
        /\ x.superseded = s.o.superseded /\ x.next = s.o.next /\ x.infos = s.o.infos
        /\ x.dummy_flip = s.o.dummy_flip /\ x.gamma = s.o.gamma /\ x.counter = s.o.counter
    BY <1>1, NoFrameProperties DEF Onscreens
  <2> HIDE DEF x
  <2> QED BY <1>1, <2>1, <2>2, OnscreenChanged DEF Is
<1>3. Is(promote_posted_frame(s), NoFrame, U, N, I, k, c, d, G, C)
  <2>1. CASE s.o.posted = NoFrame
    BY <2>1 DEF promote_posted_frame, Is
  <2>2. CASE s.o.posted # NoFrame
    <3> DEFINE p == IF s.o.posted.buffer THEN s.o.posted.id ELSE s.o.presented
               x == [s.o EXCEPT !.posted = NoFrame, !.presented = p]
    <3>1. promote_posted_frame(s) = [s EXCEPT !.o = x]
      BY <1>1, <2>2 DEF promote_posted_frame, States, Onscreens
    <3>2. p \in 0..MaxFrames
      BY <1>1, StateFields, NoFrameProperties
    <3> HIDE DEF p
    <3>3. x \in Onscreens /\ x.posted = NoFrame
          /\ x.superseded = s.o.superseded /\ x.next = s.o.next /\ x.infos = s.o.infos
          /\ x.dummy_flip = s.o.dummy_flip /\ x.gamma = s.o.gamma /\ x.counter = s.o.counter
      BY <1>1, <3>2, NoFrameProperties DEF Onscreens
    <3> HIDE DEF x
    <3> QED BY <1>1, <3>1, <3>3, OnscreenChanged DEF Is
  <2> QED BY <2>1, <2>2
<1> QED BY <1>2, <1>3

LEMMA NonprimaryPosted ==
    ASSUME NEW s, NEW P, NEW U, NEW N, NEW I, NEW k, NEW c, NEW d, NEW G, NEW C,
           NEW f \in Frames, f # NoFrame, NEW L \in Seq(Listeners),
           Is(s, P, U, N, I, k, c, d, G, C)
    PROVE  Is(post_nonprimary_plane_update(s, f, L), Sent(f), U, N, Append(I, Info(f, C)),
              Update(f, Append(L, "finish_frame")), c, d, G, C)
<1> DEFINE J == Append(I, Info(f, C))
           K == Update(f, Append(L, "finish_frame"))
           x == [s.o EXCEPT !.infos = J, !.posted = Sent(f)]
           t == post_nonprimary_plane_update(s, f, L)
<1>1. s \in States /\ s.o \in Onscreens /\ I \in Seq(Infos) /\ C \in Nat
      /\ s.o.infos = I /\ s.o.counter = C
  BY StateFields DEF Is
<1>2. J \in Seq(Infos) /\ Sent(f) \in Frames
  BY <1>1, FrameProperties, Appended
<1>3. K \in Updates
  <2>1. "finish_frame" \in Listeners
    BY DEF Listeners
  <2>2. Append(L, "finish_frame") \in Seq(Listeners)
    BY <2>1, AppendProperties
  <2> QED BY <2>2, FrameProperties
<1>4. t = [s EXCEPT !.kms = K, !.o = x]
  BY <1>1 DEF post_nonprimary_plane_update, States, Onscreens, Sent, Info, Update
<1> HIDE DEF J, K
<1>5. x \in Onscreens /\ x.posted = Sent(f) /\ x.infos = J
      /\ x.superseded = s.o.superseded /\ x.next = s.o.next
      /\ x.dummy_flip = s.o.dummy_flip /\ x.gamma = s.o.gamma /\ x.counter = s.o.counter
  BY <1>1, <1>2 DEF Onscreens
<1> HIDE DEF x
<1>6. t \in States /\ t.o = x /\ t.kms = K /\ t.clock = s.clock
  BY <1>1, <1>3, <1>4, <1>5 DEF States
<1> QED BY <1>5, <1>6 DEF Is, J, K

(* What is left once the superseded frame U is completed.                  *)
Kept(U, I) == IF U = NoFrame THEN I ELSE Rest(I)
Under(U, I, c) == IF U = NoFrame THEN c ELSE Left(I, c)

LEMMA NextPosted ==
    ASSUME NEW s, NEW P, NEW U, NEW N, NEW I, NEW k, NEW c, NEW d, NEW G, NEW C,
           Is(s, P, U, N, I, k, c, d, G, C)
    PROVE  /\ N = NoFrame \/ P # NoFrame =>
                Is(maybe_post_next_frame(s), P, U, N, I, k, c, d, G, C)
           /\ N # NoFrame /\ P = NoFrame /\ power_save =>
                Is(maybe_post_next_frame(s), P, U, N, I, k, c, TRUE, G, C)
           /\ N # NoFrame /\ P = NoFrame /\ ~power_save =>
                \E L \in Seq(Listeners) :
                   /\ N.buffer => Len(L) = 1
                   /\ Is(maybe_post_next_frame(s), Sent(N), NoFrame, NoFrame,
                         IF N.buffer THEN Kept(U, I) ELSE Append(Kept(U, I), Info(N, C)),
                         Update(N, L), Under(U, I, c), d, G, C)
<1> DEFINE m == maybe_post_next_frame(s)
<1>1. /\ s \in States /\ s.o \in Onscreens /\ N \in Frames /\ U \in Frames
      /\ s.o.next = N /\ s.o.posted = P
  BY StateFields DEF Is
<1>2. ASSUME N = NoFrame \/ P # NoFrame
      PROVE  Is(m, P, U, N, I, k, c, d, G, C)
  BY <1>1, <1>2 DEF maybe_post_next_frame
<1>3. ASSUME N # NoFrame, P = NoFrame, power_save
      PROVE  Is(m, P, U, N, I, k, c, TRUE, G, C)
  <2> DEFINE x == [s.o EXCEPT !.dummy_flip = TRUE]
  <2>1. m = [s EXCEPT !.o = x]
    BY <1>1, <1>3 DEF maybe_post_next_frame
  <2>2. x \in Onscreens /\ x.dummy_flip = TRUE /\ x.posted = s.o.posted
        /\ x.superseded = s.o.superseded /\ x.next = s.o.next /\ x.infos = s.o.infos
        /\ x.gamma = s.o.gamma /\ x.counter = s.o.counter
    BY <1>1 DEF Onscreens
  <2> HIDE DEF x
  <2> QED BY <1>1, <2>1, <2>2, OnscreenChanged DEF Is
<1>4. ASSUME N # NoFrame, P = NoFrame, ~power_save
      PROVE  \E L \in Seq(Listeners) :
               /\ N.buffer => Len(L) = 1
               /\ Is(m, Sent(N), NoFrame, NoFrame,
                     IF N.buffer THEN Kept(U, I) ELSE Append(Kept(U, I), Info(N, C)),
                     Update(N, L), Under(U, I, c), d, G, C)
  <2> DEFINE x == [s.o EXCEPT !.next = NoFrame]
             s1 == [s EXCEPT !.o = x]
             t == clear_superseded_frame(s1)
             L1 == <<IF N.scanout THEN "scanout" ELSE "swap_buffer">>
  <2>1. x \in Onscreens /\ x.next = NoFrame
        /\ x.posted = s.o.posted /\ x.superseded = s.o.superseded /\ x.infos = s.o.infos
        /\ x.dummy_flip = s.o.dummy_flip /\ x.gamma = s.o.gamma /\ x.counter = s.o.counter
    BY <1>1, NoFrameProperties DEF Onscreens
  <2>2. s1 = [s EXCEPT !.o.next = NoFrame]
    OBVIOUS
  <2> HIDE DEF x
  <2>3. Is(s1, P, U, NoFrame, I, k, c, d, G, C)
    BY <1>1, <2>1, OnscreenChanged DEF Is
  <2>4. m = IF ~N.buffer THEN post_nonprimary_plane_update(t, N, L1)
            ELSE [t EXCEPT !.kms = Update(N, L1), !.o.posted = Sent(N)]
    BY <1>1, <1>4, <2>2 DEF maybe_post_next_frame, Update, Sent
  <2> HIDE DEF s1
  <2>5. Is(t, P, NoFrame, NoFrame, Kept(U, I), k, Under(U, I, c), d, G, C)
    BY <2>3, SupersededCleared DEF Kept, Under
  <2> HIDE DEF t
  <2>6. L1 \in Seq(Listeners) /\ Len(L1) = 1
    BY DEF Listeners
  <2> HIDE DEF L1
  <2>7. CASE ~N.buffer
    <3>1. /\ Append(L1, "finish_frame") \in Seq(Listeners)
      <4>1. "finish_frame" \in Listeners
        BY DEF Listeners
      <4> QED BY <2>6, <4>1, AppendProperties
    <3>2. Is(m, Sent(N), NoFrame, NoFrame, Append(Kept(U, I), Info(N, C)),
             Update(N, Append(L1, "finish_frame")), Under(U, I, c), d, G, C)
      BY <1>1, <1>4, <2>4, <2>5, <2>6, <2>7, NonprimaryPosted
    <3> QED BY <2>7, <3>1, <3>2
  <2>8. CASE N.buffer
    <3> DEFINE y == [t.o EXCEPT !.posted = Sent(N)]
               K == Update(N, L1)
    <3>1. t \in States /\ t.o \in Onscreens
      BY <2>5, StateFields DEF Is
    <3>2. Sent(N) \in Frames /\ K \in Updates
      BY <1>1, <1>4, <2>6, FrameProperties
    <3>3. m = [t EXCEPT !.kms = K, !.o = y]
      BY <2>4, <2>8, <3>1 DEF States
    <3>4. y \in Onscreens /\ y.posted = Sent(N)
          /\ y.superseded = t.o.superseded /\ y.next = t.o.next /\ y.infos = t.o.infos
          /\ y.dummy_flip = t.o.dummy_flip /\ y.gamma = t.o.gamma /\ y.counter = t.o.counter
      BY <3>1, <3>2 DEF Onscreens
    <3> HIDE DEF y, K
    <3>5. m \in States /\ m.o = y /\ m.kms = K /\ m.clock = t.clock
      BY <3>1, <3>2, <3>3, <3>4 DEF States
    <3>6. Is(m, Sent(N), NoFrame, NoFrame, Kept(U, I), K, Under(U, I, c), d, G, C)
      BY <2>5, <3>4, <3>5 DEF Is
    <3> QED BY <2>6, <2>8, <3>6 DEF K
  <2> QED BY <2>7, <2>8
<1> QED BY <1>2, <1>3, <1>4

-----------------------------------------------------------------------------
(* The invariant of a state on its way to being the next one.              *)
GammaWorld == world = {"gamma"} /\ FirstCounter > 0

Even(s) ==
    Tame => /\ Shape(s.o.posted, s.o.superseded, s.o.next, s.kms, s.o.dummy_flip)
            /\ Books(s.o.posted, s.o.superseded, s.o.next, s.o.infos, s.clock)

Lit(s, C, h, w) ==
    GammaWorld => GammaInv(s.o.next, s.o.infos, s.kms, s.o.gamma, C, h, w)

LEMMA GammaWorldIsCalm ==
    GammaWorld => Tame /\ Calm /\ {"undamaged", "power", "refused", "swap"} \cap world = {}
BY DEF GammaWorld, Tame, Calm

LEMMA NextPostedEven ==
    ASSUME NEW s, NEW P, NEW U, NEW N, NEW I, NEW k, NEW c, NEW d, NEW G, NEW C,
           NEW E \in Nat, NEW h \in Gammas, NEW w \in Gammas, w # 0,
           power_save \in BOOLEAN, power_save => "power" \in world,
           Is(s, P, U, N, I, k, c, d, G, C),
           Tame => Slots(P, U, N, k, d) /\ Books(P, U, N, I, c),
           GammaWorld => GammaInv(N, I, k, G, E, h, w)
    PROVE  LET m == maybe_post_next_frame(s)
           IN m \in States /\ m.o.counter = C /\ m.o.gamma = G /\ Even(m) /\ Lit(m, E, h, w)
<1> DEFINE m == maybe_post_next_frame(s)
<1>1. /\ P \in Frames /\ U \in Frames /\ N \in Frames /\ I \in Seq(Infos) /\ k \in Updates
      /\ c \in 0..2 /\ d \in BOOLEAN /\ C \in Nat
  BY StateFields DEF Is
<1>2. CASE N = NoFrame \/ P # NoFrame
  <2>1. Is(m, P, U, N, I, k, c, d, G, C)
    BY <1>2, NextPosted
  <2>2. Tame => Shape(P, U, N, k, d)
    BY <1>2 DEF Shape
  <2> QED BY <2>1, <2>2 DEF Is, Even, Lit
<1>3. CASE N # NoFrame /\ P = NoFrame /\ power_save
  <2>1. Is(m, P, U, N, I, k, c, TRUE, G, C)
    BY <1>3, NextPosted
  <2>2. Tame => Shape(P, U, N, k, TRUE)
    BY <1>3 DEF Shape, Slots, Calm
  <2>3. ~GammaWorld
    BY <1>3, GammaWorldIsCalm
  <2> QED BY <2>1, <2>2, <2>3 DEF Is, Even, Lit
<1>4. CASE N # NoFrame /\ P = NoFrame /\ ~power_save
  <2> DEFINE J == IF N.buffer THEN Kept(U, I) ELSE Append(Kept(U, I), Info(N, C))
  <2>1. PICK L \in Seq(Listeners) :
           /\ N.buffer => Len(L) = 1
           /\ Is(m, Sent(N), NoFrame, NoFrame, J, Update(N, L), Under(U, I, c), d, G, C)
    BY <1>4, NextPosted
  <2>2. /\ Sent(N) \in Frames /\ Sent(N) # NoFrame /\ Sent(N).id = N.id
        /\ Sent(N).buffer = N.buffer /\ Update(N, L) \in Updates /\ Update(N, L) # NoUpdate
        /\ Update(N, L).id = N.id /\ Update(N, L).gamma = N.gamma
        /\ Update(N, L).listeners = L /\ Info(N, C) \in Infos /\ Info(N, C).id = N.id
    BY <1>1, <1>4, FrameProperties
  <2>3. Tame => /\ Shape(Sent(N), NoFrame, NoFrame, Update(N, L), d)
                /\ Books(Sent(N), NoFrame, NoFrame, J, Under(U, I, c))
    <3> SUFFICES ASSUME Tame
                 PROVE  /\ Shape(Sent(N), NoFrame, NoFrame, Update(N, L), d)
                        /\ Books(Sent(N), NoFrame, NoFrame, J, Under(U, I, c))
      OBVIOUS
    <3>1. Slots(NoFrame, U, N, k, d) /\ Books(NoFrame, U, N, I, c)
      BY <1>4
    <3>2. N.buffer => Len(Update(N, L).listeners) = 1
      BY <2>1, <2>2
    <3> HIDE DEF m
    <3> QED BY <1>1, <1>4, <2>2, <3>1, <3>2, PostedBooks DEF Kept, Under
  <2>4. GammaWorld => GammaInv(NoFrame, J, Update(N, L), G, E, h, w)
    <3> SUFFICES ASSUME GammaWorld
                 PROVE  GammaInv(NoFrame, J, Update(N, L), G, E, h, w)
      OBVIOUS
    <3>1. U = NoFrame /\ k = NoUpdate /\ N.buffer
      BY <1>4, GammaWorldIsCalm DEF Slots
    <3>2. J = I
      BY <3>1 DEF Kept
    <3>3. Len(I) = 1
      BY <1>4, <3>1, GammaWorldIsCalm, NoFrameProperties DEF Books, One
    <3>4. GammaInv(N, I, NoUpdate, G, E, h, w)
      BY <3>1
    <3> HIDE DEF J
    <3> QED BY <1>1, <2>2, <3>2, <3>3, <3>4, PostedGamma
  <2> HIDE DEF m, J
  <2>5. m \in States /\ m.o.counter = C /\ m.o.gamma = G
    BY <2>1 DEF Is
  <2>6. Even(m)
    BY <2>1, <2>3 DEF Is, Even
  <2>7. Lit(m, E, h, w)
    BY <2>1, <2>4 DEF Is, Lit
  <2> QED BY <2>5, <2>6, <2>7 DEF m
<1> QED BY <1>2, <1>3, <1>4

-----------------------------------------------------------------------------
(* From a state to the next.                                               *)
LEMMA Before ==
    ASSUME OnscreenInv
    PROVE  /\ State \in States /\ State.o = o /\ State.kms = kms /\ State.clock = clock
           /\ Is(State, o.posted, o.superseded, o.next, o.infos, kms, clock, o.dummy_flip,
                 o.gamma, o.counter)
           /\ o.posted \in Frames /\ o.superseded \in Frames /\ o.next \in Frames
           /\ o.infos \in Seq(Infos) /\ kms \in Updates /\ clock \in 0..2
           /\ o.dummy_flip \in BOOLEAN /\ o.counter \in Nat /\ o \in Onscreens
           /\ o.gamma \in [invalidated : BOOLEAN, target : Nat]
           /\ hw \in Gammas /\ wanted \in Gammas /\ wanted # 0 /\ drawn \in 0..MaxFrames
           /\ power_save \in BOOLEAN /\ (power_save => "power" \in world)
           /\ Even(State) /\ Lit(State, o.counter, hw, wanted)
           /\ Tame => /\ Shape(o.posted, o.superseded, o.next, kms, o.dummy_flip)
                      /\ Slots(o.posted, o.superseded, o.next, kms, o.dummy_flip)
                      /\ Books(o.posted, o.superseded, o.next, o.infos, clock)
           /\ GammaWorld => GammaInv(o.next, o.infos, kms, o.gamma, o.counter, hw, wanted)
<1>1. State \in States /\ State.o = o /\ State.kms = kms /\ State.clock = clock
  BY DEF OnscreenInv, Typed, State
<1>2. /\ o.posted \in Frames /\ o.superseded \in Frames /\ o.next \in Frames
      /\ o.infos \in Seq(Infos) /\ kms \in Updates /\ clock \in 0..2
      /\ o.dummy_flip \in BOOLEAN /\ o.counter \in Nat /\ o \in Onscreens
      /\ o.gamma \in [invalidated : BOOLEAN, target : Nat]
  BY <1>1, StateFields
<1>3. /\ hw \in Gammas /\ wanted \in 1..MaxGammas + 1 /\ drawn \in 0..MaxFrames
      /\ power_save \in BOOLEAN /\ (power_save => "power" \in world)
  BY DEF OnscreenInv, Typed
<1>4. wanted \in Gammas /\ wanted # 0
  BY <1>3 DEF Gammas
<1>5. Is(State, o.posted, o.superseded, o.next, o.infos, kms, clock, o.dummy_flip,
         o.gamma, o.counter)
  BY <1>1 DEF Is
<1>6. Even(State) /\ Lit(State, o.counter, hw, wanted)
  BY <1>1 DEF Even, Lit, GammaWorld, OnscreenInv
<1>7. Tame => /\ Shape(o.posted, o.superseded, o.next, kms, o.dummy_flip)
              /\ Books(o.posted, o.superseded, o.next, o.infos, clock)
  BY DEF OnscreenInv
<1>8. GammaWorld => GammaInv(o.next, o.infos, kms, o.gamma, o.counter, hw, wanted)
  BY DEF OnscreenInv, GammaWorld
<1>9. Tame => Slots(o.posted, o.superseded, o.next, kms, o.dummy_flip)
  BY <1>7 DEF Shape
<1> QED BY <1>1, <1>2, <1>3, <1>4, <1>5, <1>6, <1>7, <1>8, <1>9

LEMMA After ==
    ASSUME NEW s \in States, Becomes(s), Even(s), Lit(s, s.o.counter, hw', wanted'),
           hw' \in Gammas, wanted' \in 1..MaxGammas + 1, drawn' \in 0..MaxFrames,
           power_save' \in BOOLEAN, power_save' => "power" \in world
    PROVE  OnscreenInv'
<1>1. o' = s.o /\ kms' = s.kms /\ clock' = s.clock /\ world' = world
  BY DEF Becomes
<1>2. State' = s
  BY <1>1 DEF State, States
<1>3. Typed'
  BY <1>1, <1>2 DEF Typed, States, Onscreens, Updates, Frames, Infos
<1>4. (Tame => /\ Shape(o.posted, o.superseded, o.next, kms, o.dummy_flip)
               /\ Books(o.posted, o.superseded, o.next, o.infos, clock))'
  BY <1>1 DEF Even, Tame, Shape, Slots, Calm, Books
<1>5. (world = {"gamma"} /\ FirstCounter > 0 =>
          GammaInv(o.next, o.infos, kms, o.gamma, o.counter, hw, wanted))'
  BY <1>1 DEF Lit, GammaWorld, GammaInv
<1> QED BY <1>3, <1>4, <1>5 DEF OnscreenInv

LEMMA InitOnscreenInv == Init => OnscreenInv
<1> SUFFICES ASSUME Init PROVE OnscreenInv
  OBVIOUS
<1>1. /\ 0 \in 0..MaxFrames /\ 0 \in Gammas /\ 1 \in 1..MaxGammas + 1 /\ 0 \in 0..2
      /\ 0 \in Nat /\ FirstCounter \in Nat
  BY OnscreenAssumption DEF Gammas
<1>2. <<>> \in Seq(Infos) /\ Len(<<>>) = 0 /\ {} \in SUBSET Warnings
  BY EmptySeq
<1>3. o \in Onscreens
  BY <1>1, <1>2, NoFrameProperties DEF Init, Onscreens
<1>4. Typed
  BY <1>1, <1>3, NoFrameProperties DEF Init, Typed, State, States
<1>5. Shape(NoFrame, NoFrame, NoFrame, NoUpdate, FALSE)
  BY DEF Shape, Slots
<1>6. Books(NoFrame, NoFrame, NoFrame, <<>>, 0)
  BY <1>2, NoFrameProperties DEF Books, One
<1>7. FirstCounter > 0 => GammaInv(NoFrame, <<>>, NoUpdate, o.gamma, FirstCounter, 0, 1)
  <2>1. o.gamma.invalidated
    BY DEF Init
  <2>2. \A i \in 1..0 : FALSE
    OBVIOUS
  <2> QED BY <1>2, <2>1, <2>2, NoFrameProperties DEF GammaInv
<1>8. /\ o.posted = NoFrame /\ o.superseded = NoFrame /\ o.next = NoFrame /\ o.infos = <<>>
      /\ kms = NoUpdate /\ clock = 0 /\ o.dummy_flip = FALSE /\ o.counter = FirstCounter
      /\ hw = 0 /\ wanted = 1
  BY DEF Init
<1> QED BY <1>4, <1>5, <1>6, <1>7, <1>8 DEF OnscreenInv

(* The frame p.f that is drawn in place of f, and the state p.s it leaves. *)
Ready(p, f, P, U, N, I, k, c, d, G, C) ==
    /\ p.f \in Frames /\ p.f # NoFrame /\ p.f.id = f.id /\ p.f.buffer = f.buffer
    /\ \/ /\ ~G.invalidated \/ power_save
          /\ p.f = f
          /\ Is(p.s, P, U, N, I, k, c, d, G, C)
       \/ /\ p.f.gamma = wanted
          /\ Is(p.s, P, U, N, I, k, c, d, [invalidated |-> FALSE, target |-> C], C)

LEMMA Prepared ==
    ASSUME NEW s, NEW P, NEW U, NEW N, NEW I, NEW k, NEW c, NEW d, NEW G, NEW C,
           NEW f \in Frames, f # NoFrame, wanted \in Gammas,
           Is(s, P, U, N, I, k, c, d, G, C)
    PROVE  Ready(prepare_frame(s, f), f, P, U, N, I, k, c, d, G, C)
<1> DEFINE p == prepare_frame(s, f)
<1>1. s \in States /\ s.o \in Onscreens /\ s.o.gamma = G /\ s.o.counter = C /\ C \in Nat
  BY StateFields DEF Is
<1>2. CASE ~G.invalidated \/ power_save
  <2>1. p = [s |-> s, f |-> f]
    BY <1>1, <1>2 DEF prepare_frame
  <2> QED BY <1>2, <2>1 DEF Ready
<1>3. CASE ~(~G.invalidated \/ power_save)
  <2> DEFINE H == [invalidated |-> FALSE, target |-> C]
             x == [s.o EXCEPT !.gamma = H]
             g == [f EXCEPT !.update = TRUE, !.gamma = wanted]
  <2>1. p = [s |-> [s EXCEPT !.o = x], f |-> g]
    BY <1>1, <1>3 DEF prepare_frame
  <2>2. g \in Frames /\ g # NoFrame
    BY FrameProperties
  <2>3. g.id = f.id /\ g.buffer = f.buffer /\ g.gamma = wanted
    <3>1. f \in [id : 1..MaxFrames, buffer : BOOLEAN, scanout : BOOLEAN,
                 update : BOOLEAN, gamma : Gammas]
      BY DEF Frames
    <3> QED BY <3>1
  <2>4. H \in [invalidated : BOOLEAN, target : Nat]
    BY <1>1
  <2> HIDE DEF g, H
  <2>5. x \in Onscreens /\ x.gamma = H
        /\ x.posted = s.o.posted /\ x.superseded = s.o.superseded /\ x.next = s.o.next
        /\ x.infos = s.o.infos /\ x.dummy_flip = s.o.dummy_flip /\ x.counter = s.o.counter
    BY <1>1, <2>4 DEF Onscreens
  <2> HIDE DEF x
  <2>6. p.f = g /\ p.s = [s EXCEPT !.o = x]
    BY <2>1
  <2>7. Is([s EXCEPT !.o = x], P, U, N, I, k, c, d, H, C)
    BY <1>1, <2>5, OnscreenChanged DEF Is
  <2> HIDE DEF p
  <2> QED BY <2>2, <2>3, <2>6, <2>7 DEF H, p, Ready
<1> QED BY <1>2, <1>3

LEMMA InfoPushed ==
    ASSUME NEW s, NEW P, NEW U, NEW N, NEW I, NEW k, NEW c, NEW d, NEW G, NEW C,
           NEW f \in Frames, f # NoFrame, Is(s, P, U, N, I, k, c, d, G, C)
    PROVE  Is(push_frame_info(s, f), P, U, N, Append(I, Info(f, C)), k, c, d, G, C)
<1> DEFINE J == Append(I, Info(f, C))
           x == [s.o EXCEPT !.infos = J]
<1>1. s \in States /\ s.o \in Onscreens /\ s.o.infos = I /\ s.o.counter = C
      /\ I \in Seq(Infos) /\ C \in Nat
  BY StateFields DEF Is
<1>2. push_frame_info(s, f) = [s EXCEPT !.o = x]
  BY <1>1 DEF push_frame_info, Info
<1>3. J \in Seq(Infos)
  BY <1>1, Appended, FrameProperties
<1> HIDE DEF J
<1>4. x \in Onscreens /\ x.infos = J
      /\ x.posted = s.o.posted /\ x.superseded = s.o.superseded /\ x.next = s.o.next
      /\ x.gamma = s.o.gamma /\ x.dummy_flip = s.o.dummy_flip /\ x.counter = s.o.counter
  BY <1>1, <1>3 DEF Onscreens
<1> HIDE DEF x
<1> QED BY <1>1, <1>2, <1>4, OnscreenChanged DEF Is, J

LEMMA NextAssigned ==
    ASSUME NEW s, NEW P, NEW U, NEW N, NEW I, NEW k, NEW c, NEW d, NEW G, NEW C,
           NEW f \in Frames, Is(s, P, U, N, I, k, c, d, G, C)
    PROVE  /\ N = NoFrame => Is(assign_next_frame(s, f), P, U, f, I, k, c, d, G, C)
           /\ N # NoFrame => Is(assign_next_frame(s, f), P, N, f, Kept(U, I), k,
                                Under(U, I, c), d, G, C)
<1>1. s \in States /\ s.o \in Onscreens /\ s.o.next = N /\ N \in Frames
  BY StateFields DEF Is
<1>2. ASSUME N = NoFrame PROVE Is(assign_next_frame(s, f), P, U, f, I, k, c, d, G, C)
  <2> DEFINE x == [s.o EXCEPT !.next = f]
  <2>1. assign_next_frame(s, f) = [s EXCEPT !.o = x]
    BY <1>1, <1>2 DEF assign_next_frame
  <2>2. x \in Onscreens /\ x.next = f
        /\ x.posted = s.o.posted /\ x.superseded = s.o.superseded /\ x.infos = s.o.infos
        /\ x.gamma = s.o.gamma /\ x.dummy_flip = s.o.dummy_flip /\ x.counter = s.o.counter
    BY <1>1 DEF Onscreens
  <2> HIDE DEF x
  <2> QED BY <1>1, <2>1, <2>2, OnscreenChanged DEF Is
<1>3. ASSUME N # NoFrame
      PROVE  Is(assign_next_frame(s, f), P, N, f, Kept(U, I), k, Under(U, I, c), d, G, C)
  <2> DEFINE t == clear_superseded_frame(s)
             x == [t.o EXCEPT !.superseded = N, !.next = f]
  <2>1. Is(t, P, NoFrame, N, Kept(U, I), k, Under(U, I, c), d, G, C)
    BY SupersededCleared DEF Kept, Under
  <2>2. t \in States /\ t.o \in Onscreens
    BY <2>1, StateFields DEF Is
  <2>3. assign_next_frame(s, f) = [t EXCEPT !.o.superseded = N, !.o.next = f]
    BY <1>1, <1>3 DEF assign_next_frame
  <2> HIDE DEF t
  <2>4. assign_next_frame(s, f) = [t EXCEPT !.o = x]
    BY <2>2, <2>3 DEF States, Onscreens
  <2>5. x \in Onscreens /\ x.next = f /\ x.superseded = N
        /\ x.posted = t.o.posted /\ x.infos = t.o.infos
        /\ x.gamma = t.o.gamma /\ x.dummy_flip = t.o.dummy_flip /\ x.counter = t.o.counter
    BY <1>1, <2>2 DEF Onscreens
  <2> HIDE DEF x
  <2> QED BY <2>1, <2>2, <2>4, <2>5, OnscreenChanged DEF Is
<1> QED BY <1>2, <1>3

(* The counter of frames is advanced last.                                 *)
LEMMA Counted ==
    ASSUME NEW s \in States, NEW h, NEW w, Even(s), Lit(s, s.o.counter + 1, h, w)
    PROVE  LET t == [s EXCEPT !.o.counter = @ + 1]
           IN t \in States /\ Even(t) /\ Lit(t, t.o.counter, h, w)
<1> DEFINE x == [s.o EXCEPT !.counter = s.o.counter + 1]
           t == [s EXCEPT !.o.counter = @ + 1]
<1>1. s.o \in Onscreens /\ s.o.counter \in Nat
  BY StateFields
<1>2. s.o.counter + 1 \in Nat
  BY <1>1
<1>3. x \in Onscreens /\ x.counter = s.o.counter + 1
      /\ x.posted = s.o.posted /\ x.superseded = s.o.superseded /\ x.next = s.o.next
      /\ x.infos = s.o.infos /\ x.gamma = s.o.gamma /\ x.dummy_flip = s.o.dummy_flip
  BY <1>1, <1>2 DEF Onscreens
<1>4. t = [s EXCEPT !.o = x]
  OBVIOUS
<1> HIDE DEF x, t
<1>5. t \in States /\ t.o = x /\ t.kms = s.kms /\ t.clock = s.clock
  BY <1>3, <1>4, OnscreenChanged
<1>6. Even(t)
  BY <1>3, <1>5 DEF Even
<1>7. Lit(t, t.o.counter, h, w)
  BY <1>3, <1>5 DEF Lit
<1> QED BY <1>5, <1>6, <1>7 DEF t

-----------------------------------------------------------------------------
(* The clock dispatches a frame.                                           *)
NewFrame(b, scanout, vrr) ==
    [NoFrame EXCEPT !.id = drawn + 1, !.buffer = b, !.scanout = scanout, !.update = vrr]

LEMMA DispatchProperties ==
    ASSUME OnscreenInv, NEW f, Dispatch(f)
    PROVE  /\ clock \in 0..1 /\ clock + 1 \in 0..2
           /\ drawn' \in 0..MaxFrames /\ hw' = hw /\ wanted' = wanted
           /\ power_save' = power_save
           /\ \A b, scanout, vrr \in BOOLEAN :
                LET g == NewFrame(b, scanout, vrr)
                IN g \in Frames /\ g # NoFrame /\ g.gamma = 0 /\ g.buffer = b
           /\ LET g == [NoFrame EXCEPT !.id = drawn + 1]
              IN g \in Frames /\ g # NoFrame /\ ~g.buffer
           /\ Is(Dispatched, o.posted, o.superseded, o.next, o.infos, kms, clock + 1,
                 o.dummy_flip, o.gamma, o.counter)
<1>1. clock \in 0..2 /\ drawn \in 0..MaxFrames /\ MaxFrames \in Nat
  BY Before, OnscreenAssumption
<1>2. clock < 2 /\ drawn < MaxFrames /\ drawn' = drawn + 1
      /\ hw' = hw /\ wanted' = wanted /\ power_save' = power_save
  BY DEF Dispatch
<1>3. clock \in 0..1 /\ clock + 1 \in 0..2 /\ drawn + 1 \in 1..MaxFrames /\ drawn + 1 # 0
      /\ drawn' \in 0..MaxFrames
  BY <1>1, <1>2
<1>4. ASSUME NEW b \in BOOLEAN, NEW scanout \in BOOLEAN, NEW vrr \in BOOLEAN
      PROVE  LET g == NewFrame(b, scanout, vrr)
             IN g \in Frames /\ g # NoFrame /\ g.gamma = 0 /\ g.buffer = b
  <2> DEFINE g == NewFrame(b, scanout, vrr)
  <2> DEFINE R == [id : 1..MaxFrames, buffer : BOOLEAN, scanout : BOOLEAN,
                   update : BOOLEAN, gamma : Gammas]
             g1 == [NoFrame EXCEPT !.id = drawn + 1]
             g2 == [g1 EXCEPT !.buffer = b]
             g3 == [g2 EXCEPT !.scanout = scanout]
             g4 == [g3 EXCEPT !.update = vrr]
  <2>1. 0 \in Gammas /\ NoFrame.id = 0
    BY OnscreenAssumption, NoFrameProperties DEF Gammas
  <2>2. g1 \in R /\ g1.id = drawn + 1 /\ g1.gamma = 0
    BY <1>3, <2>1 DEF NoFrame
  <2> HIDE DEF g1
  <2>3. g2 \in R /\ g2.id = drawn + 1 /\ g2.gamma = 0 /\ g2.buffer = b
    BY <2>2
  <2> HIDE DEF g2
  <2>4. g3 \in R /\ g3.id = drawn + 1 /\ g3.gamma = 0 /\ g3.buffer = b
    BY <2>3
  <2> HIDE DEF g3
  <2>5. g4 \in R /\ g4.id = drawn + 1 /\ g4.gamma = 0 /\ g4.buffer = b
    BY <2>4
  <2> HIDE DEF g4
  <2>6. g = g4
    BY DEF NewFrame, g4, g3, g2, g1
  <2> HIDE DEF g
  <2>7. g \in Frames /\ g # NoFrame
    BY <1>3, <2>1, <2>5, <2>6 DEF Frames
  <2> QED BY <2>5, <2>6, <2>7 DEF g
<1>5. Is(Dispatched, o.posted, o.superseded, o.next, o.infos, kms, clock + 1,
         o.dummy_flip, o.gamma, o.counter)
  <2>1. State \in States /\ State.o = o /\ State.kms = kms /\ State.clock = clock
    BY Before
  <2>2. Dispatched = [State EXCEPT !.clock = clock + 1]
    BY <2>1 DEF Dispatched
  <2>3. Dispatched \in States /\ Dispatched.o = o /\ Dispatched.kms = kms
        /\ Dispatched.clock = clock + 1
    BY <1>3, <2>1, <2>2 DEF States
  <2> QED BY <2>3 DEF Is
<1>6. LET g == [NoFrame EXCEPT !.id = drawn + 1]
      IN g \in Frames /\ g # NoFrame /\ ~g.buffer
  <2> DEFINE g == [NoFrame EXCEPT !.id = drawn + 1]
  <2>1. 0 \in Gammas /\ NoFrame.id = 0
    BY OnscreenAssumption, NoFrameProperties DEF Gammas
  <2>2. g \in Frames /\ g.id = drawn + 1 /\ ~g.buffer
    BY <1>3, <2>1 DEF NoFrame, Frames
  <2> QED BY <1>3, <2>1, <2>2
<1> QED BY <1>2, <1>3, <1>4, <1>5, <1>6

LEMMA RedrawStep == OnscreenInv /\ Redraw => OnscreenInv'
<1> SUFFICES ASSUME OnscreenInv, Redraw PROVE OnscreenInv'
  OBVIOUS
<1>1. PICK scanout \in BOOLEAN, vrr \in BOOLEAN :
         LET f == NewFrame(TRUE, scanout, vrr)
             p == prepare_frame(Dispatched, f)
         IN Dispatch(f) /\ Becomes(swap_buffers(p.s, p.f))
  BY DEF Redraw, NewFrame
<1> DEFINE f == NewFrame(TRUE, scanout, vrr)
           p == prepare_frame(Dispatched, f)
           q == p.f
           s2 == push_frame_info(p.s, q)
           s3 == assign_next_frame(s2, q)
           m == maybe_post_next_frame(s3)
           P == o.posted
           U == o.superseded
           N == o.next
           I == o.infos
           C == o.counter
           A == Append(I, Info(q, C))
<1>2. Dispatch(f) /\ Becomes([m EXCEPT !.o.counter = @ + 1])
  BY <1>1 DEF swap_buffers
<1>3. /\ f \in Frames /\ f # NoFrame /\ f.gamma = 0 /\ f.buffer
      /\ Is(Dispatched, P, U, N, I, kms, clock + 1, o.dummy_flip, o.gamma, C)
      /\ clock \in 0..1 /\ drawn' \in 0..MaxFrames /\ hw' = hw /\ wanted' = wanted
      /\ power_save' = power_save
  <2> HIDE DEF m
  <2> QED BY <1>2, DispatchProperties
<1> HIDE DEF f
<1>4. PICK G : /\ q \in Frames /\ q # NoFrame /\ q.buffer
               /\ Is(p.s, P, U, N, I, kms, clock + 1, o.dummy_flip, G, C)
               /\ \/ G = o.gamma /\ q.gamma = 0 /\ (~o.gamma.invalidated \/ power_save)
                  \/ G = [invalidated |-> FALSE, target |-> C] /\ q.gamma = wanted
  <2>1. wanted \in Gammas
    BY Before
  <2>2. Ready(p, f, P, U, N, I, kms, clock + 1, o.dummy_flip, o.gamma, C)
    <3>1. /\ f \in Frames /\ f # NoFrame
          /\ Is(Dispatched, P, U, N, I, kms, clock + 1, o.dummy_flip, o.gamma, C)
      BY <1>3
    <3> HIDE DEF P, U, N, I, C
    <3> QED BY <2>1, <3>1, Prepared
  <2> HIDE DEF p, q, P, U, N, I, C
  <2>3. q.buffer /\ q \in Frames /\ q # NoFrame
    BY <1>3, <2>2 DEF Ready, q
  <2>4. \/ /\ ~o.gamma.invalidated \/ power_save
           /\ q = f
           /\ Is(p.s, P, U, N, I, kms, clock + 1, o.dummy_flip, o.gamma, C)
        \/ /\ q.gamma = wanted
           /\ Is(p.s, P, U, N, I, kms, clock + 1, o.dummy_flip,
                 [invalidated |-> FALSE, target |-> C], C)
    BY <2>2 DEF Ready, q
  <2> QED BY <1>3, <2>3, <2>4
<1> HIDE DEF p, q
<1>5. /\ Info(q, C) \in Infos /\ Info(q, C).id = q.id /\ Info(q, C).counter = C
  BY <1>4, Before, FrameProperties
<1>6. Is(s2, P, U, N, A, kms, clock + 1, o.dummy_flip, G, C)
  BY <1>4, InfoPushed
<1> HIDE DEF s2
<1> DEFINE V == IF N = NoFrame THEN U ELSE N
           J == IF N = NoFrame THEN A ELSE Kept(U, A)
           e == IF N = NoFrame THEN clock + 1 ELSE Under(U, A, clock + 1)
<1>7. Is(s3, P, V, q, J, kms, e, o.dummy_flip, G, C)
  BY <1>4, <1>6, NextAssigned
<1>8. Tame => Slots(P, V, q, kms, o.dummy_flip) /\ Books(P, V, q, J, e)
  <2> SUFFICES ASSUME Tame PROVE Slots(P, V, q, kms, o.dummy_flip) /\ Books(P, V, q, J, e)
    OBVIOUS
  <2>1. /\ P \in Frames /\ U \in Frames /\ N \in Frames /\ I \in Seq(Infos)
        /\ kms \in Updates /\ o.dummy_flip \in BOOLEAN
        /\ Shape(P, U, N, kms, o.dummy_flip) /\ Books(P, U, N, I, clock)
    BY Before
  <2> HIDE DEF P, U, N, I, C, s3
  <2> QED BY <1>3, <1>4, <1>5, <2>1, QueuedBooks DEF Kept, Under
<1>9. GammaWorld => GammaInv(q, J, kms, G, C + 1, hw, wanted)
  <2> SUFFICES ASSUME GammaWorld PROVE GammaInv(q, J, kms, G, C + 1, hw, wanted)
    OBVIOUS
  <2>1. /\ Tame /\ "swap" \notin world /\ "refused" \notin world /\ ~power_save /\ Calm
        /\ "undamaged" \notin world
    BY GammaWorldIsCalm, Before
  <2>2. /\ Shape(P, U, N, kms, o.dummy_flip) /\ Slots(P, U, N, kms, o.dummy_flip)
        /\ Books(P, U, N, I, clock)
        /\ GammaInv(N, I, kms, o.gamma, C, hw, wanted)
        /\ hw \in Gammas /\ wanted \in Gammas /\ wanted # 0 /\ kms \in Updates
        /\ I \in Seq(Infos) /\ C \in Nat
    BY <2>1, Before
  <2> HIDE DEF P, U, N, I, C, s3
  <2>3. N # NoFrame => P # NoFrame
    BY <2>1, <2>2 DEF Shape, Slots
  <2>4. N = NoFrame
    BY <1>3, <2>1, <2>2, <2>3 DEF Books, One
  <2>5. Len(I) \in {0, 1} /\ (Len(I) = 0 => kms = NoUpdate)
    BY <2>1, <2>2, <2>4, NoFrameProperties DEF Books, One, Slots
  <2>6. J = A
    BY <2>4
  <2>7. GammaInv(NoFrame, I, kms, o.gamma, C, hw, wanted)
    BY <2>2, <2>4
  <2>8. \/ G = o.gamma /\ q.gamma = 0 /\ ~o.gamma.invalidated
        \/ G = [invalidated |-> FALSE, target |-> C] /\ q.gamma = wanted
    BY <1>4, <2>1
  <2>9. GammaInv(q, A, kms, G, C + 1, hw, wanted)
    BY <1>4, <1>5, <2>2, <2>5, <2>7, <2>8, QueuedGamma
  <2> QED BY <2>6, <2>9
<1>10. /\ m \in States /\ m.o.counter = C /\ Even(m) /\ Lit(m, C + 1, hw, wanted)
  <2>1. /\ C + 1 \in Nat /\ hw \in Gammas /\ wanted \in Gammas /\ wanted # 0
        /\ power_save \in BOOLEAN /\ (power_save => "power" \in world)
    BY Before
  <2> HIDE DEF P, V, J, e, C, s3
  <2> QED BY <1>7, <1>8, <1>9, <2>1, NextPostedEven
<1> DEFINE t == [m EXCEPT !.o.counter = @ + 1]
<1> HIDE DEF m
<1>11. t \in States /\ Even(t) /\ Lit(t, t.o.counter, hw', wanted')
  BY <1>3, <1>10, Counted
<1>12. /\ hw' \in Gammas /\ wanted' \in 1..MaxGammas + 1 /\ power_save' \in BOOLEAN
       /\ power_save' => "power" \in world
  BY <1>3, Before DEF OnscreenInv, Typed
<1> HIDE DEF t
<1>13. Becomes(t)
  BY <1>2 DEF t
<1> QED BY <1>3, <1>11, <1>12, <1>13, After

LEMMA RedrawFailsStep == OnscreenInv /\ RedrawFails => OnscreenInv'
<1> SUFFICES ASSUME OnscreenInv, RedrawFails PROVE OnscreenInv'
  OBVIOUS
<1> DEFINE f == [NoFrame EXCEPT !.id = drawn + 1]
           p == prepare_frame(Dispatched, f)
           q == p.f
           s2 == push_frame_info(p.s, q)
           s3 == notify_frame_complete(s2)
           s4 == release(s3, q)
           m == notify_clock(s4)
           P == o.posted
           U == o.superseded
           N == o.next
           I == o.infos
           C == o.counter
           A == Append(I, Info(q, C))
<1>1. "swap" \in world /\ Dispatch(f) /\ Becomes([m EXCEPT !.o.counter = @ + 1])
  BY DEF RedrawFails, swap_failed
<1>3. /\ f \in Frames /\ f # NoFrame
      /\ Is(Dispatched, P, U, N, I, kms, clock + 1, o.dummy_flip, o.gamma, C)
      /\ drawn' \in 0..MaxFrames /\ hw' = hw /\ wanted' = wanted
      /\ power_save' = power_save
  <2> HIDE DEF m
  <2> QED BY <1>1, DispatchProperties
<1> HIDE DEF f
<1>4. PICK G : /\ q \in Frames /\ q # NoFrame
               /\ Is(p.s, P, U, N, I, kms, clock + 1, o.dummy_flip, G, C)
  <2>1. wanted \in Gammas
    BY Before
  <2>2. Ready(p, f, P, U, N, I, kms, clock + 1, o.dummy_flip, o.gamma, C)
    <3> HIDE DEF P, U, N, I, C
    <3> QED BY <1>3, <2>1, Prepared
  <2> HIDE DEF p, P, U, N, I, C
  <2> QED BY <2>2 DEF Ready
<1> HIDE DEF p, q
<1>5. Info(q, C) \in Infos
  BY <1>4, Before, FrameProperties
<1>6. Is(s2, P, U, N, A, kms, clock + 1, o.dummy_flip, G, C)
  BY <1>4, InfoPushed
<1> HIDE DEF s2
<1>7. Is(s3, P, U, N, Rest(A), kms, Left(A, clock + 1), o.dummy_flip, G, C)
  BY <1>6, FrameComplete
<1> HIDE DEF s3
<1>8. Is(s4, P, U, N, Rest(A), kms, Left(A, clock + 1), o.dummy_flip, G, C)
  BY <1>7, Released
<1> HIDE DEF s4
<1>9. Is(m, P, U, N, Rest(A), kms, Dec(Left(A, clock + 1)), o.dummy_flip, G, C)
  BY <1>8, NotifyClock
<1> HIDE DEF m
<1>10. Tame => /\ Shape(P, U, N, kms, o.dummy_flip)
               /\ Books(P, U, N, Rest(A), Dec(Left(A, clock + 1)))
  <2>1. I \in Seq(Infos) /\ (Tame => Shape(P, U, N, kms, o.dummy_flip)
                                      /\ Books(P, U, N, I, clock))
    BY Before
  <2> HIDE DEF P, U, N, I, C
  <2>2. A \in Seq(Infos) /\ Len(A) = Len(I) + 1
    BY <1>5, <2>1, Appended
  <2> HIDE DEF A
  <2>3. Len(Rest(A)) = Dec(Len(A)) /\ Len(I) \in Nat
    BY <2>1, <2>2, RestProperties
  <2>4. \A n \in Nat : Dec(n + 1) = n
    BY DEF Dec
  <2>5. Len(Rest(A)) = Len(I)
    BY <2>2, <2>3, <2>4
  <2>6. Tame => Len(I) = One(P # NoFrame) + One(U.buffer) + One(N.buffer)
    BY <2>1 DEF Books
  <2> QED BY <1>1, <2>1, <2>5, <2>6 DEF Books
<1>11. ~GammaWorld
  BY <1>1, GammaWorldIsCalm
<1>12. m \in States /\ Even(m) /\ Lit(m, m.o.counter + 1, hw', wanted')
  BY <1>9, <1>10, <1>11 DEF Is, Even, Lit
<1> DEFINE t == [m EXCEPT !.o.counter = @ + 1]
<1>13. t \in States /\ Even(t) /\ Lit(t, t.o.counter, hw', wanted')
  BY <1>12, Counted
<1>14. /\ hw' \in Gammas /\ wanted' \in 1..MaxGammas + 1 /\ power_save' \in BOOLEAN
       /\ power_save' => "power" \in world
  BY <1>3, Before DEF OnscreenInv, Typed
<1> HIDE DEF t
<1>15. Becomes(t)
  BY <1>1 DEF t
<1> QED BY <1>3, <1>13, <1>14, <1>15, After

LEMMA NoRedrawStep == OnscreenInv /\ NoRedraw => OnscreenInv'
<1> SUFFICES ASSUME OnscreenInv, NoRedraw PROVE OnscreenInv'
  OBVIOUS
<1> DEFINE f == [NoFrame EXCEPT !.id = drawn + 1]
           p == prepare_frame(Dispatched, f)
           s == p.s
           q == p.f
           m == finish_frame(s, q)
           P == o.posted
           U == o.superseded
           N == o.next
           I == o.infos
           C == o.counter
           d == o.dummy_flip
<1>1. "undamaged" \in world /\ Dispatch(f) /\ Becomes(m)
  BY DEF NoRedraw
<1>3. /\ f \in Frames /\ f # NoFrame /\ ~f.buffer /\ clock \in 0..1
      /\ Is(Dispatched, P, U, N, I, kms, clock + 1, d, o.gamma, C)
      /\ drawn' \in 0..MaxFrames /\ hw' = hw /\ wanted' = wanted
      /\ power_save' = power_save
  <2> HIDE DEF m
  <2> QED BY <1>1, DispatchProperties
<1> HIDE DEF f
<1>4. PICK G : /\ q \in Frames /\ q # NoFrame /\ ~q.buffer
               /\ Is(s, P, U, N, I, kms, clock + 1, d, G, C)
  <2>1. wanted \in Gammas
    BY Before
  <2>2. Ready(p, f, P, U, N, I, kms, clock + 1, d, o.gamma, C)
    <3> HIDE DEF P, U, N, I, C, d
    <3> QED BY <1>3, <2>1, Prepared
  <2> HIDE DEF p, P, U, N, I, C, d
  <2> QED BY <1>3, <2>2 DEF Ready
<1> HIDE DEF p, q, s
<1>5. /\ P \in Frames /\ U \in Frames /\ N \in Frames /\ I \in Seq(Infos) /\ C \in Nat
      /\ kms \in Updates /\ d \in BOOLEAN
      /\ Tame => Shape(P, U, N, kms, d) /\ Books(P, U, N, I, clock)
  BY Before
<1>6. ~GammaWorld
  BY <1>1, GammaWorldIsCalm
<1>7. s \in States /\ s.o \in Onscreens /\ s.o.posted = P /\ s.o.next = N
  BY <1>4, StateFields DEF Is
<1> DEFINE L == Append(<<>>, "finish_frame")
<1>8. /\ Sent(q) \in Frames /\ Sent(q) # NoFrame /\ Sent(q).id = q.id
      /\ Update(q, L) \in Updates /\ Update(q, L) # NoUpdate /\ Update(q, L).id = q.id
      /\ Info(q, C) \in Infos /\ Info(q, C).id = q.id
  <2>1. L \in Seq(Listeners)
    BY DEF Listeners
  <2> HIDE DEF L
  <2> QED BY <1>4, <1>5, <2>1, FrameProperties
<1> HIDE DEF P, U, N, I, C, d, L, m
<1>9. Tame =>
      /\ N # NoFrame => FALSE
      /\ P # NoFrame => Shape(P, U, q, kms, d) /\ Books(P, U, q, I, clock + 1)
      /\ P = NoFrame => /\ Shape(Sent(q), U, N, Update(q, L), d)
                        /\ Books(Sent(q), U, N, Append(I, Info(q, C)), clock + 1)
  <2>1. Tame => WaitsOrPosted(q, Sent(q), Info(q, C), Update(q, L), P, U, N, I, kms, clock, d)
    <3> SUFFICES ASSUME Tame
                 PROVE  WaitsOrPosted(q, Sent(q), Info(q, C), Update(q, L),
                                      P, U, N, I, kms, clock, d)
      OBVIOUS
    <3>1. /\ "undamaged" \in world /\ q \in Frames /\ q # NoFrame /\ ~q.buffer
          /\ Shape(P, U, N, kms, d) /\ Books(P, U, N, I, clock) /\ clock \in 0..1
      BY <1>1, <1>3, <1>4, <1>5
    <3>2. \A Q \in Frames, x \in Infos, l \in Updates :
             Q # NoFrame /\ Q.id = q.id /\ x.id = q.id /\ l # NoUpdate /\ l.id = q.id
             => WaitsOrPosted(q, Q, x, l, P, U, N, I, kms, clock, d)
      BY <1>5, <3>1, UndamagedBooks, SMTT(120)
    <3> QED BY <1>8, <3>2
  <2> QED BY <2>1 DEF WaitsOrPosted
<1>10. m \in States /\ Even(m)
  <2>1. CASE ~q.update /\ (~s.o.needs_flush \/ P # NoFrame)
    <3>1. m = notify_clock(s)
      BY <1>7, <2>1 DEF finish_frame, m
    <3>2. Dec(clock + 1) = clock
      BY <1>3 DEF Dec
    <3>3. Is(m, P, U, N, I, kms, clock, d, G, C)
      BY <1>4, <3>1, <3>2, NotifyClock
    <3> QED BY <1>5, <3>3 DEF Is, Even
  <2>2. CASE ~(~q.update /\ (~s.o.needs_flush \/ P # NoFrame)) /\ P # NoFrame /\ N = NoFrame
    <3>1. m = assign_next_frame(s, q)
      BY <1>7, <2>2 DEF finish_frame, m
    <3>2. Is(m, P, U, q, I, kms, clock + 1, d, G, C)
      BY <1>4, <2>2, <3>1, NextAssigned
    <3> QED BY <1>9, <2>2, <3>2 DEF Is, Even
  <2>3. CASE ~(~q.update /\ (~s.o.needs_flush \/ P # NoFrame)) /\ P # NoFrame /\ N # NoFrame
    <3> DEFINE g == IF q.gamma # 0 THEN q.gamma ELSE N.gamma
               n1 == [N EXCEPT !.update = TRUE, !.gamma = g]
               x == [s.o EXCEPT !.next = n1]
               t == [s EXCEPT !.o = x]
    <3>1. m = notify_clock([s EXCEPT !.o.next.update = TRUE, !.o.next.gamma = g])
      BY <1>7, <2>3 DEF finish_frame, m
    <3>2. g \in Gammas
      BY <1>4, <1>5, NoFrameProperties
    <3> HIDE DEF g
    <3>3. n1 \in Frames
      BY <1>5, <2>3, <3>2, FrameProperties
    <3>4. [s EXCEPT !.o.next.update = TRUE, !.o.next.gamma = g] = t
      <4>1. [s EXCEPT !.o.next.update = TRUE, !.o.next.gamma = g]
              = [s EXCEPT !.o = [s.o EXCEPT !.next = [s.o.next EXCEPT !.update = TRUE, !.gamma = g]]]
        BY <1>7 DEF States, Onscreens
      <4> QED BY <1>7, <4>1
    <3> HIDE DEF n1
    <3>5. x \in Onscreens /\ x.next = n1
          /\ x.posted = s.o.posted /\ x.superseded = s.o.superseded /\ x.infos = s.o.infos
          /\ x.gamma = s.o.gamma /\ x.dummy_flip = s.o.dummy_flip /\ x.counter = s.o.counter
      BY <1>7, <3>3 DEF Onscreens
    <3> HIDE DEF x
    <3>6. Is(t, P, U, n1, I, kms, clock + 1, d, G, C)
      BY <1>4, <1>7, <3>5, OnscreenChanged DEF Is
    <3> HIDE DEF t
    <3>7. Is(m, P, U, n1, I, kms, Dec(clock + 1), d, G, C)
      BY <3>1, <3>4, <3>6, NotifyClock
    <3>8. ~Tame
      BY <1>9, <2>3
    <3> QED BY <3>7, <3>8 DEF Is, Even
  <2>4. CASE ~(~q.update /\ (~s.o.needs_flush \/ P # NoFrame)) /\ P = NoFrame
    <3> DEFINE t == post_nonprimary_plane_update(s, q, <<>>)
               x == [t.o EXCEPT !.needs_flush = FALSE]
    <3>1. m = [t EXCEPT !.o.needs_flush = FALSE]
      BY <1>7, <2>4 DEF finish_frame, m
    <3>2. <<>> \in Seq(Listeners)
      BY EmptySeq
    <3>3. Is(t, Sent(q), U, N, Append(I, Info(q, C)), Update(q, L), clock + 1, d, G, C)
      BY <1>4, <3>2, NonprimaryPosted DEF L
    <3> HIDE DEF t
    <3>4. t \in States /\ t.o \in Onscreens
      BY <3>3, StateFields DEF Is
    <3>5. x \in Onscreens
          /\ x.posted = t.o.posted /\ x.superseded = t.o.superseded /\ x.infos = t.o.infos
          /\ x.gamma = t.o.gamma /\ x.dummy_flip = t.o.dummy_flip /\ x.counter = t.o.counter
          /\ x.next = t.o.next
      BY <3>4 DEF Onscreens
    <3>6. m = [t EXCEPT !.o = x]
      BY <3>1
    <3> HIDE DEF x
    <3>7. Is(m, Sent(q), U, N, Append(I, Info(q, C)), Update(q, L), clock + 1, d, G, C)
      BY <3>3, <3>4, <3>5, <3>6, OnscreenChanged DEF Is
    <3> QED BY <1>9, <2>4, <3>7 DEF Is, Even
  <2> QED BY <2>1, <2>2, <2>3, <2>4
<1>11. Lit(m, m.o.counter, hw', wanted')
  BY <1>6 DEF Lit
<1>12. /\ hw' \in Gammas /\ wanted' \in 1..MaxGammas + 1 /\ power_save' \in BOOLEAN
       /\ power_save' => "power" \in world
  BY <1>3, Before DEF OnscreenInv, Typed
<1>13. Becomes(m)
  BY <1>1 DEF m
<1> QED BY <1>3, <1>10, <1>11, <1>12, <1>13, After

-----------------------------------------------------------------------------
(* KMS answers.                                                            *)
LEMMA AnsweredIs ==
    ASSUME OnscreenInv, NEW H \in [invalidated : BOOLEAN, target : Nat]
    PROVE  /\ Is(Answered, o.posted, o.superseded, o.next, o.infos, NoUpdate, clock,
                 o.dummy_flip, o.gamma, o.counter)
           /\ Is([Answered EXCEPT !.o.gamma = H], o.posted, o.superseded, o.next, o.infos,
                 NoUpdate, clock, o.dummy_flip, H, o.counter)
<1>1. State \in States /\ State.o = o /\ State.kms = kms /\ State.clock = clock
      /\ o \in Onscreens
  BY Before
<1>2. Answered \in States /\ Answered.o = o /\ Answered.kms = NoUpdate /\ Answered.clock = clock
  BY <1>1, NoFrameProperties DEF Answered, States
<1> DEFINE x == [o EXCEPT !.gamma = H]
<1>3. x \in Onscreens /\ x.gamma = H
      /\ x.posted = o.posted /\ x.superseded = o.superseded /\ x.next = o.next
      /\ x.infos = o.infos /\ x.dummy_flip = o.dummy_flip /\ x.counter = o.counter
  BY <1>1 DEF Onscreens
<1>4. [Answered EXCEPT !.o.gamma = H] = [Answered EXCEPT !.o = x]
  BY <1>2
<1> HIDE DEF x
<1>5. Is([Answered EXCEPT !.o = x], o.posted, o.superseded, o.next, o.infos,
         NoUpdate, clock, o.dummy_flip, H, o.counter)
  BY <1>2, <1>3, OnscreenChanged DEF Is
<1>6. Is(Answered, o.posted, o.superseded, o.next, o.infos, NoUpdate, clock,
         o.dummy_flip, o.gamma, o.counter)
  BY <1>2 DEF Is
<1> QED BY <1>4, <1>5, <1>6

LEMMA HwGammaProperties ==
    ASSUME OnscreenInv
    PROVE  HwGamma \in Gammas /\ HwGamma = IF kms.gamma # 0 THEN kms.gamma ELSE hw
BY Before, NoFrameProperties DEF HwGamma

(* In H the answer leaves the gamma state, whose target it reached or not. *)
LEMMA AnswerStep ==
    ASSUME OnscreenInv, kms # NoUpdate,
           NEW H \in [invalidated : BOOLEAN, target : Nat], NEW s,
           Is(s, NoFrame, o.superseded, o.next, Rest(o.infos), NoUpdate,
              Left(o.infos, clock), o.dummy_flip, H, o.counter),
           Becomes(maybe_post_next_frame(s)),
           hw' \in {hw, HwGamma}, UNCHANGED <<wanted, power_save, drawn>>,
           o.gamma.invalidated => H.invalidated,
           o.infos # <<>> => /\ \/ H.invalidated
                                \/ H.target = o.gamma.target
                                \/ o.infos[1].counter >= o.gamma.target
                             /\ kms.gamma = wanted /\ o.gamma.target = o.infos[1].counter
                                /\ o.gamma.target # 0 /\ hw' # wanted => H.invalidated
    PROVE  OnscreenInv'
<1> DEFINE U == o.superseded
           N == o.next
           I == o.infos
           d == o.dummy_flip
           m == maybe_post_next_frame(s)
<1>1. /\ o.posted \in Frames /\ U \in Frames /\ N \in Frames /\ I \in Seq(Infos)
      /\ kms \in Updates /\ clock \in 0..2 /\ d \in BOOLEAN /\ o.counter \in Nat
      /\ o.gamma \in [invalidated : BOOLEAN, target : Nat]
      /\ hw \in Gammas /\ wanted \in Gammas /\ wanted # 0
      /\ power_save \in BOOLEAN /\ (power_save => "power" \in world)
  BY Before
<1>2. hw' \in Gammas /\ hw' \in {hw, IF kms.gamma # 0 THEN kms.gamma ELSE hw}
  BY <1>1, HwGammaProperties
<1>3. Tame => /\ I # <<>> /\ Slots(NoFrame, U, N, NoUpdate, d)
              /\ Books(NoFrame, U, N, Rest(I), Left(I, clock))
  <2> SUFFICES ASSUME Tame
               PROVE  /\ I # <<>> /\ Slots(NoFrame, U, N, NoUpdate, d)
                      /\ Books(NoFrame, U, N, Rest(I), Left(I, clock))
    OBVIOUS
  <2>1. Slots(o.posted, U, N, kms, d) /\ Books(o.posted, U, N, I, clock)
    BY Before
  <2>2. o.posted # NoFrame
    BY <2>1 DEF Slots
  <2> HIDE DEF U, N, I, d
  <2> QED BY <1>1, <2>1, <2>2, AnsweredBooks
<1>4. GammaWorld => GammaInv(N, Rest(I), NoUpdate, H, o.counter, hw', wanted)
  <2> SUFFICES ASSUME GammaWorld
               PROVE  GammaInv(N, Rest(I), NoUpdate, H, o.counter, hw', wanted)
    OBVIOUS
  <2>1. /\ Tame /\ Calm /\ "undamaged" \notin world
    BY GammaWorldIsCalm
  <2>2. /\ Slots(o.posted, U, N, kms, d) /\ Books(o.posted, U, N, I, clock)
        /\ GammaInv(N, I, kms, o.gamma, o.counter, hw, wanted)
    BY <2>1, Before
  <2>3. o.posted # NoFrame /\ U = NoFrame /\ (N # NoFrame => N.buffer)
    BY <2>1, <2>2 DEF Slots
  <2>4. Len(I) \in {1, 2} /\ (N # NoFrame => Len(I) = 2)
    BY <2>2, <2>3, NoFrameProperties DEF Books, One
  <2>5. /\ I # <<>> /\ (H.invalidated \/ H.target = o.gamma.target \/ I[1].counter >= o.gamma.target)
        /\ kms.gamma = wanted /\ o.gamma.target = I[1].counter /\ hw' # wanted => H.invalidated
    <3>1. 1 \in 1..Len(I)
      <4>1. 1 \in 1..1 /\ 1 \in 1..2
        OBVIOUS
      <4>2. Len(I) = 1 \/ Len(I) = 2
        BY <2>4
      <4> QED BY <4>1, <4>2
    <3>2. I[1].counter \in 1..o.counter - 1
      BY <2>2, <3>1 DEF GammaInv
    <3>3. I[1].counter # 0
      BY <3>2
    <3>4. I # <<>>
      BY <1>3, <2>1
    <3> QED BY <3>3, <3>4
  <2> DEFINE G == o.gamma
             C == o.counter
             w == wanted
             h == hw
             j == hw'
             k == kms
  <2>6. /\ G \in [invalidated : BOOLEAN, target : Nat] /\ C \in Nat /\ h \in Gammas
        /\ j \in Gammas /\ w \in Gammas /\ w # 0 /\ k \in Updates /\ N \in Frames
        /\ I \in Seq(Infos) /\ j \in {h, IF k.gamma # 0 THEN k.gamma ELSE h}
        /\ G.invalidated => H.invalidated
        /\ GammaInv(N, I, k, G, C, h, w)
        /\ H.invalidated \/ H.target = G.target \/ I[1].counter >= G.target
        /\ k.gamma = w /\ G.target = I[1].counter /\ j # w => H.invalidated
    BY <1>1, <1>2, <2>2, <2>5
  <2> HIDE DEF U, N, I, d, G, C, w, h, j, k
  <2>7. GammaInv(N, Rest(I), NoUpdate, H, C, j, w)
    BY <2>4, <2>6, AnsweredGamma
  <2> QED BY <2>7 DEF C, j, w
<1>5. Is(s, NoFrame, U, N, Rest(I), NoUpdate, Left(I, clock), d, H, o.counter)
  OBVIOUS
<1>6. m \in States /\ m.o.counter = o.counter /\ Even(m) /\ Lit(m, o.counter, hw', wanted)
  <2> DEFINE j == hw'
             w == wanted
             C == o.counter
  <2>1. /\ j \in Gammas /\ C \in Nat /\ w \in Gammas /\ w # 0
        /\ GammaWorld => GammaInv(N, Rest(I), NoUpdate, H, C, j, w)
    BY <1>1, <1>2, <1>4
  <2> HIDE DEF j, w, C, U, N, I, d
  <2>2. m \in States /\ m.o.counter = C /\ Even(m) /\ Lit(m, C, j, w)
    BY <1>1, <1>3, <1>5, <2>1, NextPostedEven DEF C
  <2> QED BY <2>2 DEF C, j, w
<1>7. /\ wanted' = wanted /\ power_save' = power_save /\ drawn' = drawn
      /\ wanted' \in 1..MaxGammas + 1 /\ drawn' \in 0..MaxFrames
  BY DEF OnscreenInv, Typed
<1> HIDE DEF m
<1>8. Becomes(m)
  BY DEF m
<1>9. Lit(m, m.o.counter, hw', wanted')
  BY <1>6, <1>7
<1> QED BY <1>1, <1>2, <1>6, <1>7, <1>8, <1>9, After

LEMMA PresentedStep == OnscreenInv /\ notify_view_crtc_presented => OnscreenInv'
<1> SUFFICES ASSUME OnscreenInv, notify_view_crtc_presented PROVE OnscreenInv'
  OBVIOUS
<1>1. kms # NoUpdate /\ hw' = HwGamma /\ UNCHANGED <<wanted, power_save, drawn>>
  BY DEF notify_view_crtc_presented
<1>2. CASE o.infos = <<>>
  <2>1. Becomes(Answered)
    BY <1>2 DEF notify_view_crtc_presented
  <2>2. ~Tame
    <3> SUFFICES ASSUME Tame PROVE FALSE
      OBVIOUS
    <3>1. Slots(o.posted, o.superseded, o.next, kms, o.dummy_flip)
          /\ Books(o.posted, o.superseded, o.next, o.infos, clock)
      BY Before
    <3>2. o.posted # NoFrame
      BY <1>1, <3>1 DEF Slots
    <3>3. /\ o.posted \in Frames /\ o.superseded \in Frames /\ o.next \in Frames
          /\ o.infos \in Seq(Infos) /\ kms \in Updates /\ clock \in 0..2
          /\ o.dummy_flip \in BOOLEAN
      BY Before
    <3>4. Len(o.infos) = 0
      BY <1>2, <3>3, RestProperties
    <3>5. Len(o.infos) = 1 + One(o.superseded.buffer) + One(o.next.buffer)
      BY <3>1, <3>2 DEF Books, One
    <3> QED BY <3>4, <3>5 DEF One
  <2>3. Answered \in States
    BY Before, AnsweredIs DEF Is
  <2>4. Even(Answered) /\ Lit(Answered, Answered.o.counter, hw', wanted')
    BY <2>2, GammaWorldIsCalm DEF Even, Lit
  <2>5. /\ hw' \in Gammas /\ wanted' \in 1..MaxGammas + 1 /\ drawn' \in 0..MaxFrames
        /\ power_save' \in BOOLEAN /\ (power_save' => "power" \in world)
    BY <1>1, HwGammaProperties DEF OnscreenInv, Typed
  <2> QED BY <2>1, <2>3, <2>4, <2>5, After
<1>3. CASE o.infos # <<>>
  <2> DEFINE r == o.infos[1].counter >= o.gamma.target
             H == IF r THEN [o.gamma EXCEPT !.target = 0] ELSE o.gamma
             s == IF r THEN [Answered EXCEPT !.o.gamma.target = 0] ELSE Answered
             s1 == notify_frame_complete(s)
             s2 == promote_posted_frame(s1)
  <2>1. Becomes(maybe_post_next_frame(s2))
    BY <1>3 DEF notify_view_crtc_presented, FrameCounter
  <2>2. /\ H \in [invalidated : BOOLEAN, target : Nat] /\ H.invalidated = o.gamma.invalidated
        /\ r \/ H.target = o.gamma.target
    BY Before
  <2>3. Is(s, o.posted, o.superseded, o.next, o.infos, NoUpdate, clock,
           o.dummy_flip, H, o.counter)
    <3>1. Answered.o = o
      BY Before DEF Answered, States
    <3>2. [Answered EXCEPT !.o.gamma.target = 0]
             = [Answered EXCEPT !.o.gamma = [o.gamma EXCEPT !.target = 0]]
      BY <3>1
    <3> QED BY <2>2, <3>2, AnsweredIs
  <2>4. /\ \/ H.invalidated
           \/ H.target = o.gamma.target
           \/ o.infos[1].counter >= o.gamma.target
        /\ kms.gamma = wanted /\ o.gamma.target = o.infos[1].counter
           /\ hw' # wanted => H.invalidated
    BY <1>1, <2>2, HwGammaProperties, Before
  <2> HIDE DEF r, H, s
  <2>5. Is(s1, o.posted, o.superseded, o.next, Rest(o.infos), NoUpdate,
           Left(o.infos, clock), o.dummy_flip, H, o.counter)
    BY <2>3, FrameComplete
  <2> HIDE DEF s1
  <2>6. Is(s2, NoFrame, o.superseded, o.next, Rest(o.infos), NoUpdate,
           Left(o.infos, clock), o.dummy_flip, H, o.counter)
    BY <2>5, PostedCleared
  <2> HIDE DEF s2
  <2> QED BY <1>1, <2>1, <2>2, <2>4, <2>6, AnswerStep
<1> QED BY <1>2, <1>3

LEMMA ReadyStep == OnscreenInv /\ page_flip_feedback_ready => OnscreenInv'
<1> SUFFICES ASSUME OnscreenInv, page_flip_feedback_ready PROVE OnscreenInv'
  OBVIOUS
<1> DEFINE s1 == notify_frame_complete(Answered)
           s2 == promote_posted_frame(s1)
<1>1. kms # NoUpdate /\ hw' = HwGamma /\ UNCHANGED <<wanted, power_save, drawn>>
      /\ Becomes(maybe_post_next_frame(s2))
  BY DEF page_flip_feedback_ready
<1>2. o.gamma \in [invalidated : BOOLEAN, target : Nat] /\ wanted # 0
  BY Before
<1>3. Is(Answered, o.posted, o.superseded, o.next, o.infos, NoUpdate, clock,
         o.dummy_flip, o.gamma, o.counter)
  BY <1>2, AnsweredIs
<1>4. kms.gamma = wanted => hw' = wanted
  BY <1>1, <1>2, HwGammaProperties
<1>5. Is(s1, o.posted, o.superseded, o.next, Rest(o.infos), NoUpdate,
         Left(o.infos, clock), o.dummy_flip, o.gamma, o.counter)
  BY <1>3, FrameComplete
<1> HIDE DEF s1
<1>6. Is(s2, NoFrame, o.superseded, o.next, Rest(o.infos), NoUpdate,
         Left(o.infos, clock), o.dummy_flip, o.gamma, o.counter)
  BY <1>5, PostedCleared
<1> HIDE DEF s2
<1> QED BY <1>1, <1>2, <1>4, <1>6, AnswerStep

LEMMA DiscardedStep == OnscreenInv /\ page_flip_feedback_discarded => OnscreenInv'
<1> SUFFICES ASSUME OnscreenInv, page_flip_feedback_discarded PROVE OnscreenInv'
  OBVIOUS
<1> DEFINE again == /\ o.gamma.target # 0
                    /\ o.infos # <<>>
                    /\ FrameCounter >= o.gamma.target
           H == IF again THEN [invalidated |-> TRUE, target |-> 0] ELSE o.gamma
           s == IF again THEN [Answered EXCEPT !.o.gamma = [invalidated |-> TRUE,
                                                            target |-> 0]]
                         ELSE Answered
           s1 == notify_frame_complete(s)
           s2 == clear_posted_fb(s1)
<1>1. kms # NoUpdate /\ hw' \in {hw, HwGamma} /\ UNCHANGED <<wanted, power_save, drawn>>
      /\ Becomes(maybe_post_next_frame(s2))
  BY DEF page_flip_feedback_discarded
<1>2. o.gamma \in [invalidated : BOOLEAN, target : Nat] /\ o.gamma.target \in Nat
  BY Before
<1>3. /\ H \in [invalidated : BOOLEAN, target : Nat]
      /\ o.gamma.invalidated => H.invalidated
      /\ H.invalidated \/ H = o.gamma
  BY <1>2
<1>4. Is(s, o.posted, o.superseded, o.next, o.infos, NoUpdate, clock,
         o.dummy_flip, H, o.counter)
  <2>1. [invalidated |-> TRUE, target |-> 0] \in [invalidated : BOOLEAN, target : Nat]
    OBVIOUS
  <2> QED BY <1>2, <2>1, AnsweredIs
<1>5. o.infos # <<>> /\ o.gamma.target = o.infos[1].counter /\ o.gamma.target # 0
      => H.invalidated
  <2> SUFFICES ASSUME o.infos # <<>>, o.gamma.target = o.infos[1].counter, o.gamma.target # 0
               PROVE  H.invalidated
    OBVIOUS
  <2>1. FrameCounter = o.infos[1].counter
    BY DEF FrameCounter
  <2>2. FrameCounter >= o.gamma.target
    BY <1>2, <2>1
  <2> QED BY <2>2
<1> HIDE DEF H, s, again
<1>6. Is(s1, o.posted, o.superseded, o.next, Rest(o.infos), NoUpdate,
         Left(o.infos, clock), o.dummy_flip, H, o.counter)
  BY <1>4, FrameComplete
<1> HIDE DEF s1
<1>7. Is(s2, NoFrame, o.superseded, o.next, Rest(o.infos), NoUpdate,
         Left(o.infos, clock), o.dummy_flip, H, o.counter)
  BY <1>6, PostedCleared
<1> HIDE DEF s2
<1> QED BY <1>1, <1>3, <1>5, <1>7, AnswerStep

LEMMA ResultIs ==
    ASSUME NEW s, NEW P, NEW U, NEW N, NEW I, NEW k, NEW c, NEW d, NEW G, NEW C, NEW l,
           Is(s, P, U, N, I, k, c, d, G, C)
    PROVE  /\ result_feedback(s, l) \in States
           /\ I # <<>> => Is(result_feedback(s, l), NoFrame, U, N, Rest(I), k, Left(I, c), d, G, C)
           /\ \E Q, J, e : Is(result_feedback(s, l), Q, U, N, J, k, e, d, G, C)
<1>1. s \in States /\ s.o \in Onscreens /\ s.o.infos = I
  BY StateFields DEF Is
<1>2. CASE l = "finish_frame" /\ I = <<>>
  <2> DEFINE x == [s.o EXCEPT !.warnings = s.o.warnings \cup {"no frame info"}]
  <2>1. result_feedback(s, l) = [s EXCEPT !.o = x]
    BY <1>1, <1>2 DEF result_feedback
  <2>2. s.o.warnings \cup {"no frame info"} \in SUBSET Warnings
    BY <1>1, StateFields DEF Warnings
  <2>3. x \in Onscreens
        /\ x.posted = s.o.posted /\ x.superseded = s.o.superseded /\ x.next = s.o.next
        /\ x.infos = s.o.infos /\ x.dummy_flip = s.o.dummy_flip /\ x.gamma = s.o.gamma
        /\ x.counter = s.o.counter
    BY <1>1, <2>2 DEF Onscreens
  <2> HIDE DEF x
  <2>4. Is([s EXCEPT !.o = x], P, U, N, I, k, c, d, G, C)
    BY <1>1, <2>3, OnscreenChanged DEF Is
  <2>5. [s EXCEPT !.o = x] \in States
    BY <2>4 DEF Is
  <2> QED BY <1>2, <2>1, <2>4, <2>5
<1>3. CASE ~(l = "finish_frame" /\ I = <<>>)
  <2> DEFINE s1 == notify_frame_complete(s)
  <2>1. result_feedback(s, l) = clear_posted_fb(s1)
    BY <1>1, <1>3 DEF result_feedback
  <2>2. Is(s1, P, U, N, Rest(I), k, Left(I, c), d, G, C)
    BY FrameComplete
  <2> HIDE DEF s1
  <2>3. Is(clear_posted_fb(s1), NoFrame, U, N, Rest(I), k, Left(I, c), d, G, C)
    BY <2>2, PostedCleared
  <2>4. clear_posted_fb(s1) \in States
    BY <2>3 DEF Is
  <2> QED BY <2>1, <2>3, <2>4
<1> QED BY <1>2, <1>3

LEMMA UpdateFailedStep == OnscreenInv /\ UpdateFailed => OnscreenInv'
<1> SUFFICES ASSUME OnscreenInv, UpdateFailed PROVE OnscreenInv'
  OBVIOUS
<1> DEFINE L == kms.listeners
           t == result_feedback(Answered, L[1])
           m == results_feedback(Answered, L)
           U == o.superseded
           N == o.next
           I == o.infos
           d == o.dummy_flip
<1>1. "refused" \in world /\ kms # NoUpdate /\ Becomes(m)
      /\ UNCHANGED <<hw, wanted, power_save, drawn>>
  BY DEF UpdateFailed
<1>2. Is(Answered, o.posted, U, N, I, NoUpdate, clock, d, o.gamma, o.counter)
  BY AnsweredIs, Before
<1>3. m = IF Len(L) = 1 THEN t ELSE result_feedback(t, L[2])
  BY DEF results_feedback
<1>4. /\ t \in States
      /\ I # <<>> => Is(t, NoFrame, U, N, Rest(I), NoUpdate, Left(I, clock), d, o.gamma, o.counter)
      /\ \E Q, J, e : Is(t, Q, U, N, J, NoUpdate, e, d, o.gamma, o.counter)
  <2> HIDE DEF L, U, N, I, d
  <2> QED BY <1>2, ResultIs
<1> HIDE DEF t
<1>5. result_feedback(t, L[2]) \in States
  <2>1. PICK Q, J, e : Is(t, Q, U, N, J, NoUpdate, e, d, o.gamma, o.counter)
    BY <1>4
  <2> HIDE DEF L, U, N, I, d
  <2> QED BY <2>1, ResultIs
<1>6. m \in States
  BY <1>3, <1>4, <1>5
<1>7. Even(m)
  <2> SUFFICES ASSUME Tame
               PROVE  /\ Shape(m.o.posted, m.o.superseded, m.o.next, m.kms, m.o.dummy_flip)
                      /\ Books(m.o.posted, m.o.superseded, m.o.next, m.o.infos, m.clock)
    BY DEF Even
  <2>1. /\ Slots(o.posted, U, N, kms, d) /\ Books(o.posted, U, N, I, clock)
        /\ o.posted \in Frames /\ U \in Frames /\ N \in Frames /\ I \in Seq(Infos)
        /\ kms \in Updates /\ clock \in 0..2 /\ d \in BOOLEAN
    BY Before
  <2>2. "undamaged" \notin world
    BY <1>1 DEF Tame
  <2>3. o.posted # NoFrame /\ Len(L) = 1
    BY <1>1, <2>1, <2>2 DEF Slots
  <2> HIDE DEF L, U, N, I, d
  <2>4. /\ I # <<>> /\ Slots(NoFrame, U, N, NoUpdate, d)
        /\ Books(NoFrame, U, N, Rest(I), Left(I, clock))
    BY <2>1, <2>3, AnsweredBooks
  <2>5. Is(m, NoFrame, U, N, Rest(I), NoUpdate, Left(I, clock), d, o.gamma, o.counter)
    BY <1>3, <1>4, <2>3, <2>4
  <2>6. Shape(NoFrame, U, N, NoUpdate, d)
    BY <1>1, <2>4 DEF Shape
  <2> HIDE DEF m
  <2> QED BY <2>4, <2>5, <2>6 DEF Is
<1>8. Lit(m, m.o.counter, hw', wanted')
  BY <1>1, GammaWorldIsCalm DEF Lit
<1>9. /\ hw' \in Gammas /\ wanted' \in 1..MaxGammas + 1 /\ drawn' \in 0..MaxFrames
      /\ power_save' \in BOOLEAN /\ (power_save' => "power" \in world)
  BY <1>1 DEF OnscreenInv, Typed
<1> HIDE DEF m
<1> QED BY <1>1, <1>6, <1>7, <1>8, <1>9, After

LEMMA DummyFlipStep == OnscreenInv /\ dummy_power_save_page_flip => OnscreenInv'
<1> SUFFICES ASSUME OnscreenInv, dummy_power_save_page_flip PROVE OnscreenInv'
  OBVIOUS
<1> DEFINE P == o.posted
           U == o.superseded
           N == o.next
           I == o.infos
           x == [o EXCEPT !.dummy_flip = FALSE]
           s == [State EXCEPT !.o.dummy_flip = FALSE]
           t == clear_superseded_frame(s)
           m == maybe_post_next_frame(t)
<1>1. o.dummy_flip /\ Becomes(m) /\ UNCHANGED <<hw, wanted, power_save, drawn>>
  BY DEF dummy_power_save_page_flip
<1>2. /\ State \in States /\ State.o = o /\ State.kms = kms /\ State.clock = clock
      /\ o \in Onscreens
  BY Before
<1>3. Is(s, P, U, N, I, kms, clock, FALSE, o.gamma, o.counter)
  <2>1. x \in Onscreens /\ x.dummy_flip = FALSE
        /\ x.posted = o.posted /\ x.superseded = o.superseded /\ x.next = o.next
        /\ x.infos = o.infos /\ x.gamma = o.gamma /\ x.counter = o.counter
    BY <1>2 DEF Onscreens
  <2>2. s = [State EXCEPT !.o = x]
    BY <1>2
  <2> HIDE DEF x
  <2>3. s \in States /\ s.o = x /\ s.kms = kms /\ s.clock = clock
    BY <1>2, <2>1, <2>2, OnscreenChanged, ZenonT(60)
  <2> HIDE DEF s
  <2> QED BY <2>1, <2>3 DEF Is
<1> HIDE DEF s
<1>4. Is(t, P, NoFrame, N, Kept(U, I), kms, Under(U, I, clock), FALSE, o.gamma, o.counter)
  BY <1>3, SupersededCleared DEF Kept, Under
<1> HIDE DEF t
<1>5. Tame => /\ Slots(P, NoFrame, N, kms, FALSE)
              /\ Books(P, NoFrame, N, Kept(U, I), Under(U, I, clock))
  <2> SUFFICES ASSUME Tame
               PROVE  /\ Slots(P, NoFrame, N, kms, FALSE)
                      /\ Books(P, NoFrame, N, Kept(U, I), Under(U, I, clock))
    OBVIOUS
  <2>1. /\ Slots(P, U, N, kms, o.dummy_flip) /\ Books(P, U, N, I, clock)
        /\ P \in Frames /\ U \in Frames /\ N \in Frames /\ I \in Seq(Infos)
        /\ kms \in Updates /\ clock \in 0..2 /\ o.dummy_flip \in BOOLEAN
    BY Before
  <2> HIDE DEF P, U, N, I
  <2>2. CASE U = NoFrame
    <3>1. Slots(P, NoFrame, N, kms, FALSE)
      BY <2>1 DEF Slots
    <3> QED BY <2>1, <2>2, <3>1 DEF Kept, Under
  <2>3. CASE U # NoFrame
    BY <2>1, <2>3, TimerBooks DEF Kept, Under
  <2> QED BY <2>2, <2>3
<1>6. ~GammaWorld
  <2>1. GammaWorld => Slots(P, U, N, kms, o.dummy_flip)
    BY GammaWorldIsCalm, Before
  <2> QED BY <1>1, <2>1, GammaWorldIsCalm DEF Slots
<1>7. /\ o.counter \in Nat /\ hw \in Gammas /\ wanted \in Gammas /\ wanted # 0
      /\ power_save \in BOOLEAN /\ (power_save => "power" \in world)
  BY Before
<1>8. m \in States /\ Even(m)
  <2> DEFINE K == Kept(U, I)
             e == Under(U, I, clock)
  <2> HIDE DEF P, N, K, e
  <2>1. /\ Is(t, P, NoFrame, N, K, kms, e, FALSE, o.gamma, o.counter)
        /\ Tame => Slots(P, NoFrame, N, kms, FALSE) /\ Books(P, NoFrame, N, K, e)
    BY <1>4, <1>5 DEF K, e
  <2> QED BY <1>6, <1>7, <2>1, NextPostedEven
<1>9. Lit(m, m.o.counter, hw', wanted')
  BY <1>6 DEF Lit
<1>10. /\ hw' \in Gammas /\ wanted' \in 1..MaxGammas + 1 /\ drawn' \in 0..MaxFrames
       /\ power_save' \in BOOLEAN /\ (power_save' => "power" \in world)
  BY <1>1 DEF OnscreenInv, Typed
<1> HIDE DEF m
<1> QED BY <1>1, <1>8, <1>9, <1>10, After

-----------------------------------------------------------------------------
(* A step that only flags something in the onscreen, or changes the power  *)
(* save mode.                                                              *)
LEMMA FlagStep ==
    ASSUME OnscreenInv, NEW x \in Onscreens, o' = x,
           x.posted = o.posted, x.superseded = o.superseded, x.next = o.next,
           x.infos = o.infos, x.dummy_flip = o.dummy_flip, x.counter = o.counter,
           UNCHANGED <<kms, clock, hw, drawn, world>>,
           power_save' \in BOOLEAN, power_save' = power_save \/ "power" \in world,
           wanted' \in 1..MaxGammas + 1, wanted' \in {wanted, wanted + 1},
           \/ x.gamma = o.gamma /\ wanted' = wanted
           \/ x.gamma.invalidated
    PROVE  OnscreenInv'
<1> DEFINE s == [State EXCEPT !.o = x]
<1>1. State \in States /\ State.o = o /\ State.kms = kms /\ State.clock = clock
  BY Before
<1>2. s \in States /\ s.o = x /\ s.kms = kms /\ s.clock = clock
  BY <1>1, OnscreenChanged
<1> HIDE DEF s
<1>3. Becomes(s)
  BY <1>2 DEF Becomes
<1>4. Even(s)
  BY <1>1, <1>2, Before DEF Even
<1>5. Lit(s, s.o.counter, hw', wanted')
  <2> SUFFICES ASSUME GammaWorld
               PROVE  GammaInv(x.next, x.infos, kms, x.gamma, x.counter, hw, wanted')
    BY <1>2 DEF Lit
  <2>1. GammaInv(o.next, o.infos, kms, o.gamma, o.counter, hw, wanted)
    BY Before
  <2>2. CASE x.gamma = o.gamma /\ wanted' = wanted
    BY <2>1, <2>2
  <2>3. CASE x.gamma.invalidated
    <3>1. hw \in Nat /\ wanted \in Nat /\ kms.gamma \in Nat /\ o.next.gamma \in Nat
      BY Before, InfoFields, NoFrameProperties
    <3>2. hw <= wanted /\ kms.gamma <= wanted /\ o.next.gamma <= wanted
      BY <2>1 DEF GammaInv
    <3>3. hw <= wanted' /\ kms.gamma <= wanted' /\ o.next.gamma <= wanted'
      BY <3>1, <3>2
    <3> QED BY <2>1, <2>3, <3>3 DEF GammaInv
  <2> QED BY <2>2, <2>3
<1>6. /\ hw' \in Gammas /\ drawn' \in 0..MaxFrames
      /\ power_save' \in BOOLEAN /\ (power_save' => "power" \in world)
  BY Before
<1> QED BY <1>2, <1>3, <1>4, <1>5, <1>6, After

LEMMA NeedsFlushStep == OnscreenInv /\ NeedsFlush => OnscreenInv'
<1> SUFFICES ASSUME OnscreenInv, NeedsFlush PROVE OnscreenInv'
  OBVIOUS
<1> DEFINE x == [o EXCEPT !.needs_flush = TRUE]
<1>1. o' = x /\ UNCHANGED <<kms, clock, hw, wanted, power_save, drawn, world>>
  BY DEF NeedsFlush
<1>2. x \in Onscreens /\ x.posted = o.posted /\ x.superseded = o.superseded
      /\ x.next = o.next /\ x.infos = o.infos /\ x.dummy_flip = o.dummy_flip
      /\ x.counter = o.counter /\ x.gamma = o.gamma
  BY Before DEF Onscreens
<1>3. wanted \in 1..MaxGammas + 1 /\ power_save \in BOOLEAN
  BY Before DEF OnscreenInv, Typed
<1> HIDE DEF x
<1> QED BY <1>1, <1>2, <1>3, FlagStep

LEMMA GammaChangedStep == OnscreenInv /\ on_gamma_lut_changed => OnscreenInv'
<1> SUFFICES ASSUME OnscreenInv, on_gamma_lut_changed PROVE OnscreenInv'
  OBVIOUS
<1> DEFINE x == [o EXCEPT !.gamma.invalidated = TRUE]
           H == [o.gamma EXCEPT !.invalidated = TRUE]
<1>1. o' = x /\ wanted <= MaxGammas /\ wanted' = wanted + 1
      /\ UNCHANGED <<kms, clock, hw, power_save, drawn, world>>
  BY DEF on_gamma_lut_changed
<1>2. o \in Onscreens /\ H \in [invalidated : BOOLEAN, target : Nat] /\ H.invalidated
  BY Before
<1>3. x = [o EXCEPT !.gamma = H]
  OBVIOUS
<1> HIDE DEF x, H
<1>4. x \in Onscreens /\ x.posted = o.posted /\ x.superseded = o.superseded
      /\ x.next = o.next /\ x.infos = o.infos /\ x.dummy_flip = o.dummy_flip
      /\ x.counter = o.counter /\ x.gamma = H
  BY <1>2, <1>3 DEF Onscreens
<1>5. wanted \in 1..MaxGammas + 1 /\ MaxGammas \in Nat
  BY OnscreenAssumption DEF OnscreenInv, Typed
<1>6. wanted' \in 1..MaxGammas + 1
  BY <1>1, <1>5
<1>7. power_save \in BOOLEAN
  BY Before
<1> QED BY <1>1, <1>2, <1>4, <1>6, <1>7, FlagStep

LEMMA PowerSaveStep == OnscreenInv /\ PowerSave => OnscreenInv'
<1> SUFFICES ASSUME OnscreenInv, PowerSave PROVE OnscreenInv'
  OBVIOUS
<1> DEFINE x == [o EXCEPT !.gamma.invalidated = TRUE]
           H == [o.gamma EXCEPT !.invalidated = TRUE]
<1>1. "power" \in world /\ o' \in {x, o} /\ UNCHANGED <<kms, clock, hw, wanted, drawn, world>>
  BY DEF PowerSave, meta_onscreen_native_invalidate
<1>2. power_save' \in BOOLEAN
  BY DEF PowerSave
<1>3. o \in Onscreens /\ H \in [invalidated : BOOLEAN, target : Nat] /\ H.invalidated
  BY Before
<1>4. wanted \in 1..MaxGammas + 1
  BY DEF OnscreenInv, Typed
<1>5. CASE o' = o
  BY <1>1, <1>2, <1>3, <1>4, <1>5, FlagStep
<1>6. CASE o' = x
  <2>1. x = [o EXCEPT !.gamma = H]
    OBVIOUS
  <2> HIDE DEF x, H
  <2>2. x \in Onscreens /\ x.posted = o.posted /\ x.superseded = o.superseded
        /\ x.next = o.next /\ x.infos = o.infos /\ x.dummy_flip = o.dummy_flip
        /\ x.counter = o.counter /\ x.gamma = H
    BY <1>3, <2>1 DEF Onscreens
  <2> QED BY <1>1, <1>2, <1>3, <1>4, <1>6, <2>2, FlagStep
<1> QED BY <1>1, <1>5, <1>6

LEMMA NextOnscreenInv == OnscreenInv /\ [Next]_vars => OnscreenInv'
<1> SUFFICES ASSUME OnscreenInv, [Next]_vars PROVE OnscreenInv'
  OBVIOUS
<1>1. CASE UNCHANGED vars
  <2>1. wanted \in 1..MaxGammas + 1 /\ o \in Onscreens /\ power_save \in BOOLEAN
    BY Before DEF OnscreenInv, Typed
  <2> QED BY <1>1, <2>1, FlagStep DEF vars
<1>2. CASE KmsAnswers
  BY <1>2, PresentedStep, ReadyStep, DiscardedStep, UpdateFailedStep DEF KmsAnswers
<1> QED
  BY <1>1, <1>2, RedrawStep, RedrawFailsStep, NoRedrawStep, NeedsFlushStep,
     GammaChangedStep, DummyFlipStep, PowerSaveStep DEF Next

LEMMA OnscreenInvariant == Spec => []OnscreenInv
<1> QED BY InitOnscreenInv, NextOnscreenInv, PTL DEF Spec

-----------------------------------------------------------------------------
(* What the invariant says of the queues.                                  *)
LEMMA OnlyProperties ==
    ASSUME NEW f \in Frames, NEW b \in BOOLEAN
    PROVE  /\ Only(f, b) \in Seq(Frames) /\ Len(Only(f, b)) = One(b)
           /\ b => Only(f, b)[1] = f
<1>1. CASE b
  BY <1>1 DEF Only, One
<1>2. CASE ~b
  BY <1>2, EmptySeq DEF Only, One
<1> QED BY <1>1, <1>2

LEMMA OnesTogether ==
    ASSUME NEW S, NEW X \in Seq(S), NEW Y \in Seq(S)
    PROVE  /\ X \o Y \in Seq(S) /\ Len(X \o Y) = Len(X) + Len(Y)
           /\ \A i \in 1..Len(X) : (X \o Y)[i] = X[i]
           /\ Len(Y) = 1 => (X \o Y)[Len(X) + 1] = Y[1]
<1>1. Len(X) \in Nat /\ Len(Y) \in Nat
  BY LenProperties
<1>2. /\ X \o Y \in Seq(S) /\ Len(X \o Y) = Len(X) + Len(Y)
      /\ \A i \in 1 .. Len(X) + Len(Y) : (X \o Y)[i] =
                IF i <= Len(X) THEN X[i] ELSE Y[i - Len(X)]
  BY ConcatProperties
<1>3. \A i \in 1..Len(X) : i \in 1..Len(X) + Len(Y) /\ i <= Len(X)
  BY <1>1
<1>4. Len(Y) = 1 => /\ Len(X) + 1 \in 1..Len(X) + Len(Y) /\ ~(Len(X) + 1 <= Len(X))
                    /\ (Len(X) + 1) - Len(X) = 1
  BY <1>1
<1> QED BY <1>2, <1>3, <1>4

LEMMA InformedProperties ==
    ASSUME OnscreenInv
    PROVE  LET p == One(o.posted # NoFrame)
               u == One(o.superseded.buffer)
               n == One(o.next.buffer)
           IN /\ Informed \in Seq(Frames) /\ Len(Informed) = p + u + n
              /\ o.posted # NoFrame => Informed[1] = o.posted
              /\ o.superseded.buffer => Informed[p + 1] = o.superseded
              /\ o.next.buffer => Informed[p + u + 1] = o.next
<1> DEFINE X == Only(o.posted, o.posted # NoFrame)
           Y == Only(o.superseded, o.superseded.buffer)
           Z == Only(o.next, o.next.buffer)
           p == One(o.posted # NoFrame)
           u == One(o.superseded.buffer)
           n == One(o.next.buffer)
<1>1. /\ o.posted \in Frames /\ o.superseded \in Frames /\ o.next \in Frames
      /\ o.superseded.buffer \in BOOLEAN /\ o.next.buffer \in BOOLEAN
  BY Before, NoFrameProperties
<1>2. /\ X \in Seq(Frames) /\ Len(X) = p /\ (o.posted # NoFrame => X[1] = o.posted)
      /\ Y \in Seq(Frames) /\ Len(Y) = u /\ (o.superseded.buffer => Y[1] = o.superseded)
      /\ Z \in Seq(Frames) /\ Len(Z) = n /\ (o.next.buffer => Z[1] = o.next)
  BY <1>1, OnlyProperties
<1>3. Informed = (X \o Y) \o Z
  BY DEF Informed
<1> HIDE DEF X, Y, Z
<1> DEFINE W == X \o Y
<1>4. /\ W \in Seq(Frames) /\ Len(W) = p + u
      /\ \A i \in 1..p : W[i] = X[i]
      /\ u = 1 => W[p + 1] = Y[1]
  <2>1. X \in Seq(Frames) /\ Y \in Seq(Frames)
    BY <1>2
  <2>2. /\ W \in Seq(Frames) /\ Len(W) = Len(X) + Len(Y)
        /\ \A i \in 1..Len(X) : W[i] = X[i]
        /\ Len(Y) = 1 => W[Len(X) + 1] = Y[1]
    BY <2>1, OnesTogether
  <2> HIDE DEF W, p, u
  <2> QED BY <1>2, <2>2, Zenon
<1> HIDE DEF W
<1>5. /\ W \o Z \in Seq(Frames) /\ Len(W \o Z) = (p + u) + n
      /\ \A i \in 1..p + u : (W \o Z)[i] = W[i]
      /\ n = 1 => (W \o Z)[(p + u) + 1] = Z[1]
  <2>1. W \in Seq(Frames) /\ Z \in Seq(Frames)
    BY <1>2, <1>4
  <2>2. /\ W \o Z \in Seq(Frames) /\ Len(W \o Z) = Len(W) + Len(Z)
        /\ \A i \in 1..Len(W) : (W \o Z)[i] = W[i]
        /\ Len(Z) = 1 => (W \o Z)[Len(W) + 1] = Z[1]
    BY <2>1, OnesTogether
  <2> HIDE DEF p, u, n
  <2> QED BY <1>2, <1>4, <2>2, Zenon
<1>6. /\ o.posted # NoFrame => 1 \in 1..p /\ 1 \in 1..p + u
      /\ o.superseded.buffer => u = 1 /\ p + 1 \in 1..p + u
      /\ o.next.buffer => n = 1
  BY DEF One
<1>7. Informed = W \o Z
  BY <1>3 DEF W
<1> HIDE DEF p, u, n
<1>8. /\ Informed \in Seq(Frames) /\ Len(Informed) = p + u + n
      /\ o.posted # NoFrame => Informed[1] = o.posted
      /\ o.superseded.buffer => Informed[p + 1] = o.superseded
      /\ o.next.buffer => Informed[p + u + 1] = o.next
  BY <1>2, <1>4, <1>5, <1>6, <1>7, Zenon
<1> QED BY <1>8 DEF p, u, n

LEMMA UninformedLength ==
    ASSUME OnscreenInv
    PROVE  Len(Uninformed) = One(o.superseded # NoFrame /\ ~o.superseded.buffer)
                               + One(o.next # NoFrame /\ ~o.next.buffer)
<1> DEFINE Y == Only(o.superseded, o.superseded # NoFrame /\ ~o.superseded.buffer)
           Z == Only(o.next, o.next # NoFrame /\ ~o.next.buffer)
<1>1. o.superseded \in Frames /\ o.next \in Frames
  BY Before
<1>2. /\ Y \in Seq(Frames) /\ Len(Y) = One(o.superseded # NoFrame /\ ~o.superseded.buffer)
      /\ Z \in Seq(Frames) /\ Len(Z) = One(o.next # NoFrame /\ ~o.next.buffer)
  BY <1>1, OnlyProperties
<1>3. Uninformed = Y \o Z
  BY DEF Uninformed
<1> HIDE DEF Y, Z
<1>4. Len(Y \o Z) = Len(Y) + Len(Z)
  <2>1. Y \in Seq(Frames) /\ Z \in Seq(Frames)
    BY <1>2
  <2> QED BY <2>1, OnesTogether
<1> QED BY <1>2, <1>3, <1>4, Zenon

LEMMA TypedImpliesTypeOK == OnscreenInv => TypeOK
<1> SUFFICES ASSUME OnscreenInv PROVE TypeOK
  OBVIOUS
<1> DEFINE F == [id : 0..MaxFrames, buffer : BOOLEAN, scanout : BOOLEAN,
                 update : BOOLEAN, gamma : 0..MaxGammas + 1]
<1>1. ASSUME NEW f \in Frames PROVE f \in F
  <2>1. f.id \in 0..MaxFrames /\ f.gamma \in Gammas
    BY NoFrameProperties
  <2>2. CASE f = NoFrame
    <3>1. 0 \in 0..MaxFrames /\ 0 \in 0..MaxGammas + 1
      BY OnscreenAssumption
    <3> QED BY <2>2, <3>1 DEF NoFrame
  <2>3. CASE f # NoFrame
    <3>1. f \in [id : 1..MaxFrames, buffer : BOOLEAN, scanout : BOOLEAN,
                 update : BOOLEAN, gamma : Gammas]
      BY <2>3 DEF Frames
    <3>2. \A n \in 1..MaxFrames : n \in 0..MaxFrames
      BY OnscreenAssumption
    <3> QED BY <3>1, <3>2 DEF Gammas
  <2> QED BY <2>2, <2>3
<1>2. {o.posted, o.superseded, o.next} \subseteq F
  BY <1>1, Before
<1>3. o.infos \in Seq([id : 1..MaxFrames, counter : Nat]) /\ clock \in 0..2
      /\ hw \in 0..MaxGammas + 1
  BY Before DEF Infos, Gammas
<1>4. o.presented \in 0..MaxFrames
  BY Before DEF Onscreens
<1>5. wanted \in 1..MaxGammas + 1
  BY DEF OnscreenInv, Typed
<1> QED BY <1>2, <1>3, <1>4, <1>5 DEF TypeOK

LEMMA BooksImplyOrder == OnscreenInv => InfosAgree
<1> SUFFICES ASSUME OnscreenInv, Tame PROVE InfosCounted /\ InfosInOrder
  BY TypedImpliesTypeOK DEF InfosAgree
<1> DEFINE P == o.posted
           U == o.superseded
           N == o.next
           p == One(P # NoFrame)
           u == One(U.buffer)
           n == One(N.buffer)
           M == Informed
<1>1. /\ M \in Seq(Frames) /\ Len(M) = p + u + n
      /\ P # NoFrame => M[1] = P
      /\ U.buffer => M[p + 1] = U
      /\ N.buffer => M[p + u + 1] = N
  BY InformedProperties
<1>2. /\ Len(o.infos) = p + u + n
      /\ "swap" \notin world =>
           /\ clock = p + One(U # NoFrame) + One(N # NoFrame)
           /\ P # NoFrame => o.infos[1].id = P.id
           /\ U.buffer => o.infos[p + 1].id = U.id
           /\ N.buffer => o.infos[p + u + 1].id = N.id
  BY Before DEF Books
<1>3. InfosCounted
  BY <1>1, <1>2 DEF InfosCounted
<1>4. ASSUME "swap" \notin world
      PROVE  /\ [i \in DOMAIN o.infos |-> o.infos[i].id] = [i \in DOMAIN M |-> M[i].id]
             /\ clock = Len(M) + Len(Uninformed)
  <2>1. DOMAIN o.infos = 1..p + u + n /\ DOMAIN M = 1..p + u + n
    <3>1. DOMAIN M = 1..Len(M)
      BY <1>1, LenProperties
    <3>2. DOMAIN o.infos = 1..Len(o.infos)
      BY Before, LenProperties
    <3> QED BY <1>1, <1>2, <3>1, <3>2
  <2>2. ASSUME NEW i \in 1..p + u + n
        PROVE  o.infos[i].id = M[i].id
    <3>1. \/ P # NoFrame /\ i = 1
          \/ U.buffer /\ i = p + 1
          \/ N.buffer /\ i = p + u + 1
      BY DEF One
    <3> HIDE DEF M, p, u, n, P, U, N
    <3> QED BY <1>1, <1>2, <1>4, <3>1
  <2>3. [i \in DOMAIN o.infos |-> o.infos[i].id] = [i \in DOMAIN M |-> M[i].id]
    <3> HIDE DEF M, p, u, n
    <3> QED BY <2>1, <2>2
  <2>4. /\ U.buffer \in BOOLEAN /\ N.buffer \in BOOLEAN
        /\ U.buffer => U # NoFrame
        /\ N.buffer => N # NoFrame
    BY Before, NoFrameProperties
  <2>5. Len(Uninformed) = One(U # NoFrame /\ ~U.buffer) + One(N # NoFrame /\ ~N.buffer)
    BY UninformedLength
  <2>6. clock = p + One(U # NoFrame) + One(N # NoFrame)
    BY <1>2, <1>4
  <2> HIDE DEF M, P, U, N
  <2>7. clock = Len(M) + Len(Uninformed)
    <3>1. Len(M) = p + u + n
      BY <1>1
    <3>2. /\ p \in Nat
          /\ One(U # NoFrame) = u + One(U # NoFrame /\ ~U.buffer)
          /\ One(N # NoFrame) = n + One(N # NoFrame /\ ~N.buffer)
          /\ u \in Nat /\ n \in Nat /\ One(U # NoFrame /\ ~U.buffer) \in Nat
          /\ One(N # NoFrame /\ ~N.buffer) \in Nat
      BY <2>4 DEF One
    <3> HIDE DEF p, u, n
    <3> QED BY <2>5, <2>6, <3>1, <3>2
  <2> QED BY <2>3, <2>7
<1> QED BY <1>3, <1>4 DEF InfosInOrder

LEMMA ShapeImpliesDriven == OnscreenInv => FramesAreDriven
BY Before DEF FramesAreDriven, PostedIsDriven, NextIsDriven, Shape, Slots

LEMMA GammaInvImpliesKept == OnscreenInv => GammaNotLost
BY Before DEF GammaNotLost, GammaKept, GammaWorld, GammaInv

(* The frame infos match the frames in flight, in number and, unless swaps *)
(* fail, in order: the completion that meta_onscreen_native_notify_frame_- *)
(* complete takes from the queue is that of the frame KMS answered, and    *)
(* the frame clock knows exactly the frames the onscreen holds.            *)
THEOREM OnscreenInfosCorrect == Spec => []InfosAgree
<1>1. Spec => []OnscreenInv
  BY OnscreenInvariant
<1> QED BY <1>1, BooksImplyOrder, PTL

(* A posted frame is one KMS has to answer, and a waiting frame waits for  *)
(* it or for the timer of power saving: no view freezes.                   *)
THEOREM OnscreenDrivenCorrect == Spec => []FramesAreDriven
<1>1. Spec => []OnscreenInv
  BY OnscreenInvariant
<1> QED BY <1>1, ShapeImpliesDriven, PTL

(* A discarded page flip does not lose the gamma that went with it.        *)
THEOREM OnscreenGammaCorrect == Spec => []GammaNotLost
<1>1. Spec => []OnscreenInv
  BY OnscreenInvariant
<1> QED BY <1>1, GammaInvImpliesKept, PTL
=============================================================================
