------------------------ MODULE KmsImplDeviceProofs -------------------------
(***************************************************************************)
(* What KmsImplDevice promises for any number of CRTCs: of each, a frame   *)
(* is counted once, the thread and the kernel agree on flips, and no       *)
(* cursor is lost; and so it implements UpdateDelivery.                    *)
(*                                                                         *)
(* The operations of the device are operators on its record.  The proofs   *)
(* say first what each does to the CRTC it is about (Processed, Sound) and *)
(* that it leaves the others alone (Apart), then, per action, that the     *)
(* invariant KmsInv is kept and no answer is taken back (Grows).           *)
(***************************************************************************)
EXTENDS KmsImplDevice, TLAPS

(* e differs from d only in the CrtcFrame of c, the device's timer state   *)
(* and needs_flush.                                                        *)
OnlyFrame(d, e, c) ==
    /\ e \in DeviceType
    /\ e.sync_cursor_primary = d.sync_cursor_primary
    /\ e.active = d.active /\ e.vrr = d.vrr
    /\ e.listeners = d.listeners /\ e.kernel = d.kernel
    /\ e.events = d.events /\ e.urgent = d.urgent
    /\ e.callbacks = d.callbacks /\ e.answers = d.answers
    /\ e.cursor_invalidated = d.cursor_invalidated
    /\ e.cursor_stale = d.cursor_stale /\ e.busy = d.busy
    /\ \A x \in Crtcs \ {c} : e.frame[x] = d.frame[x]

(* e differs from d only in what belongs to c and in what no other CRTC    *)
(* depends on; no answer is taken back.                                    *)
Apart(d, e, c) ==
    /\ e \in DeviceType
    /\ e.sync_cursor_primary = d.sync_cursor_primary
    /\ e.active = d.active
    /\ e.events = d.events /\ e.urgent = d.urgent
    /\ e.cursor_invalidated = d.cursor_invalidated
    /\ e.answers[c] >= d.answers[c]
    /\ \A x \in Crtcs \ {c} :
          /\ e.frame[x] = d.frame[x] /\ e.listeners[x] = d.listeners[x]
          /\ e.kernel[x] = d.kernel[x] /\ e.answers[x] = d.answers[x]
          /\ x \in e.cursor_stale <=> x \in d.cursor_stale
          /\ \A k \in {"flipped", "cursor_passed"} :
                <<k, x>> \in e.callbacks <=> <<k, x>> \in d.callbacks

(* ... and e's CrtcFrame of c is f.                                        *)
Reframed(d, e, c, f) ==
    /\ OnlyFrame(d, e, c) /\ e.frame[c] = f
    /\ e.timer_state = d.timer_state /\ e.needs_flush = d.needs_flush

(* What the operators on the deadline timer make of a CrtcFrame.           *)
Disarmed(f) == IF f.source THEN [f EXCEPT !.armed = FALSE, !.timer_set = FALSE] ELSE f

Armed(f) == IF f.source THEN [f EXCEPT !.armed = TRUE, !.timer_set = TRUE] ELSE f

Ensured(f, using, lit) ==
    [f EXCEPT !.exists = TRUE,
              !.await_flush = IF f.exists THEN @ ELSE ~lit,
              !.source = using,
              !.timer_set = @ /\ using]

(* The timer is armed, or its state changed because it could not be.       *)
Deadlined(d, e, c, dl) ==
    /\ OnlyFrame(d, e, c) /\ e.needs_flush = d.needs_flush
    /\ e.frame[c] = IF ~d.frame[c].armed /\ c \in d.active /\ dl = "ok"
                    THEN Armed(d.frame[c]) ELSE d.frame[c]
    /\ e.timer_state # d.timer_state => ~d.frame[c].armed /\ c \in d.active /\ dl # "ok"

(* What do_process may do with the update u.                               *)
Stays(d, e, c, u) ==
    /\ Apart(d, e, c)
    /\ e.timer_state = d.timer_state
    /\ e.frame[c] = d.frame[c] /\ e.listeners = d.listeners /\ e.kernel = d.kernel
    /\ e.callbacks = d.callbacks /\ e.cursor_stale = d.cursor_stale
    /\ e.busy = d.busy
    /\ e.answers[c] = d.answers[c] + Held("frame" \in u)

(* ... it passes ...                                                       *)
Passes(d, e, c, u) ==
    /\ Apart(d, e, c)
    /\ CanCommit(d, c)
    /\ e.timer_state = d.timer_state
    /\ e.frame[c] = [d.frame[c] EXCEPT !.pending_page_flip = TRUE]
    /\ e.listeners[c] = d.listeners[c] \cup {"impl"} \cup (u \cap {"frame", "orphan"})
    /\ e.kernel[c] = "flipping"
    /\ <<"flipped", c>> \in e.callbacks <=> <<"flipped", c>> \in d.callbacks
    /\ IF c \in d.cursor_invalidated THEN c \notin e.cursor_stale
       ELSE e.callbacks = d.callbacks /\ e.cursor_stale = d.cursor_stale
    /\ e.busy = d.busy
    /\ e.answers[c] = d.answers[c]

(* ... or is refused.                                                      *)
Refuses(d, e, c, u) ==
    /\ Apart(d, e, c)
    /\ e.timer_state = d.timer_state
    /\ e.frame[c] = [d.frame[c] EXCEPT !.pending_page_flip = FALSE]
    /\ e.listeners = d.listeners /\ e.kernel = d.kernel
    /\ e.callbacks = d.callbacks /\ e.cursor_stale = d.cursor_stale
    /\ e.busy = (d.busy \/ (master /\ d.kernel[c] = "flipping"))
    /\ e.answers[c] = d.answers[c] + Held("frame" \in u)

(* A flip of c is over and the thread has yet to act on it.                *)
Expected(d, c) == c \in d.events \/ <<"flipped", c>> \in d.callbacks

(* The thread may commit: no flip of c is under way.                       *)
Free(d, c) ==
    /\ ~d.frame[c].pending_page_flip
    /\ master => d.kernel[c] = "idle" /\ ~Expected(d, c)

(* The update w of c was committed, or its frame told that it was not.     *)
Answers(d, e, c, w) ==
    /\ ~e.frame[c].pending_page_flip
    /\ e.listeners = d.listeners /\ e.kernel = d.kernel
    /\ e.callbacks = d.callbacks /\ e.cursor_stale = d.cursor_stale
    /\ e.answers[c] = d.answers[c] + Held("frame" \in w)

Commits(d, e, c, w) ==
    /\ CanCommit(d, c)
    /\ e.frame[c].pending_page_flip
    /\ e.listeners[c] = d.listeners[c] \cup {"impl"} \cup (w \cap {"frame", "orphan"})
    /\ e.kernel[c] = "flipping"
    /\ <<"flipped", c>> \in e.callbacks <=> <<"flipped", c>> \in d.callbacks
    /\ IF c \in d.cursor_invalidated THEN c \notin e.cursor_stale
       ELSE e.callbacks = d.callbacks /\ e.cursor_stale = d.cursor_stale
    /\ e.answers[c] = d.answers[c]

(* The CrtcFrame after w was processed.                                    *)
Rest(f, g) ==
    /\ g.pending = Null
    /\ g.submitted = f.submitted /\ g.exists = f.exists
    /\ g.await_flush = f.await_flush /\ g.source = f.source
    /\ \/ g.armed = f.armed /\ g.timer_set = f.timer_set
       \/ f.source /\ ~g.armed /\ ~g.timer_set

Processed(d, e, c, w) ==
    /\ Apart(d, e, c)
    /\ e.timer_state = d.timer_state /\ e.busy = d.busy
    /\ Rest(d.frame[c], e.frame[c])
    /\ Answers(d, e, c, w) \/ Commits(d, e, c, w)

(* A CrtcFrame that neither holds an update nor waits to flush.            *)
Idle(f) == f.pending = Null /\ f.submitted = Null /\ ~f.timer_set

(* A timer that is set can expire, and does not compete with a flip.       *)
Timed(f) == f.timer_set => f.source /\ ~f.pending_page_flip

(* The flips of c. While the thread may commit (is master): a flip the     *)
(* kernel owes is one it waits for; an event is followed by one callback   *)
(* at most; and an event or a callback the thread does not wait for,       *)
(* because a mode set came between, finds nothing to commit, and is read   *)
(* before any task that could bring something.                             *)
FlipOk(d, c) ==
    /\ d.frame[c].pending_page_flip =>
          "impl" \in d.listeners[c] \/ <<"flipped", c>> \in d.callbacks
    /\ master =>
          /\ d.kernel[c] = "flipping" =>
                /\ d.frame[c].pending_page_flip /\ "impl" \in d.listeners[c]
                /\ ~Expected(d, c)
          /\ c \in d.events =>
                /\ <<"flipped", c>> \notin d.callbacks
                /\ d.frame[c].pending_page_flip \/ d.urgent
          /\ Expected(d, c) /\ ~d.frame[c].pending_page_flip => Idle(d.frame[c])

(* A cursor the kernel does not show yet stays marked as changed.          *)
CursorOk(d, c) ==
    c \in d.cursor_stale =>
        c \in d.cursor_invalidated /\ <<"cursor_passed", c>> \notin d.callbacks

(* The places of a posted frame, as in HeldOnce.                           *)
Count(d, c) == Held("frame" \in d.frame[c].submitted)
             + Held("frame" \in d.frame[c].pending)
             + Held("frame" \in d.listeners[c])
             + d.answers[c]

(* The CRTC c is as it should be, with n frames under way.                 *)
Sound(d, c, n) ==
    /\ d \in DeviceType /\ ~d.busy
    /\ Count(d, c) = n
    /\ Timed(d.frame[c]) /\ FlipOk(d, c) /\ CursorOk(d, c)

(* No answer of the kernel is under way that the thread does not wait for. *)
Steady(d, c) == master /\ Expected(d, c) => d.frame[c].pending_page_flip

(* The inductive invariant.                                                *)
Safe(c) == Sound(dev, c, Held(posted[c] = "posted"))

KmsInv == TypeOK /\ ~dev.busy /\ \A c \in Crtcs : Safe(c)

(* No answer is taken back, and the debug flag stays as it is.             *)
Grows == /\ \A c \in Crtcs : dev'.answers[c] >= dev.answers[c]
         /\ dev'.sync_cursor_primary = dev.sync_cursor_primary

(* What disarm_all_frame_sources leaves of a CrtcFrame.                    *)
Reset(f) ==
    [f EXCEPT !.await_flush = FALSE, !.pending_page_flip = FALSE,
              !.armed = @ /\ ~f.source, !.timer_set = FALSE,
              !.pending = Null, !.submitted = Null]

Discarded(d, e) ==
    /\ e \in DeviceType
    /\ e.sync_cursor_primary = d.sync_cursor_primary /\ e.timer_state = d.timer_state
    /\ e.active = d.active
    /\ e.listeners = d.listeners /\ e.kernel = d.kernel
    /\ e.events = d.events /\ e.urgent = d.urgent
    /\ e.callbacks = d.callbacks
    /\ e.cursor_invalidated = d.cursor_invalidated
    /\ e.cursor_stale = d.cursor_stale /\ e.busy = d.busy
    /\ \A x \in Crtcs :
          /\ e.frame[x] = Reset(d.frame[x])
          /\ e.answers[x] = d.answers[x] + Held("frame" \in d.frame[x].pending)
                                         + Held("frame" \in d.frame[x].submitted)

(* A mode set for the CRTCs S that passes or does not.                     *)
ModeSetPasses(d, e, S) ==
    /\ e.events = d.events \cup S \cup {x \in Crtcs : d.kernel[x] # "idle"}
    /\ e.callbacks = d.callbacks \cup ({"cursor_passed"} \X (S \cap d.cursor_invalidated))
    /\ e.cursor_stale = d.cursor_stale \ (S \cap d.cursor_invalidated)
    /\ \A x \in Crtcs :
          /\ e.kernel[x] = "idle"
          /\ e.listeners[x] = IF x \in S THEN d.listeners[x] \cup {"frame"} ELSE d.listeners[x]
          /\ e.answers[x] = d.answers[x] + Held("frame" \in d.frame[x].pending)
                                         + Held("frame" \in d.frame[x].submitted)

ModeSetFails(d, e, S) ==
    /\ e.events = d.events /\ e.callbacks = d.callbacks /\ e.cursor_stale = d.cursor_stale
    /\ e.kernel = d.kernel /\ e.listeners = d.listeners
    /\ \A x \in Crtcs :
          e.answers[x] = d.answers[x] + Held("frame" \in d.frame[x].pending)
                                      + Held("frame" \in d.frame[x].submitted)
                                      + Held(x \in S)

AfterReset(d, e) ==
    /\ e \in DeviceType
    /\ e.sync_cursor_primary = d.sync_cursor_primary /\ e.timer_state = d.timer_state
    /\ e.cursor_invalidated = d.cursor_invalidated /\ e.busy = d.busy
    /\ \A x \in Crtcs : e.frame[x] = Reset(d.frame[x])

-----------------------------------------------------------------------------
(* Relations.                                                              *)

(* The relations compose.                                                  *)
LEMMA OnlyFrameTransitive ==
    ASSUME NEW d, NEW e, NEW g, NEW c, OnlyFrame(d, e, c), OnlyFrame(e, g, c)
    PROVE  OnlyFrame(d, g, c)
BY DEF OnlyFrame

LEMMA OnlyFrameReflexive ==
    ASSUME NEW d \in DeviceType, NEW c
    PROVE  OnlyFrame(d, d, c)
BY DEF OnlyFrame

LEMMA OnlyFrameApart ==
    ASSUME NEW d \in DeviceType, NEW e, NEW c \in Crtcs, OnlyFrame(d, e, c)
    PROVE  Apart(d, e, c)
<1>1. e.answers[c] >= d.answers[c]
    BY DEF OnlyFrame, DeviceType
<1> QED BY <1>1 DEF OnlyFrame, Apart

LEMMA ApartTransitive ==
    ASSUME NEW d \in DeviceType, NEW e, NEW g, NEW c \in Crtcs, Apart(d, e, c), Apart(e, g, c)
    PROVE  Apart(d, g, c)
<1>1. g.answers[c] >= d.answers[c]
    BY DEF Apart, DeviceType
<1> QED BY <1>1 DEF Apart

-----------------------------------------------------------------------------
(* The primitive changes of the device.                                    *)

(* The fields of the device have their types.                              *)
LEMMA FrameIsFrame ==
    ASSUME NEW d \in DeviceType, NEW c \in Crtcs
    PROVE  d.frame[c] \in CrtcFrame
BY DEF DeviceType

(* Changing the CrtcFrame of one CRTC changes nothing else.                *)
LEMMA FrameChanged ==
    ASSUME NEW d \in DeviceType, NEW c \in Crtcs, NEW f \in CrtcFrame
    PROVE  Reframed(d, [d EXCEPT !.frame[c] = f], c, f)
<1> DEFINE e == [d EXCEPT !.frame[c] = f]
<1>1. [d.frame EXCEPT ![c] = f] \in [Crtcs -> CrtcFrame]
    BY DEF DeviceType
<1>2. e \in DeviceType
    BY <1>1 DEF DeviceType
<1>3. e.frame = [d.frame EXCEPT ![c] = f]
    BY DEF DeviceType
<1>4. e.frame[c] = f /\ \A x \in Crtcs \ {c} : e.frame[x] = d.frame[x]
    BY <1>3 DEF DeviceType
<1> QED BY <1>2, <1>4 DEF Reframed, OnlyFrame, DeviceType

LEMMA FrameTransitive ==
    ASSUME NEW d, NEW e, NEW g, NEW c, NEW f, NEW h,
           Reframed(d, e, c, f), Reframed(e, g, c, h)
    PROVE  Reframed(d, g, c, h)
BY OnlyFrameTransitive DEF Reframed

LEMMA FrameKept ==
    ASSUME NEW d \in DeviceType, NEW c \in Crtcs
    PROVE  Reframed(d, d, c, d.frame[c])
BY OnlyFrameReflexive DEF Reframed

(* The operators on the deadline timer work on the CrtcFrame alone.        *)
LEMMA TimerFrames ==
    ASSUME NEW f \in CrtcFrame, NEW using \in BOOLEAN, NEW lit \in BOOLEAN
    PROVE  /\ Disarmed(f) \in CrtcFrame /\ Armed(f) \in CrtcFrame
           /\ Ensured(f, using, lit) \in CrtcFrame
<1>1. Disarmed(f) \in CrtcFrame
    BY DEF Disarmed, CrtcFrame
<1>2. Armed(f) \in CrtcFrame
    BY DEF Armed, CrtcFrame
<1>3. (IF f.exists THEN f.await_flush ELSE ~lit) \in BOOLEAN /\ (f.timer_set /\ using) \in BOOLEAN
    BY Zenon DEF CrtcFrame
<1>4. Ensured(f, using, lit) \in CrtcFrame
    BY <1>3 DEF Ensured, CrtcFrame
<1> QED BY <1>1, <1>2, <1>4

LEMMA DisarmReframes ==
    ASSUME NEW d \in DeviceType, NEW c \in Crtcs
    PROVE  Reframed(d, disarm_crtc_frame_deadline_timer(d, c), c, Disarmed(d.frame[c]))
<1> DEFINE e == disarm_crtc_frame_deadline_timer(d, c)
           f == d.frame[c]
<1>1. Disarmed(f) \in CrtcFrame
    BY FrameIsFrame, TimerFrames
<1>2. CASE f.source
  <2>1. e = [d EXCEPT !.frame[c] = Disarmed(f)]
    BY <1>2 DEF disarm_crtc_frame_deadline_timer, Disarmed, DeviceType
  <2> HIDE DEF e, f
  <2> QED BY <2>1, <1>1, FrameChanged DEF e, f
<1>3. CASE ~f.source
  <2>1. e = d /\ Disarmed(f) = f
    BY <1>3 DEF disarm_crtc_frame_deadline_timer, Disarmed
  <2> QED BY <2>1, FrameKept
<1> QED BY <1>2, <1>3

LEMMA ArmReframes ==
    ASSUME NEW d \in DeviceType, NEW c \in Crtcs
    PROVE  Reframed(d, arm_crtc_frame_deadline_timer(d, c), c, Armed(d.frame[c]))
<1> DEFINE e == arm_crtc_frame_deadline_timer(d, c)
           f == d.frame[c]
<1>1. Armed(f) \in CrtcFrame
    BY FrameIsFrame, TimerFrames
<1>2. CASE f.source
  <2>1. e = [d EXCEPT !.frame[c] = Armed(f)]
    BY <1>2 DEF arm_crtc_frame_deadline_timer, Armed, DeviceType
  <2> HIDE DEF e, f
  <2> QED BY <2>1, <1>1, FrameChanged DEF e, f
<1>3. CASE ~f.source
  <2>1. e = d /\ Armed(f) = f
    BY <1>3 DEF arm_crtc_frame_deadline_timer, Armed
  <2> QED BY <2>1, FrameKept
<1> QED BY <1>2, <1>3

LEMMA EnsureReframes ==
    ASSUME NEW d \in DeviceType, NEW c \in Crtcs
    PROVE  Reframed(d, ensure_crtc_frame(d, c), c,
                    Ensured(d.frame[c], is_using_deadline_timer(d), c \in d.active))
<1> DEFINE f == Ensured(d.frame[c], is_using_deadline_timer(d), c \in d.active)
<1>1. is_using_deadline_timer(d) \in BOOLEAN /\ (c \in d.active) \in BOOLEAN
    BY DeviceAssumption DEF is_using_deadline_timer
<1>2. f \in CrtcFrame
    BY <1>1, FrameIsFrame, TimerFrames
<1>3. ensure_crtc_frame(d, c) = [d EXCEPT !.frame[c] = f]
    BY DEF ensure_crtc_frame, Ensured
<1> HIDE DEF f
<1> QED BY <1>2, <1>3, FrameChanged DEF f

(* Only the timer state may change, or the timer be armed.                 *)
LEMMA DeadlineReframes ==
    ASSUME NEW d \in DeviceType, NEW c \in Crtcs, NEW dl \in {"ok", "error", "denied"}
    PROVE  Deadlined(d, ensure_deadline_timer_armed(d, c, dl), c, dl)
<1> DEFINE e == ensure_deadline_timer_armed(d, c, dl)
<1>1. CASE d.frame[c].armed \/ c \notin d.active
  <2>1. e = d
    BY <1>1 DEF ensure_deadline_timer_armed
  <2> QED BY <1>1, <2>1, OnlyFrameReflexive DEF Deadlined
<1>2. CASE ~d.frame[c].armed /\ c \in d.active /\ dl = "ok"
  <2>1. e = arm_crtc_frame_deadline_timer(d, c)
    BY <1>2 DEF ensure_deadline_timer_armed
  <2> HIDE DEF e
  <2>2. Reframed(d, e, c, Armed(d.frame[c]))
    BY <2>1, ArmReframes
  <2> QED BY <1>2, <2>2 DEF Reframed, Deadlined, e
<1>3. CASE ~d.frame[c].armed /\ c \in d.active /\ dl # "ok"
  <2>1. e = [d EXCEPT !.timer_state = IF dl = "denied" THEN "INHIBITED" ELSE "DISABLED"]
    BY <1>3 DEF ensure_deadline_timer_armed
  <2>2. OnlyFrame(d, e, c) /\ e.needs_flush = d.needs_flush /\ e.frame = d.frame
    BY <2>1 DEF OnlyFrame, DeviceType
  <2> QED BY <1>3, <2>2 DEF Deadlined
<1> QED BY <1>1, <1>2, <1>3

(* A failure is told to the frame of the update and changes nothing else.  *)
LEMMA FailStays ==
    ASSUME NEW d \in DeviceType, NEW c \in Crtcs, NEW u \in SUBSET Items
    PROVE  Stays(d, Fail(d, c, u), c, u)
<1> DEFINE e == Fail(d, c, u)
<1>1. CASE "frame" \in u
  <2>1. e = [d EXCEPT !.answers[c] = @ + 1]
    BY <1>1 DEF Fail
  <2>2. [d.answers EXCEPT ![c] = @ + 1] \in [Crtcs -> Nat]
    BY DEF DeviceType
  <2>3. e \in DeviceType
    BY <2>1, <2>2 DEF DeviceType
  <2>4. e.answers = [d.answers EXCEPT ![c] = @ + 1]
    BY <2>1 DEF DeviceType
  <2>5. e.answers[c] = d.answers[c] + 1 /\ \A x \in Crtcs \ {c} : e.answers[x] = d.answers[x]
    BY <2>4 DEF DeviceType
  <2>6. e.answers[c] >= d.answers[c]
    BY <2>5 DEF DeviceType
  <2>7. /\ e.sync_cursor_primary = d.sync_cursor_primary
        /\ e.timer_state = d.timer_state
        /\ e.frame = d.frame /\ e.active = d.active /\ e.vrr = d.vrr
        /\ e.listeners = d.listeners /\ e.kernel = d.kernel
        /\ e.events = d.events /\ e.urgent = d.urgent
        /\ e.callbacks = d.callbacks /\ e.cursor_invalidated = d.cursor_invalidated
        /\ e.cursor_stale = d.cursor_stale /\ e.busy = d.busy
    BY <2>1 DEF DeviceType
  <2>8. Held("frame" \in u) = 1
    BY <1>1 DEF Held
  <2> HIDE DEF e
  <2>9. Apart(d, e, c)
    BY <2>3, <2>5, <2>6, <2>7 DEF Apart
  <2> QED BY <2>5, <2>7, <2>8, <2>9 DEF Stays, e
<1>2. CASE "frame" \notin u
  <2>1. e = d /\ Held("frame" \in u) = 0
    BY <1>2 DEF Fail, Held
  <2>2. Apart(d, d, c)
    BY OnlyFrameReflexive, OnlyFrameApart
  <2>3. d.answers[c] = d.answers[c] + 0
    BY DEF DeviceType
  <2> QED BY <2>1, <2>2, <2>3 DEF Stays
<1> QED BY <1>1, <1>2

(* A commit the kernel accepts hands the listeners of the update to the    *)
(* flip.                                                                   *)
LEMMA PassPasses ==
    ASSUME NEW d \in DeviceType, NEW c \in Crtcs, NEW u \in SUBSET Items, CanCommit(d, c)
    PROVE  Passes(d, Pass(d, c, u, c \in d.cursor_invalidated), c, u)
<1> DEFINE e == Pass(d, c, u, c \in d.cursor_invalidated)
           cb == IF c \in d.cursor_invalidated
                 THEN d.callbacks \cup {<<"cursor_passed", c>>} ELSE d.callbacks
           st == IF c \in d.cursor_invalidated THEN d.cursor_stale \ {c} ELSE d.cursor_stale
           f == [d.frame[c] EXCEPT !.pending_page_flip = TRUE]
           l == d.listeners[c] \cup {"impl"} \cup (u \cap {"frame", "orphan"})
<1>1. PredictVrr(d, c, u) \in SUBSET Crtcs
    BY DEF PredictVrr, DeviceType
<1>2. cb \in SUBSET ({"flipped", "cursor_passed"} \X Crtcs)
    BY DEF DeviceType
<1>3. st \in SUBSET Crtcs
    BY DEF DeviceType
<1>4. f \in CrtcFrame
    BY FrameIsFrame DEF CrtcFrame
<1>5. l \in SUBSET {"impl", "frame", "orphan"}
    BY DEF DeviceType
<1>6. /\ [d.frame EXCEPT ![c] = f] \in [Crtcs -> CrtcFrame]
      /\ [d.listeners EXCEPT ![c] = l] \in [Crtcs -> SUBSET {"impl", "frame", "orphan"}]
      /\ [d.kernel EXCEPT ![c] = "flipping"] \in [Crtcs -> {"idle", "flipping"}]
    BY <1>4, <1>5 DEF DeviceType
<1>7. e = [d EXCEPT !.kernel[c] = "flipping", !.listeners[c] = l, !.frame[c] = f,
                    !.callbacks = cb, !.cursor_stale = st, !.vrr = PredictVrr(d, c, u)]
    BY DEF Pass
<1>8. /\ <<"flipped", c>> \in cb <=> <<"flipped", c>> \in d.callbacks
      /\ \A x \in Crtcs \ {c}, k \in {"flipped", "cursor_passed"} :
            <<k, x>> \in cb <=> <<k, x>> \in d.callbacks
      /\ \A x \in Crtcs \ {c} : x \in st <=> x \in d.cursor_stale
    OBVIOUS
<1>9. IF c \in d.cursor_invalidated THEN c \notin st
      ELSE cb = d.callbacks /\ st = d.cursor_stale
    OBVIOUS
<1> HIDE DEF e, cb, st, f, l
<1>10. e \in DeviceType
    BY <1>1, <1>2, <1>3, <1>6, <1>7 DEF DeviceType
<1>11. /\ e.sync_cursor_primary = d.sync_cursor_primary
       /\ e.timer_state = d.timer_state
       /\ e.frame = [d.frame EXCEPT ![c] = f] /\ e.active = d.active
       /\ e.listeners = [d.listeners EXCEPT ![c] = l]
       /\ e.kernel = [d.kernel EXCEPT ![c] = "flipping"]
       /\ e.events = d.events /\ e.urgent = d.urgent
       /\ e.callbacks = cb /\ e.cursor_invalidated = d.cursor_invalidated
       /\ e.cursor_stale = st /\ e.busy = d.busy /\ e.answers = d.answers
    BY <1>7 DEF DeviceType
<1>12. /\ e.frame[c] = f /\ e.listeners[c] = l /\ e.kernel[c] = "flipping"
       /\ \A x \in Crtcs \ {c} : /\ e.frame[x] = d.frame[x] /\ e.listeners[x] = d.listeners[x]
                                 /\ e.kernel[x] = d.kernel[x]
    BY <1>11 DEF DeviceType
<1>13. e.answers[c] >= d.answers[c]
    BY <1>11 DEF DeviceType
<1>14. Apart(d, e, c)
    BY <1>8, <1>10, <1>11, <1>12, <1>13 DEF Apart
<1> QED BY <1>8, <1>9, <1>11, <1>12, <1>14 DEF Passes, e, f, l

(* A commit the kernel refuses is told to the frame of the update. It is   *)
(* EBUSY only if the kernel still owed a flip.                             *)
LEMMA RefuseRefuses ==
    ASSUME NEW d \in DeviceType, NEW c \in Crtcs, NEW u \in SUBSET Items, master \in BOOLEAN
    PROVE  Refuses(d, Refuse(d, c, u), c, u)
<1> DEFINE f == [d.frame[c] EXCEPT !.pending_page_flip = FALSE]
           b == d.busy \/ (master /\ d.kernel[c] = "flipping")
           g == [d EXCEPT !.frame[c] = f, !.busy = b, !.vrr = PredictVrr(d, c, u)]
           e == Refuse(d, c, u)
<1>1. PredictVrr(d, c, u) \in SUBSET Crtcs
    BY DEF PredictVrr, DeviceType
<1>2. f \in CrtcFrame
    BY FrameIsFrame DEF CrtcFrame
<1>3. [d.frame EXCEPT ![c] = f] \in [Crtcs -> CrtcFrame]
    BY <1>2 DEF DeviceType
<1>4. b \in BOOLEAN
    OBVIOUS
<1>5. e = Fail(g, c, u)
    BY DEF Refuse
<1> HIDE DEF e, f, b
<1>6. g \in DeviceType
    BY <1>1, <1>3, <1>4 DEF DeviceType
<1>7. /\ g.sync_cursor_primary = d.sync_cursor_primary
       /\ g.timer_state = d.timer_state
       /\ g.frame = [d.frame EXCEPT ![c] = f] /\ g.active = d.active
       /\ g.listeners = d.listeners /\ g.kernel = d.kernel
       /\ g.events = d.events /\ g.urgent = d.urgent
       /\ g.callbacks = d.callbacks /\ g.cursor_invalidated = d.cursor_invalidated
       /\ g.cursor_stale = d.cursor_stale /\ g.busy = b /\ g.answers = d.answers
    BY DEF DeviceType
<1> HIDE DEF g
<1>8. g.frame[c] = f /\ \A x \in Crtcs \ {c} : g.frame[x] = d.frame[x]
    BY <1>7 DEF DeviceType
<1>9. Stays(g, e, c, u)
    BY <1>5, <1>6, FailStays
<1>10. Apart(d, e, c)
    BY <1>7, <1>8, <1>9 DEF Stays, Apart
<1> QED BY <1>7, <1>8, <1>9, <1>10 DEF Stays, Refuses, f, b, e

-----------------------------------------------------------------------------
(* Processing an update.                                                   *)

(* do_process commits an update or tells its frame that it could not.      *)
LEMMA ProcessProcessed ==
    ASSUME NEW d \in DeviceType, NEW c \in Crtcs, NEW u \in SUBSET Items, NEW ok \in BOOLEAN,
           master \in BOOLEAN, d.frame[c].pending = Null, Free(d, c)
    PROVE  Processed(d, do_process(d, c, u, ok), c, u)
<1> DEFINE e == do_process(d, c, u, ok)
           s == [d EXCEPT !.frame[c].pending = Null]
           f == [d.frame[c] EXCEPT !.pending = Null]
<1>1. u \cup d.frame[c].pending = u
    BY DEF Null
<1>2. f = d.frame[c]
    BY FrameIsFrame DEF CrtcFrame
<1>3. s = d
  <2>1. s = [d EXCEPT !.frame[c] = d.frame[c]]
    BY <1>2
  <2>2. [d.frame EXCEPT ![c] = d.frame[c]] = d.frame
    BY DEF DeviceType
  <2>3. [d EXCEPT !.frame = d.frame] = d
    BY DEF DeviceType
  <2> QED BY <2>1, <2>2, <2>3
<1>4. \/ e = Fail(d, c, u)
      \/ CanCommit(d, c) /\ e = Pass(d, c, u, c \in d.cursor_invalidated)
      \/ e = Refuse(d, c, u)
    BY <1>1, <1>3 DEF do_process
<1> HIDE DEF e
<1>5. \/ Stays(d, e, c, u) \/ Passes(d, e, c, u) \/ Refuses(d, e, c, u)
    BY <1>4, FailStays, PassPasses, RefuseRefuses
<1>6. CASE Stays(d, e, c, u)
    BY <1>6 DEF Stays, Processed, Rest, Answers, Free, e
<1>7. CASE Passes(d, e, c, u)
  <2>1. Rest(d.frame[c], e.frame[c]) /\ e.frame[c].pending_page_flip
    BY <1>7, FrameIsFrame DEF Passes, Rest, CrtcFrame
  <2> QED BY <1>7, <2>1 DEF Passes, Processed, Commits, e
<1>8. CASE Refuses(d, e, c, u)
  <2>1. Rest(d.frame[c], e.frame[c]) /\ ~e.frame[c].pending_page_flip
    BY <1>8, FrameIsFrame DEF Refuses, Rest, CrtcFrame
  <2>2. ~(master /\ d.kernel[c] = "flipping")
    BY DEF Free
  <2>3. e.busy = d.busy
    BY <1>8, <2>2 DEF Refuses, DeviceType
  <2> QED BY <1>8, <2>1, <2>3 DEF Refuses, Processed, Answers, e
<1> QED BY <1>5, <1>6, <1>7, <1>8 DEF e

(* The timer is gone once the update is committed.                         *)
Unhurried(f) == f.pending_page_flip /\ f.source => ~f.timer_set /\ ~f.armed

(* Disarming the timer afterwards changes no more of it.                   *)
LEMMA ProcessedFrame ==
    ASSUME NEW d \in DeviceType, NEW e, NEW g, NEW c \in Crtcs, NEW w \in SUBSET Items,
           Processed(d, e, c, w), g = disarm_crtc_frame_deadline_timer(e, c)
    PROVE  Processed(d, g, c, w) /\ Unhurried(g.frame[c])
<1>1. e \in DeviceType
    BY DEF Processed, Apart
<1>2. Reframed(e, g, c, Disarmed(e.frame[c]))
    BY <1>1, DisarmReframes
<1>3. /\ Rest(d.frame[c], g.frame[c])
      /\ g.frame[c].pending_page_flip = e.frame[c].pending_page_flip
      /\ g.frame[c].source = e.frame[c].source
      /\ e.frame[c].source => ~g.frame[c].timer_set /\ ~g.frame[c].armed
  <2>1. e.frame[c] \in CrtcFrame
    BY <1>1, FrameIsFrame
  <2>2. g.frame[c] = Disarmed(e.frame[c])
    BY <1>2 DEF Reframed
  <2> QED BY <2>1, <2>2 DEF Processed, Rest, Disarmed, CrtcFrame
<1>4. Apart(d, g, c)
  <2>1. Apart(e, g, c)
    BY <1>1, <1>2, OnlyFrameApart DEF Reframed
  <2> QED BY <2>1, ApartTransitive DEF Processed
<1>5. Answers(d, g, c, w) \/ Commits(d, g, c, w)
    BY <1>2, <1>3 DEF Processed, Reframed, OnlyFrame, Answers, Commits
<1> QED BY <1>2, <1>3, <1>4, <1>5 DEF Processed, Reframed, OnlyFrame, Unhurried

(* Processing after a change of the CrtcFrame that processing would have   *)
(* made.                                                                   *)
LEMMA ProcessedFrom ==
    ASSUME NEW d \in DeviceType, NEW s, NEW e, NEW c \in Crtcs, NEW w \in SUBSET Items,
           OnlyFrame(d, s, c), s.timer_state = d.timer_state,
           Rest(d.frame[c], s.frame[c]), Processed(s, e, c, w)
    PROVE  Processed(d, e, c, w)
<1>1. s \in DeviceType /\ Apart(s, e, c)
    BY DEF OnlyFrame, Processed
<1>2. Apart(d, e, c)
    BY <1>1, OnlyFrameApart, ApartTransitive
<1>3. Rest(d.frame[c], e.frame[c])
    BY DEF Processed, Rest
<1>4. Answers(d, e, c, w) \/ Commits(d, e, c, w)
    BY DEF Processed, Answers, Commits, OnlyFrame, CanCommit
<1> QED BY <1>2, <1>3, <1>4 DEF Processed, OnlyFrame

(* The deadline dispatch processes the pending update.                     *)
LEMMA DispatchProcessed ==
    ASSUME NEW d \in DeviceType, NEW c \in Crtcs, NEW ok \in BOOLEAN,
           master \in BOOLEAN, Free(d, c)
    PROVE  /\ Processed(d, crtc_frame_deadline_dispatch(d, c, ok), c, d.frame[c].pending)
           /\ Unhurried(crtc_frame_deadline_dispatch(d, c, ok).frame[c])
<1> DEFINE f == [d.frame[c] EXCEPT !.pending = Null]
           s == [d EXCEPT !.frame[c] = f]
           u == d.frame[c].pending
           e == crtc_frame_deadline_dispatch(d, c, ok)
<1>1. /\ f \in CrtcFrame /\ f.pending = Null /\ ~f.pending_page_flip
      /\ Rest(d.frame[c], f)
    BY FrameIsFrame DEF CrtcFrame, Free, Null, Rest
<1>2. u \in SUBSET Items
    BY FrameIsFrame DEF CrtcFrame
<1>3. e = disarm_crtc_frame_deadline_timer(do_process(s, c, u, ok), c)
    BY DEF crtc_frame_deadline_dispatch
<1> HIDE DEF f, u, e
<1>4. Reframed(d, s, c, f)
    BY <1>1, FrameChanged
<1>5. s \in DeviceType /\ s.frame[c].pending = Null /\ Free(s, c)
    BY <1>1, <1>4 DEF Reframed, OnlyFrame, Free, Expected
<1> HIDE DEF s
<1>6. Processed(s, do_process(s, c, u, ok), c, u)
    BY <1>2, <1>5, ProcessProcessed
<1>7. Processed(s, e, c, u) /\ Unhurried(e.frame[c])
    BY <1>2, <1>3, <1>5, <1>6, ProcessedFrame, ZenonT(60)
<1>8. Processed(d, e, c, u)
    BY <1>1, <1>2, <1>4, <1>7, ProcessedFrom DEF Reframed
<1> QED BY <1>7, <1>8 DEF u, e

(* do_process_update merges the pending update into the one it processes,  *)
(* and processes both at once.                                             *)
LEMMA UpdateProcessed ==
    ASSUME NEW d \in DeviceType, NEW c \in Crtcs, NEW u \in SUBSET Items, NEW ok \in BOOLEAN,
           master \in BOOLEAN, Free(d, c)
    PROVE  /\ Processed(d, do_process_update(d, c, u, ok), c, u \cup d.frame[c].pending)
           /\ Unhurried(do_process_update(d, c, u, ok).frame[c])
<1> DEFINE held == d.frame[c].pending
           f == [d.frame[c] EXCEPT !.pending = Null]
           s == [d EXCEPT !.frame[c] = f]
           d1 == IF held = Null THEN d ELSE disarm_crtc_frame_deadline_timer(s, c)
           d2 == [d1 EXCEPT !.needs_flush = @ \ {c}]
           w == u \cup held
           d3 == do_process(d2, c, w, ok)
           e == do_process_update(d, c, u, ok)
<1>1. w \in SUBSET Items
    BY FrameIsFrame DEF CrtcFrame
<1>2. f \in CrtcFrame /\ f.pending = Null /\ ~f.pending_page_flip
      /\ Rest(d.frame[c], f)
    BY FrameIsFrame DEF CrtcFrame, Free, Null, Rest
<1>3. e = IF Passed(d2, d3, c) THEN disarm_crtc_frame_deadline_timer(d3, c) ELSE d3
    BY DEF do_process_update
<1> HIDE DEF f
<1>4. Reframed(d, s, c, f)
    BY <1>2, FrameChanged
<1>5. OnlyFrame(d, s, c) /\ s.frame[c] = f /\ s.timer_state = d.timer_state /\ s \in DeviceType
    BY <1>4 DEF Reframed, OnlyFrame
<1> HIDE DEF s
<1>6. /\ OnlyFrame(d, d1, c) /\ d1.timer_state = d.timer_state
      /\ Rest(d.frame[c], d1.frame[c]) /\ ~d1.frame[c].pending_page_flip
  <2>1. CASE held = Null
    <3>1. d1 = d
        BY <2>1
    <3> QED BY <2>1, <3>1, OnlyFrameReflexive DEF Free, Rest
  <2>2. CASE held # Null
    <3>1. d1 = disarm_crtc_frame_deadline_timer(s, c)
        BY <2>2
    <3>2. Reframed(s, d1, c, Disarmed(f))
        BY <3>1, <1>5, DisarmReframes
    <3>3. OnlyFrame(d, d1, c) /\ d1.timer_state = d.timer_state /\ d1.frame[c] = Disarmed(f)
        BY <3>2, <1>5, OnlyFrameTransitive DEF Reframed
    <3>4. Rest(d.frame[c], Disarmed(f)) /\ ~Disarmed(f).pending_page_flip
        BY <1>2 DEF Rest, Disarmed, CrtcFrame
    <3> QED BY <3>3, <3>4
  <2> QED BY <2>1, <2>2
<1> HIDE DEF d1
<1>7. /\ OnlyFrame(d, d2, c) /\ d2.timer_state = d.timer_state /\ d2 \in DeviceType
      /\ d2.frame = d1.frame
  <2>1. d1 \in DeviceType
    BY <1>6 DEF OnlyFrame
  <2>2. d2 \in DeviceType /\ d2.frame = d1.frame /\ d2.timer_state = d1.timer_state
    BY <2>1 DEF DeviceType
  <2>3. OnlyFrame(d1, d2, c)
    BY <2>1, <2>2 DEF OnlyFrame, DeviceType
  <2> QED BY <1>6, <2>2, <2>3, OnlyFrameTransitive
<1> HIDE DEF d2
<1>8. d2.frame[c].pending = Null /\ Free(d2, c) /\ Rest(d.frame[c], d2.frame[c])
    BY <1>6, <1>7 DEF Rest, Free, Expected, OnlyFrame
<1>9. Processed(d2, d3, c, w)
    BY <1>1, <1>7, <1>8, ProcessProcessed
<1> HIDE DEF d3, w, e
<1>10. Processed(d2, e, c, w) /\ Unhurried(e.frame[c])
  <2>1. CASE Passed(d2, d3, c)
    BY <2>1, <1>1, <1>3, <1>7, <1>9, ProcessedFrame
  <2>2. CASE ~Passed(d2, d3, c)
    <3>1. ~Commits(d2, d3, c, w)
        BY <2>2 DEF Commits, Passed, CanCommit
    <3>2. ~d3.frame[c].pending_page_flip
        BY <1>9, <3>1 DEF Processed, Answers
    <3> QED BY <1>3, <1>9, <2>2, <3>2 DEF Unhurried
  <2> QED BY <2>1, <2>2
<1>11. Processed(d, e, c, w)
    BY <1>1, <1>7, <1>8, <1>10, ProcessedFrom
<1> QED BY <1>10, <1>11 DEF w, e

-----------------------------------------------------------------------------
(* What the operations do to the soundness of one CRTC.                    *)

(* Counting frames.                                                        *)
LEMMA HeldType ==
    ASSUME NEW b PROVE Held(b) \in {0, 1}
BY DEF Held

LEMMA HeldUnion ==
    ASSUME NEW x, NEW S, NEW T, Held(x \in S) + Held(x \in T) \in {0, 1}
    PROVE  Held(x \in S \cup T) = Held(x \in S) + Held(x \in T)
BY DEF Held

LEMMA HeldNull ==
    ASSUME NEW x PROVE Held(x \in Null) = 0
BY DEF Held, Null

(* Processing an update moves its frame from the CrtcFrame to the          *)
(* listeners or to the answers, so it is still counted once.               *)
LEMMA ProcessedSound ==
    ASSUME NEW d \in DeviceType, NEW e, NEW c \in Crtcs, NEW w \in SUBSET Items, NEW n \in {0, 1},
           Free(d, c), ~d.busy, Timed(d.frame[c]), CursorOk(d, c),
           Processed(d, e, c, w), Unhurried(e.frame[c]),
           Held("frame" \in d.frame[c].submitted) + Held("frame" \in w)
             + Held("frame" \in d.listeners[c]) + d.answers[c] = n
    PROVE  Sound(e, c, n)
<1>1. e \in DeviceType /\ ~e.busy
    BY DEF Processed, Apart
<1>2. Timed(e.frame[c])
    BY DEF Processed, Rest, Timed, Unhurried
<1>3. Rest(d.frame[c], e.frame[c])
    BY DEF Processed
<1>4. CASE Answers(d, e, c, w)
  <2>1. FlipOk(e, c)
    BY <1>4 DEF FlipOk, Answers, Free, Expected, Processed, Apart
  <2>2. CursorOk(e, c)
    BY <1>4 DEF CursorOk, Answers, Processed, Apart
  <2>3. Count(e, c) = n
    <3> DEFINE s == Held("frame" \in d.frame[c].submitted)
               l == Held("frame" \in d.listeners[c])
               h == Held("frame" \in w)
               a == d.answers[c]
    <3>1. s \in {0, 1} /\ l \in {0, 1} /\ h \in {0, 1} /\ a \in Nat
        BY HeldType DEF DeviceType
    <3>2. Count(e, c) = s + 0 + l + (a + h)
        BY <1>3, <1>4, HeldNull DEF Count, Rest, Answers
    <3>3. s + h + l + a = n
        OBVIOUS
    <3> HIDE DEF s, l, h, a
    <3> QED BY <3>1, <3>2, <3>3
  <2> QED BY <1>1, <1>2, <2>1, <2>2, <2>3 DEF Sound
<1>5. CASE Commits(d, e, c, w)
  <2>1. FlipOk(e, c)
    BY <1>5 DEF FlipOk, Commits, Free, Expected, Processed, Apart, CanCommit
  <2>2. CursorOk(e, c)
    BY <1>5 DEF CursorOk, Commits, Processed, Apart
  <2>3. Count(e, c) = n
    <3> DEFINE s == Held("frame" \in d.frame[c].submitted)
               l == Held("frame" \in d.listeners[c])
               h == Held("frame" \in w)
               a == d.answers[c]
    <3>1. s \in {0, 1} /\ l \in {0, 1} /\ h \in {0, 1} /\ a \in Nat
        BY HeldType DEF DeviceType
    <3>2. s + h + l + a = n
        OBVIOUS
    <3>3. Held("frame" \in e.listeners[c]) = Held("frame" \in d.listeners[c] \cup w)
        BY <1>5 DEF Commits, Held
    <3>4. l + h \in {0, 1}
      <4> HIDE DEF s, l, h, a
      <4> QED BY <3>1, <3>2
    <3>5. Held("frame" \in e.listeners[c]) = l + h
        BY <3>3, <3>4, HeldUnion
    <3>6. Count(e, c) = s + 0 + (l + h) + a
        BY <1>3, <1>5, <3>5, HeldNull DEF Count, Rest, Commits
    <3> HIDE DEF s, l, h, a
    <3> QED BY <3>1, <3>2, <3>6
  <2> QED BY <1>1, <1>2, <2>1, <2>2, <2>3 DEF Sound
<1> QED BY <1>4, <1>5 DEF Processed

(* A change of the CrtcFrame that leaves pending_page_flip alone.          *)
LEMMA FrameSoundAt ==
    ASSUME NEW d, NEW e, NEW c \in Crtcs, NEW n, NEW m,
           Sound(d, c, n), Steady(d, c), OnlyFrame(d, e, c), Timed(e.frame[c]),
           e.frame[c].pending_page_flip = d.frame[c].pending_page_flip,
           Count(e, c) = m
    PROVE  Sound(e, c, m) /\ Steady(e, c)
<1>1. Steady(e, c)
    BY DEF Steady, Expected, OnlyFrame
<1>2. FlipOk(e, c)
    BY <1>1 DEF Sound, FlipOk, Steady, Expected, OnlyFrame
<1>3. CursorOk(e, c)
    BY DEF Sound, CursorOk, OnlyFrame
<1> QED BY <1>1, <1>2, <1>3 DEF Sound, OnlyFrame

LEMMA FrameSound ==
    ASSUME NEW d, NEW e, NEW c \in Crtcs, NEW n \in {0, 1},
           Sound(d, c, n), Steady(d, c), OnlyFrame(d, e, c), Timed(e.frame[c]),
           e.frame[c].pending_page_flip = d.frame[c].pending_page_flip,
           Held("frame" \in e.frame[c].submitted) + Held("frame" \in e.frame[c].pending)
             = Held("frame" \in d.frame[c].submitted) + Held("frame" \in d.frame[c].pending)
    PROVE  Sound(e, c, n) /\ Steady(e, c)
<1>1. Count(e, c) = n
    BY DEF Sound, Count, OnlyFrame
<1> QED BY <1>1, FrameSoundAt

(* No flip is pending and none is expected: the thread may commit.         *)
LEMMA SteadyFree ==
    ASSUME NEW d, NEW c \in Crtcs, NEW n, Sound(d, c, n), Steady(d, c),
           ~d.frame[c].pending_page_flip
    PROVE  Free(d, c)
BY DEF Sound, FlipOk, Steady, Free, DeviceType

(* do_process_update of what is pending keeps a CRTC sound.                *)
LEMMA ProcessSound ==
    ASSUME NEW d, NEW c \in Crtcs, NEW n \in {0, 1}, NEW ok \in BOOLEAN, master \in BOOLEAN,
           Sound(d, c, n), Steady(d, c), ~d.frame[c].pending_page_flip
    PROVE  /\ Sound(do_process_update(d, c, Null, ok), c, n)
           /\ Apart(d, do_process_update(d, c, Null, ok), c)
<1> DEFINE e == do_process_update(d, c, Null, ok)
           w == d.frame[c].pending
<1>1. d \in DeviceType /\ Free(d, c)
    BY SteadyFree DEF Sound
<1>2. w \in SUBSET Items /\ Null \in SUBSET Items /\ Null \cup w = w
    BY <1>1, FrameIsFrame DEF CrtcFrame, Null
<1>3. Processed(d, e, c, w) /\ Unhurried(e.frame[c])
    BY <1>1, <1>2, UpdateProcessed
<1>4. Held("frame" \in d.frame[c].submitted) + Held("frame" \in w)
             + Held("frame" \in d.listeners[c]) + d.answers[c] = n
    BY DEF Sound, Count
<1> HIDE DEF e, w
<1>5. Sound(e, c, n)
    BY <1>1, <1>2, <1>3, <1>4, ProcessedSound DEF Sound
<1> QED BY <1>3, <1>5 DEF Processed, e

(* So does arming the deadline timer ...                                   *)
LEMMA DeadlineSound ==
    ASSUME NEW d, NEW c \in Crtcs, NEW n \in {0, 1}, NEW dl \in {"ok", "error", "denied"},
           Sound(d, c, n), Steady(d, c), ~d.frame[c].pending_page_flip
    PROVE  LET e == ensure_deadline_timer_armed(d, c, dl) IN
           /\ Sound(e, c, n) /\ Steady(e, c) /\ Apart(d, e, c)
           /\ e.frame[c].pending_page_flip = d.frame[c].pending_page_flip
           /\ e.frame[c].pending = d.frame[c].pending
           /\ e.frame[c].submitted = d.frame[c].submitted
<1> DEFINE e == ensure_deadline_timer_armed(d, c, dl)
<1>1. d \in DeviceType /\ Timed(d.frame[c])
    BY DEF Sound
<1>2. Deadlined(d, e, c, dl)
    BY <1>1, DeadlineReframes
<1> HIDE DEF e
<1>3. OnlyFrame(d, e, c) /\ e.frame[c] \in {Armed(d.frame[c]), d.frame[c]}
    BY <1>2 DEF Deadlined
<1>4. /\ Timed(e.frame[c])
      /\ e.frame[c].pending_page_flip = d.frame[c].pending_page_flip
      /\ e.frame[c].pending = d.frame[c].pending
      /\ e.frame[c].submitted = d.frame[c].submitted
  <2>1. d.frame[c] \in CrtcFrame
    BY <1>1, FrameIsFrame
  <2> QED BY <1>1, <1>3, <2>1 DEF Timed, Armed, CrtcFrame
<1>5. Sound(e, c, n) /\ Steady(e, c)
    BY <1>3, <1>4, FrameSound
<1>6. Apart(d, e, c)
    BY <1>1, <1>3, OnlyFrameApart
<1> QED BY <1>4, <1>5, <1>6 DEF e

(* ... and creating or refreshing the CrtcFrame.                           *)
LEMMA EnsureSound ==
    ASSUME NEW d, NEW c \in Crtcs, NEW n \in {0, 1}, Sound(d, c, n), Steady(d, c)
    PROVE  LET e == ensure_crtc_frame(d, c) IN
           /\ Sound(e, c, n) /\ Steady(e, c) /\ OnlyFrame(d, e, c)
           /\ e.frame[c].pending_page_flip = d.frame[c].pending_page_flip
           /\ e.frame[c].pending = d.frame[c].pending
           /\ e.frame[c].submitted = d.frame[c].submitted
<1> DEFINE e == ensure_crtc_frame(d, c)
           f == d.frame[c]
           g == Ensured(f, is_using_deadline_timer(d), c \in d.active)
<1>1. d \in DeviceType /\ Timed(f) /\ f \in CrtcFrame
    BY FrameIsFrame DEF Sound
<1>2. Reframed(d, e, c, g)
    BY <1>1, EnsureReframes
<1>3. /\ Timed(g) /\ g.pending_page_flip = f.pending_page_flip
      /\ g.pending = f.pending /\ g.submitted = f.submitted
  <2> HIDE DEF f
  <2> QED BY <1>1 DEF Ensured, Timed, CrtcFrame
<1> HIDE DEF e, g
<1>4. OnlyFrame(d, e, c) /\ e.frame[c] = g
    BY <1>2 DEF Reframed
<1>5. Sound(e, c, n) /\ Steady(e, c)
    BY <1>3, <1>4, FrameSound
<1> QED BY <1>3, <1>4, <1>5 DEF e

(* update_ready keeps a CRTC sound, whether it merges, waits or commits.   *)
LEMMA ReadySound ==
    ASSUME NEW d, NEW c \in Crtcs, NEW n \in {0, 1}, NEW ok \in BOOLEAN, master \in BOOLEAN,
           NEW dl \in {"ok", "error", "denied"}, Sound(d, c, n), Steady(d, c)
    PROVE  Sound(update_ready(d, c, ok, dl), c, n) /\ Apart(d, update_ready(d, c, ok, dl), c)
<1> DEFINE f == d.frame[c]
           u == f.submitted
           f1 == [f EXCEPT !.submitted = Null]
           d1 == [d EXCEPT !.frame[c] = f1]
           f2 == [f EXCEPT !.submitted = Null, !.pending = f.pending \cup u]
           d2 == queue_update(d1, c, u)
           d3 == ensure_deadline_timer_armed(d2, c, dl)
           e == update_ready(d, c, ok, dl)
<1>1. d \in DeviceType /\ Timed(f) /\ f \in CrtcFrame /\ u \in SUBSET Items
    BY FrameIsFrame DEF Sound, CrtcFrame
<1>2. f1 \in CrtcFrame /\ f1.pending = f.pending /\ f1.submitted = Null
      /\ f1.pending_page_flip = f.pending_page_flip /\ Timed(f1)
    BY <1>1 DEF CrtcFrame, Null, Timed
<1>3. f2 \in CrtcFrame /\ f2.pending = f.pending \cup u /\ f2.submitted = Null
      /\ f2.pending_page_flip = f.pending_page_flip /\ Timed(f2)
    BY <1>1 DEF CrtcFrame, Null, Timed
<1>4. f2 = [f1 EXCEPT !.pending = @ \cup u]
    BY <1>1 DEF CrtcFrame
<1>5. \/ f.pending_page_flip /\ e = d2
      \/ ~f.pending_page_flip /\ e = do_process_update(d1, c, u, ok)
      \/ ~f.pending_page_flip /\ e = d3
      \/ ~f.pending_page_flip /\ e = do_process_update(d3, c, Null, ok)
    BY DEF update_ready
<1> HIDE DEF e, f1, f2
<1>6. Reframed(d, d1, c, f1)
    BY <1>1, <1>2, FrameChanged
<1>7. Reframed(d, d2, c, f2)
  <2>1. d1.frame[c] = f1 /\ d1 \in DeviceType
    BY <1>6 DEF Reframed, OnlyFrame
  <2>2. d2 = [d1 EXCEPT !.frame[c] = [d1.frame[c] EXCEPT !.pending = @ \cup u]]
    BY DEF queue_update
  <2> HIDE DEF d1, d2, u
  <2>3. d2 = [d1 EXCEPT !.frame[c] = f2]
    BY <1>4, <2>1, <2>2
  <2>4. Reframed(d1, d2, c, f2)
    BY <1>3, <2>1, <2>3, FrameChanged
  <2> QED BY <1>6, <2>4, FrameTransitive
<1> HIDE DEF d1, d2
<1>8. OnlyFrame(d, d1, c) /\ d1.frame[c] = f1 /\ OnlyFrame(d, d2, c) /\ d2.frame[c] = f2
    BY <1>6, <1>7 DEF Reframed
<1> DEFINE a == Held("frame" \in u)
           b == Held("frame" \in f.pending)
           l == Held("frame" \in d.listeners[c])
           k == d.answers[c]
<1>9. /\ a + b + l + k = n /\ a \in {0, 1} /\ b \in {0, 1} /\ l \in {0, 1} /\ k \in Nat
    BY <1>1, HeldType DEF Sound, Count, DeviceType
<1>10. b + a \in {0, 1}
  <2> HIDE DEF a, b, l, k
  <2> QED BY <1>9
<1>11. Held("frame" \in f.pending \cup u) = b + a
    BY <1>10, HeldUnion
<1>12. Sound(d2, c, n) /\ Steady(d2, c)
  <2>1. Held("frame" \in f2.submitted) + Held("frame" \in f2.pending) = a + b
    BY <1>3, <1>9, <1>11, HeldNull
  <2> HIDE DEF a, b
  <2> QED BY <1>3, <1>8, <2>1, FrameSound DEF a, b
<1>13. Apart(d, d2, c) /\ Apart(d, d1, c)
    BY <1>1, <1>8, OnlyFrameApart
<1>14. CASE f.pending_page_flip /\ e = d2
    BY <1>12, <1>13, <1>14 DEF e
<1>15. CASE ~f.pending_page_flip /\ e = do_process_update(d1, c, u, ok)
  <2>1. Free(d, c)
    BY <1>15, SteadyFree
  <2>2. d1 \in DeviceType /\ Free(d1, c) /\ ~d1.busy /\ Timed(d1.frame[c]) /\ CursorOk(d1, c)
    BY <1>2, <1>8, <2>1 DEF OnlyFrame, Free, Expected, CursorOk, Sound
  <2>3. Processed(d1, e, c, u \cup f.pending) /\ Unhurried(e.frame[c])
    BY <1>1, <1>2, <1>8, <1>15, <2>2, UpdateProcessed
  <2>4. u \cup f.pending \in SUBSET Items /\ u \cup f.pending = f.pending \cup u
    BY <1>1 DEF CrtcFrame
  <2>5. Held("frame" \in d1.frame[c].submitted) + Held("frame" \in u \cup f.pending)
             + Held("frame" \in d1.listeners[c]) + d1.answers[c] = n
    <3>1. Held("frame" \in d1.frame[c].submitted) = 0
        BY <1>2, <1>8, HeldNull
    <3>2. Held("frame" \in u \cup f.pending) = b + a
        BY <1>11, <2>4
    <3>3. d1.listeners = d.listeners /\ d1.answers = d.answers
        BY <1>8 DEF OnlyFrame
    <3>4. 0 + (b + a) + l + k = n
      <4> HIDE DEF a, b, l, k
      <4> QED BY <1>9
    <3> QED BY <3>1, <3>2, <3>3, <3>4
  <2>6. Sound(e, c, n)
    BY <2>2, <2>3, <2>4, <2>5, ProcessedSound
  <2>7. Apart(d, e, c)
    BY <1>1, <1>13, <2>3, ApartTransitive DEF Processed
  <2> QED BY <2>6, <2>7 DEF e
<1>16. CASE ~f.pending_page_flip /\ e \in {d3, do_process_update(d3, c, Null, ok)}
  <2>1. d2 \in DeviceType /\ ~d2.frame[c].pending_page_flip
    BY <1>3, <1>8, <1>16 DEF OnlyFrame
  <2>2. Sound(d3, c, n) /\ Steady(d3, c) /\ Apart(d2, d3, c) /\ ~d3.frame[c].pending_page_flip
    BY <1>12, <2>1, DeadlineSound
  <2> HIDE DEF d3
  <2>3. Apart(d, d3, c)
    BY <1>1, <1>13, <2>2, ApartTransitive
  <2>4. CASE e = d3
    BY <2>2, <2>3, <2>4 DEF e
  <2>5. CASE e = do_process_update(d3, c, Null, ok)
    <3>1. Sound(e, c, n) /\ Apart(d3, e, c)
        BY <2>2, <2>5, ProcessSound
    <3> QED BY <1>1, <2>3, <3>1, ApartTransitive DEF e
  <2> QED BY <1>16, <2>4, <2>5
<1> QED BY <1>5, <1>14, <1>15, <1>16

(* handle_update takes one new frame into account.                         *)
LEMMA HandleSound ==
    ASSUME NEW d, NEW c \in Crtcs, NEW u \in SUBSET Items, NEW ready \in BOOLEAN,
           NEW ok \in BOOLEAN, master \in BOOLEAN, NEW dl \in {"ok", "error", "denied"},
           "frame" \in u, Sound(d, c, 0), Steady(d, c)
    PROVE  /\ Sound(handle_update(d, c, u, ready, ok, dl), c, 1)
           /\ Apart(d, handle_update(d, c, u, ready, ok, dl), c)
<1> DEFINE d1 == ensure_crtc_frame(d, c)
           f2 == [d1.frame[c] EXCEPT !.await_flush = FALSE, !.submitted = u]
           d2 == [d1 EXCEPT !.frame[c] = f2]
           e == handle_update(d, c, u, ready, ok, dl)
<1>1. d \in DeviceType
    BY DEF Sound
<1>2. Sound(d1, c, 0) /\ Steady(d1, c) /\ OnlyFrame(d, d1, c)
    BY EnsureSound
<1>3. \/ e = Fail(d1, c, u)
      \/ d1.frame[c].submitted = Null /\ e \in {d2, update_ready(d2, c, ok, dl)}
  <2> HIDE DEF d1
  <2>1. d2 = [d1 EXCEPT !.frame[c].await_flush = FALSE, !.frame[c].submitted = u]
    BY <1>2 DEF OnlyFrame, DeviceType
  <2> HIDE DEF d2
  <2> QED BY <2>1 DEF handle_update, d1
<1> HIDE DEF d1, e
<1>4. d1 \in DeviceType /\ d1.frame[c] \in CrtcFrame /\ Apart(d, d1, c) /\ Timed(d1.frame[c])
    BY <1>1, <1>2, FrameIsFrame, OnlyFrameApart DEF Sound
<1>5. Held("frame" \in u) = 1
    BY DEF Held
<1>6. CASE e = Fail(d1, c, u)
  <2>1. Stays(d1, e, c, u)
    BY <1>4, <1>6, FailStays
  <2>2. FlipOk(e, c) /\ CursorOk(e, c) /\ Timed(e.frame[c]) /\ e \in DeviceType /\ ~e.busy
    BY <1>2, <2>1 DEF Sound, Stays, Apart, FlipOk, CursorOk, Expected
  <2>3. Count(e, c) = 1
    <3> DEFINE p == Held("frame" \in d1.frame[c].submitted)
               q == Held("frame" \in d1.frame[c].pending)
               l == Held("frame" \in d1.listeners[c])
               a == d1.answers[c]
    <3>1. p + q + l + a = 0 /\ p \in {0, 1} /\ q \in {0, 1} /\ l \in {0, 1} /\ a \in Nat
        BY <1>2, <1>4, HeldType DEF Sound, Count, DeviceType
    <3>2. Count(e, c) = p + q + l + (a + 1)
        BY <1>5, <2>1 DEF Stays, Count
    <3> HIDE DEF p, q, l, a
    <3> QED BY <3>1, <3>2
  <2>4. Apart(d, e, c)
    BY <1>1, <1>4, <2>1, ApartTransitive DEF Stays
  <2> QED BY <2>2, <2>3, <2>4 DEF Sound, e
<1>7. CASE d1.frame[c].submitted = Null /\ e \in {d2, update_ready(d2, c, ok, dl)}
  <2>1. /\ f2 \in CrtcFrame /\ f2.submitted = u /\ f2.pending = d1.frame[c].pending
        /\ f2.pending_page_flip = d1.frame[c].pending_page_flip /\ Timed(f2)
    BY <1>4 DEF CrtcFrame, Timed
  <2> HIDE DEF f2
  <2>2. Reframed(d1, d2, c, f2)
    BY <1>4, <2>1, FrameChanged
  <2> HIDE DEF d2
  <2>3. OnlyFrame(d1, d2, c) /\ d2.frame[c] = f2
    BY <2>2 DEF Reframed
  <2>4. Count(d2, c) = 1
    <3> DEFINE q == Held("frame" \in d1.frame[c].pending)
               l == Held("frame" \in d1.listeners[c])
               a == d1.answers[c]
    <3>1. 0 + q + l + a = 0 /\ q \in {0, 1} /\ l \in {0, 1} /\ a \in Nat
        BY <1>2, <1>4, <1>7, HeldType, HeldNull DEF Sound, Count, DeviceType
    <3>2. Count(d2, c) = 1 + q + l + a
        BY <1>5, <2>1, <2>3 DEF OnlyFrame, Count
    <3> HIDE DEF q, l, a
    <3> QED BY <3>1, <3>2
  <2>5. Sound(d2, c, 1) /\ Steady(d2, c)
    BY <1>2, <2>1, <2>3, <2>4, FrameSoundAt
  <2>6. Apart(d, d2, c)
    BY <1>1, <1>4, <2>3, OnlyFrameApart, ApartTransitive
  <2>7. CASE e = d2
    BY <2>5, <2>6, <2>7 DEF e
  <2>8. CASE e = update_ready(d2, c, ok, dl)
    <3>1. Sound(e, c, 1) /\ Apart(d2, e, c)
        BY <2>5, <2>8, ReadySound
    <3> QED BY <1>1, <2>6, <3>1, ApartTransitive DEF e
  <2> QED BY <1>7, <2>7, <2>8
<1> QED BY <1>3, <1>6, <1>7

(* set_needs_flush does not touch frames.                                  *)
LEMMA NeedsFlushSound ==
    ASSUME NEW d, NEW c \in Crtcs, NEW n, Sound(d, c, n)
    PROVE  Sound(set_needs_flush(d, c), c, n) /\ Apart(d, set_needs_flush(d, c), c)
<1> DEFINE e == set_needs_flush(d, c)
<1>1. d \in DeviceType
    BY DEF Sound
<1>2. OnlyFrame(d, e, c) /\ e.frame = d.frame
    BY <1>1 DEF set_needs_flush, OnlyFrame, DeviceType
<1> HIDE DEF e
<1>3. Apart(d, e, c)
    BY <1>1, <1>2, OnlyFrameApart
<1>4. Sound(e, c, n)
    BY <1>2 DEF OnlyFrame, Sound, Count, FlipOk, CursorOk, Expected
<1> QED BY <1>3, <1>4 DEF e

(* schedule_process, which a cursor update goes through, keeps a CRTC      *)
(* sound.                                                                  *)
LEMMA ScheduleSound ==
    ASSUME NEW d, NEW c \in Crtcs, NEW n \in {0, 1}, NEW ok \in BOOLEAN, master \in BOOLEAN,
           NEW dl \in {"ok", "error", "denied"}, Sound(d, c, n), Steady(d, c)
    PROVE  /\ Sound(schedule_process(d, c, ok, dl), c, n)
           /\ Apart(d, schedule_process(d, c, ok, dl), c)
<1> DEFINE d1 == ensure_crtc_frame(d, c)
           d2 == ensure_deadline_timer_armed(d1, c, dl)
           d3 == do_process_update(d2, c, Null, ok)
           e == schedule_process(d, c, ok, dl)
<1>1. d \in DeviceType
    BY DEF Sound
<1>2. Sound(d1, c, n) /\ Steady(d1, c) /\ OnlyFrame(d, d1, c)
    BY EnsureSound
<1>3. \/ e \in {d1, set_needs_flush(d1, c)}
      \/ /\ ~d1.frame[c].pending_page_flip
         /\ e \in {d2, set_needs_flush(d2, c), set_needs_flush(d3, c)}
    BY DEF schedule_process
<1> HIDE DEF d1, e
<1>4. Apart(d, d1, c)
    BY <1>1, <1>2, OnlyFrameApart
<1>5. CASE e \in {d1, set_needs_flush(d1, c)}
  <2>1. Sound(e, c, n) /\ (e = d1 \/ Apart(d1, e, c))
    BY <1>2, <1>5, NeedsFlushSound
  <2> QED BY <1>1, <1>4, <2>1, ApartTransitive DEF e
<1>6. CASE /\ ~d1.frame[c].pending_page_flip
           /\ e \in {d2, set_needs_flush(d2, c), set_needs_flush(d3, c)}
  <2>1. Sound(d2, c, n) /\ Steady(d2, c) /\ Apart(d1, d2, c) /\ ~d2.frame[c].pending_page_flip
    BY <1>2, <1>6, DeadlineSound
  <2> HIDE DEF d2
  <2>2. Sound(d3, c, n) /\ Apart(d2, d3, c)
    BY <2>1, ProcessSound
  <2> HIDE DEF d3
  <2>3. Apart(d, d2, c)
    BY <1>1, <1>4, <2>1, ApartTransitive
  <2>4. Apart(d, d3, c)
    BY <1>1, <2>2, <2>3, ApartTransitive
  <2>5. CASE e = d2
    BY <2>1, <2>3, <2>5 DEF e
  <2>6. CASE e = set_needs_flush(d2, c)
    <3>1. Sound(e, c, n) /\ Apart(d2, e, c)
        BY <2>1, <2>6, NeedsFlushSound
    <3> QED BY <1>1, <2>3, <3>1, ApartTransitive DEF e
  <2>7. CASE e = set_needs_flush(d3, c)
    <3>1. Sound(e, c, n) /\ Apart(d3, e, c)
        BY <2>2, <2>7, NeedsFlushSound
    <3> QED BY <1>1, <2>4, <3>1, ApartTransitive DEF e
  <2> QED BY <1>6, <2>5, <2>6, <2>7
<1> QED BY <1>3, <1>5, <1>6

(* The deadline dispatch may commit: a timer that is set waits for no      *)
(* flip.                                                                   *)
LEMMA DispatchSound ==
    ASSUME NEW d, NEW c \in Crtcs, NEW n \in {0, 1}, NEW ok \in BOOLEAN, master \in BOOLEAN,
           Sound(d, c, n), d.frame[c].timer_set
    PROVE  /\ Sound(crtc_frame_deadline_dispatch(d, c, ok), c, n)
           /\ Apart(d, crtc_frame_deadline_dispatch(d, c, ok), c)
<1> DEFINE e == crtc_frame_deadline_dispatch(d, c, ok)
           w == d.frame[c].pending
<1>1. d \in DeviceType /\ ~d.frame[c].pending_page_flip
    BY DEF Sound, Timed
<1>2. Steady(d, c)
    BY DEF Sound, Timed, FlipOk, Idle, Steady
<1>3. Free(d, c)
    BY <1>1, <1>2, SteadyFree
<1>4. w \in SUBSET Items
    BY <1>1, FrameIsFrame DEF CrtcFrame
<1>5. Processed(d, e, c, w) /\ Unhurried(e.frame[c])
    BY <1>1, <1>3, DispatchProcessed
<1>6. Held("frame" \in d.frame[c].submitted) + Held("frame" \in w)
             + Held("frame" \in d.listeners[c]) + d.answers[c] = n
    BY DEF Sound, Count
<1> HIDE DEF e, w
<1>7. Sound(e, c, n)
    BY <1>1, <1>3, <1>4, <1>5, <1>6, ProcessedSound DEF Sound
<1> QED BY <1>5, <1>7 DEF Processed, e

-----------------------------------------------------------------------------
(* The steps of the specification.                                         *)

(* From soundness to the invariant.                                        *)
LEMMA SafePrimed ==
    ASSUME NEW c \in Crtcs, master' = master,
           Sound(dev', c, Held(posted'[c] = "posted"))
    PROVE  Safe(c)'
BY DEF Safe, Sound, FlipOk, Expected

(* A step that is about one CRTC keeps the others sound.                   *)
LEMMA OthersSound ==
    ASSUME NEW d \in DeviceType, NEW e, NEW c \in Crtcs, NEW x \in Crtcs \ {c}, NEW n,
           Apart(d, e, c), ~e.busy, Sound(d, x, n)
    PROVE  Sound(e, x, n)
<1>1. e \in DeviceType /\ Timed(e.frame[x])
    BY DEF Apart, Sound
<1>2. Count(e, x) = n
    BY DEF Apart, Sound, Count
<1>3. CursorOk(e, x)
    BY DEF Apart, Sound, CursorOk
<1>4. FlipOk(e, x)
    BY DEF Apart, Sound, FlipOk, Expected
<1> QED BY <1>1, <1>2, <1>3, <1>4 DEF Sound

(* Polling the main loop for events keeps a CRTC sound.                    *)
LEMMA PolledSound ==
    ASSUME NEW d \in DeviceType, NEW c \in Crtcs, NEW n, Sound(d, c, n)
    PROVE  Sound(Polled(d), c, n)
<1> DEFINE e == Polled(d)
<1>1. /\ e \in DeviceType /\ e.urgent = (d.events # {})
      /\ e.frame = d.frame /\ e.listeners = d.listeners /\ e.kernel = d.kernel
      /\ e.events = d.events /\ e.callbacks = d.callbacks /\ e.answers = d.answers
      /\ e.cursor_invalidated = d.cursor_invalidated
      /\ e.cursor_stale = d.cursor_stale /\ e.busy = d.busy
    BY DEF Polled, DeviceType
<1> HIDE DEF e
<1>2. FlipOk(e, c)
    BY <1>1 DEF Sound, FlipOk, Expected
<1>3. Count(e, c) = n /\ CursorOk(e, c) /\ Timed(e.frame[c])
    BY <1>1 DEF Sound, Count, CursorOk
<1> QED BY <1>1, <1>2, <1>3 DEF Sound, e

LEMMA PolledKeeps ==
    ASSUME NEW d \in DeviceType
    PROVE  /\ Polled(d) \in DeviceType /\ Polled(d).answers = d.answers
           /\ Polled(d).busy = d.busy /\ Polled(d).sync_cursor_primary = d.sync_cursor_primary
BY DEF Polled, DeviceType

(* A step that is about one CRTC, taken from d.                            *)
LEMMA StepSafe ==
    ASSUME NEW d \in DeviceType, NEW e, NEW c \in Crtcs, NEW n,
           d.answers = dev.answers, d.sync_cursor_primary = dev.sync_cursor_primary,
           \A x \in Crtcs \ {c} : Sound(d, x, Held(posted[x] = "posted")),
           Sound(e, c, n), Apart(d, e, c), dev' \in {e, Polled(e)},
           n = Held(posted'[c] = "posted"),
           \A x \in Crtcs \ {c} : posted'[x] = posted[x],
           master' = master,
           posted' \in [Crtcs -> {"none", "queued", "posted"}], mode_views' \subseteq Crtcs,
           mode_set' \in BOOLEAN, fresh' \subseteq Crtcs, power' \in BOOLEAN,
           master \in BOOLEAN
    PROVE  KmsInv' /\ Grows
<1>1. e \in DeviceType /\ ~e.busy
    BY DEF Sound
<1>2. /\ dev' \in DeviceType /\ ~dev'.busy /\ dev'.answers = e.answers
      /\ dev'.sync_cursor_primary = dev.sync_cursor_primary
    BY <1>1, PolledKeeps DEF Apart
<1>3. ASSUME NEW x \in Crtcs PROVE Sound(e, x, Held(posted'[x] = "posted"))
  <2>1. CASE x = c
    BY <2>1
  <2>2. CASE x # c
    BY <2>2, <1>1, OthersSound
  <2> QED BY <2>1, <2>2
<1>4. ASSUME NEW x \in Crtcs PROVE Safe(x)'
  <2>1. Sound(dev', x, Held(posted'[x] = "posted"))
    BY <1>1, <1>3, PolledSound
  <2> QED BY <2>1, SafePrimed
<1>5. TypeOK'
    BY <1>2 DEF TypeOK
<1>6. Grows
  <2>1. ASSUME NEW x \in Crtcs PROVE e.answers[x] >= d.answers[x]
    <3>1. CASE x = c
        BY <3>1 DEF Apart
    <3>2. CASE x # c
      <4>1. e.answers[x] = d.answers[x]
        BY <3>2 DEF Apart
      <4>2. d.answers[x] \in Nat
        BY DEF DeviceType
      <4> QED BY <4>1, <4>2
    <3> QED BY <3>1, <3>2
  <2> QED BY <1>2, <2>1 DEF Grows
<1> QED BY <1>2, <1>4, <1>5, <1>6 DEF KmsInv

(* While tasks run no event or callback is unread that the thread does not *)
(* wait for.                                                               *)
LEMMA TasksSteady ==
    ASSUME KmsInv, TasksRun, NEW c \in Crtcs
    PROVE  Steady(dev, c)
BY DEF KmsInv, Safe, Sound, FlipOk, Expected, TasksRun, Steady

(* Small facts of the steps below.                                         *)
LEMMA DeadlineResultsType ==
    DeadlineResults \subseteq {"ok", "error", "denied"}
BY DEF DeadlineResults

LEMMA HeldPosted ==
    ASSUME NEW p, p \in {"none", "queued"} PROVE Held(p = "posted") = 0
BY DEF Held

(* The steps, one lemma each.                                              *)
LEMMA SyncFileReadySafe ==
    ASSUME KmsInv, NEW c \in Crtcs, SyncFileReady(c)
    PROVE  KmsInv' /\ Grows
<1>1. PICK ok \in BOOLEAN, dl \in DeadlineResults : dev' = update_ready(dev, c, ok, dl)
    BY DEF SyncFileReady
<1>2. dl \in {"ok", "error", "denied"}
    BY DeadlineResultsType
<1> DEFINE n == Held(posted[c] = "posted")
           e == update_ready(dev, c, ok, dl)
<1>3. Sound(dev, c, n) /\ n \in {0, 1} /\ dev \in DeviceType /\ master \in BOOLEAN
    BY HeldType DEF KmsInv, Safe, TypeOK
<1>4. Steady(dev, c)
    BY <1>3 DEF Sound, FlipOk, Idle, Steady, SyncFileReady
<1> HIDE DEF n
<1>5. Sound(e, c, n) /\ Apart(dev, e, c)
    BY <1>2, <1>3, <1>4, ReadySound
<1> HIDE DEF e
<1>6. dev' = e
    BY <1>1 DEF e
<1>7. /\ master' = master /\ posted' = posted /\ mode_views' = mode_views
      /\ mode_set' = mode_set /\ fresh' = fresh /\ power' = power
    BY DEF SyncFileReady, mainVars
<1>8. \A x \in Crtcs : Sound(dev, x, Held(posted[x] = "posted"))
    BY DEF KmsInv, Safe
<1>9. n = Held(posted'[c] = "posted")
    BY <1>7 DEF n
<1> QED BY <1>3, <1>5, <1>6, <1>7, <1>8, <1>9, StepSafe DEF KmsInv, TypeOK

LEMMA DeadlineDispatchSafe ==
    ASSUME KmsInv, NEW c \in Crtcs, DeadlineDispatch(c)
    PROVE  KmsInv' /\ Grows
<1>1. PICK ok \in BOOLEAN : dev' = crtc_frame_deadline_dispatch(dev, c, ok)
    BY DEF DeadlineDispatch
<1> DEFINE n == Held(posted[c] = "posted")
           e == crtc_frame_deadline_dispatch(dev, c, ok)
<1>3. Sound(dev, c, n) /\ n \in {0, 1} /\ dev \in DeviceType /\ master \in BOOLEAN
    BY HeldType DEF KmsInv, Safe, TypeOK
<1> HIDE DEF n
<1>5. Sound(e, c, n) /\ Apart(dev, e, c)
    BY <1>3, DispatchSound DEF DeadlineDispatch
<1> HIDE DEF e
<1>6. dev' = e
    BY <1>1 DEF e
<1>7. /\ master' = master /\ posted' = posted /\ mode_views' = mode_views
      /\ mode_set' = mode_set /\ fresh' = fresh /\ power' = power
    BY DEF DeadlineDispatch, mainVars
<1>8. \A x \in Crtcs : Sound(dev, x, Held(posted[x] = "posted"))
    BY DEF KmsInv, Safe
<1>9. n = Held(posted'[c] = "posted")
    BY <1>7 DEF n
<1> QED BY <1>3, <1>5, <1>6, <1>7, <1>8, <1>9, StepSafe DEF KmsInv, TypeOK

LEMMA AwaitFlushSafe ==
    ASSUME KmsInv, NEW c \in Crtcs, AwaitFlush(c)
    PROVE  KmsInv' /\ Grows
<1> DEFINE n == Held(posted[c] = "posted")
           d1 == ensure_crtc_frame(dev, c)
           f == [d1.frame[c] EXCEPT !.await_flush = TRUE]
           d2 == [d1 EXCEPT !.frame[c] = f]
           d3 == disarm_crtc_frame_deadline_timer(d2, c)
           e == IF d2.frame[c].armed THEN d3 ELSE d2
<1>1. dev' = Polled(e)
    BY DEF AwaitFlush
<1>2. Steady(dev, c)
    BY TasksSteady DEF AwaitFlush
<1>3. Sound(dev, c, n) /\ n \in {0, 1} /\ dev \in DeviceType /\ master \in BOOLEAN
    BY HeldType DEF KmsInv, Safe, TypeOK
<1> HIDE DEF n
<1>4. Sound(d1, c, n) /\ Steady(d1, c) /\ OnlyFrame(dev, d1, c)
    BY <1>2, <1>3, EnsureSound
<1>5. Sound(e, c, n) /\ Apart(dev, e, c)
  <2> HIDE DEF d1
  <2>1. d1 \in DeviceType /\ d1.frame[c] \in CrtcFrame /\ Timed(d1.frame[c])
    BY <1>4, FrameIsFrame DEF Sound
  <2>2. /\ f \in CrtcFrame /\ Timed(f) /\ f.pending_page_flip = d1.frame[c].pending_page_flip
        /\ f.submitted = d1.frame[c].submitted /\ f.pending = d1.frame[c].pending
    BY <2>1 DEF CrtcFrame, Timed
  <2> HIDE DEF f
  <2>3. Reframed(d1, d2, c, f)
    BY <2>1, <2>2, FrameChanged
  <2> HIDE DEF d2
  <2>4. d2 \in DeviceType /\ OnlyFrame(d1, d2, c) /\ d2.frame[c] = f
    BY <2>3 DEF Reframed, OnlyFrame
  <2>5. Reframed(d2, d3, c, Disarmed(f))
    BY <2>4, DisarmReframes
  <2> HIDE DEF d3
  <2>6. /\ Timed(Disarmed(f)) /\ Disarmed(f).pending_page_flip = f.pending_page_flip
        /\ Disarmed(f).submitted = f.submitted /\ Disarmed(f).pending = f.pending
    BY <2>2 DEF Disarmed, Timed, CrtcFrame
  <2>7. OnlyFrame(d1, e, c) /\ e.frame[c] \in {f, Disarmed(f)}
    BY <2>4, <2>5, OnlyFrameTransitive DEF Reframed
  <2> HIDE DEF e
  <2>8. Sound(e, c, n)
    BY <1>3, <1>4, <2>2, <2>6, <2>7, FrameSound
  <2>9. Apart(dev, e, c)
    BY <1>3, <1>4, <2>7, OnlyFrameTransitive, OnlyFrameApart
  <2> QED BY <2>8, <2>9
<1> HIDE DEF e
<1>6. dev' = Polled(e)
    BY <1>1 DEF e
<1>7. /\ master' = master /\ posted' = posted /\ mode_views' = mode_views
      /\ mode_set' = mode_set /\ fresh' = fresh /\ power' = power
    BY DEF AwaitFlush, mainVars
<1>8. \A x \in Crtcs : Sound(dev, x, Held(posted[x] = "posted"))
    BY DEF KmsInv, Safe
<1>9. n = Held(posted'[c] = "posted")
    BY <1>7 DEF n
<1> QED BY <1>3, <1>5, <1>6, <1>7, <1>8, <1>9, StepSafe DEF KmsInv, TypeOK

LEMMA CursorChangedSafe ==
    ASSUME KmsInv, NEW c \in Crtcs, CursorChanged(c)
    PROVE  KmsInv' /\ Grows
<1> DEFINE n == Held(posted[c] = "posted")
           d == [dev EXCEPT !.cursor_invalidated = @ \cup {c}, !.cursor_stale = @ \cup {c}]
<1>1. PICK ok \in BOOLEAN, dl \in DeadlineResults : dev' = Polled(schedule_process(d, c, ok, dl))
    BY DEF CursorChanged
<1> DEFINE e == schedule_process(d, c, ok, dl)
<1>2. dl \in {"ok", "error", "denied"}
    BY DeadlineResultsType
<1>3. n \in {0, 1} /\ dev \in DeviceType /\ master \in BOOLEAN
    BY HeldType DEF KmsInv, TypeOK
<1>4. /\ d \in DeviceType
      /\ d.frame = dev.frame /\ d.listeners = dev.listeners /\ d.kernel = dev.kernel
      /\ d.events = dev.events /\ d.urgent = dev.urgent
      /\ d.callbacks = dev.callbacks /\ d.answers = dev.answers
      /\ d.sync_cursor_primary = dev.sync_cursor_primary
      /\ d.cursor_invalidated = dev.cursor_invalidated \cup {c}
      /\ d.cursor_stale = dev.cursor_stale \cup {c} /\ d.busy = dev.busy
    BY <1>3 DEF DeviceType
<1> HIDE DEF d
<1>8. \A x \in Crtcs : Sound(d, x, Held(posted[x] = "posted"))
  <2> SUFFICES ASSUME NEW x \in Crtcs PROVE Sound(d, x, Held(posted[x] = "posted"))
    OBVIOUS
  <2>1. Sound(dev, x, Held(posted[x] = "posted"))
    BY DEF KmsInv, Safe
  <2>2. CursorOk(d, x)
    BY <1>4, <2>1 DEF Sound, CursorOk, CursorChanged, TasksRun
  <2>3. FlipOk(d, x)
    BY <1>4, <2>1 DEF Sound, FlipOk, Expected
  <2>4. Count(d, x) = Held(posted[x] = "posted")
    BY <1>4, <2>1 DEF Sound, Count
  <2> QED BY <1>4, <2>1, <2>2, <2>3, <2>4 DEF Sound
<1>10. Steady(d, c)
  <2>1. Steady(dev, c)
    BY TasksSteady DEF CursorChanged
  <2> QED BY <1>4, <2>1 DEF Steady, Expected
<1>11. Sound(d, c, n)
    BY <1>8
<1> HIDE DEF n
<1>5. Sound(e, c, n) /\ Apart(d, e, c)
    BY <1>2, <1>3, <1>10, <1>11, ScheduleSound
<1> HIDE DEF e
<1>6. dev' = Polled(e)
    BY <1>1 DEF e
<1>7. /\ master' = master /\ posted' = posted /\ mode_views' = mode_views
      /\ mode_set' = mode_set /\ fresh' = fresh /\ power' = power
    BY DEF CursorChanged, mainVars
<1>9. n = Held(posted'[c] = "posted")
    BY <1>7 DEF n
<1> QED BY <1>3, <1>4, <1>5, <1>6, <1>7, <1>8, <1>9, StepSafe DEF KmsInv, TypeOK

LEMMA FlippedCallbackSafe ==
    ASSUME KmsInv, NEW c \in Crtcs, FlippedCallback(c)
    PROVE  KmsInv' /\ Grows
<1> DEFINE n == Held(posted[c] = "posted")
           d0 == [dev EXCEPT !.callbacks = @ \ {<<"flipped", c>>}]
           f == [d0.frame[c] EXCEPT !.pending_page_flip = FALSE]
           d == [d0 EXCEPT !.frame[c] = f]
<1>1. PICK ok \in BOOLEAN, dl \in DeadlineResults :
         dev' = notify_crtc_frame_ready(d0, c, ok, dl)
    BY DEF FlippedCallback
<1> DEFINE e == IF d.frame[c].pending = Null \/ d.frame[c].await_flush THEN d
                ELSE schedule_process(d, c, ok, dl)
<1>2. dl \in {"ok", "error", "denied"}
    BY DeadlineResultsType
<1>3. n \in {0, 1} /\ dev \in DeviceType /\ master \in BOOLEAN
    BY HeldType DEF KmsInv, TypeOK
<1>6. dev' = e
    BY <1>1 DEF notify_crtc_frame_ready
<1>12. /\ d0 \in DeviceType
      /\ d0.frame = dev.frame /\ d0.listeners = dev.listeners /\ d0.kernel = dev.kernel
      /\ d0.events = dev.events /\ d0.urgent = dev.urgent
      /\ d0.callbacks = dev.callbacks \ {<<"flipped", c>>} /\ d0.answers = dev.answers
      /\ d0.sync_cursor_primary = dev.sync_cursor_primary
      /\ d0.cursor_invalidated = dev.cursor_invalidated
      /\ d0.cursor_stale = dev.cursor_stale /\ d0.busy = dev.busy
    BY <1>3 DEF DeviceType
<1> HIDE DEF d0
<1>13. /\ f \in CrtcFrame /\ ~f.pending_page_flip /\ f.pending = dev.frame[c].pending
       /\ f.submitted = dev.frame[c].submitted /\ f.source = dev.frame[c].source
       /\ f.timer_set = dev.frame[c].timer_set
  <2>1. d0.frame[c] \in CrtcFrame /\ d0.frame[c] = dev.frame[c]
    BY <1>12, FrameIsFrame
  <2> QED BY <2>1 DEF CrtcFrame
<1> HIDE DEF f
<1>14. Reframed(d0, d, c, f)
    BY <1>12, <1>13, FrameChanged
<1> HIDE DEF d
<1>4. /\ d \in DeviceType /\ d.frame[c] = f
      /\ d.listeners = dev.listeners /\ d.kernel = dev.kernel
      /\ d.events = dev.events /\ d.urgent = dev.urgent
      /\ d.callbacks = dev.callbacks \ {<<"flipped", c>>} /\ d.answers = dev.answers
      /\ d.sync_cursor_primary = dev.sync_cursor_primary
      /\ d.cursor_invalidated = dev.cursor_invalidated
      /\ d.cursor_stale = dev.cursor_stale /\ d.busy = dev.busy
      /\ \A x \in Crtcs \ {c} : d.frame[x] = dev.frame[x]
    BY <1>12, <1>14 DEF Reframed, OnlyFrame
<1>15. /\ \A x \in Crtcs \ {c} : <<"flipped", x>> \in d.callbacks <=> <<"flipped", x>> \in dev.callbacks
       /\ \A x \in Crtcs : <<"cursor_passed", x>> \in d.callbacks <=> <<"cursor_passed", x>> \in dev.callbacks
       /\ <<"flipped", c>> \notin d.callbacks
    BY <1>4
<1>8. \A x \in Crtcs \ {c} : Sound(d, x, Held(posted[x] = "posted"))
  <2> SUFFICES ASSUME NEW x \in Crtcs \ {c} PROVE Sound(d, x, Held(posted[x] = "posted"))
    OBVIOUS
  <2>1. Sound(dev, x, Held(posted[x] = "posted"))
    BY DEF KmsInv, Safe
  <2>2. CursorOk(d, x)
    BY <1>4, <1>15, <2>1 DEF Sound, CursorOk
  <2>3. FlipOk(d, x)
    BY <1>4, <1>15, <2>1 DEF Sound, FlipOk, Expected
  <2>4. Count(d, x) = Held(posted[x] = "posted")
    BY <1>4, <2>1 DEF Sound, Count
  <2> QED BY <1>4, <2>1, <2>2, <2>3, <2>4 DEF Sound
<1>10. Sound(dev, c, n)
    BY DEF KmsInv, Safe
<1>11. Sound(d, c, n) /\ Steady(d, c)
  <2>1. master => ~Expected(d, c) /\ d.kernel[c] = "idle"
    <3>1. master => c \notin dev.events /\ dev.kernel[c] # "flipping"
        BY <1>10 DEF Sound, FlipOk, Expected, FlippedCallback
    <3> QED BY <1>3, <1>4, <1>15, <3>1 DEF Expected, DeviceType
  <2>2. FlipOk(d, c) /\ Steady(d, c)
    BY <1>4, <1>13, <2>1 DEF FlipOk, Steady, Expected
  <2>3. CursorOk(d, c)
    BY <1>4, <1>10, <1>15 DEF Sound, CursorOk
  <2>4. Count(d, c) = n
    BY <1>4, <1>10, <1>13 DEF Sound, Count
  <2>5. Timed(d.frame[c])
    BY <1>4, <1>10, <1>13 DEF Sound, Timed
  <2> QED BY <1>4, <1>10, <2>2, <2>3, <2>4, <2>5 DEF Sound
<1> HIDE DEF n
<1>5. Sound(e, c, n) /\ Apart(d, e, c)
  <2>1. Apart(d, d, c)
    BY <1>4, OnlyFrameReflexive, OnlyFrameApart
  <2>2. Sound(schedule_process(d, c, ok, dl), c, n) /\ Apart(d, schedule_process(d, c, ok, dl), c)
    BY <1>2, <1>3, <1>11, ScheduleSound
  <2> QED BY <1>11, <2>1, <2>2
<1> HIDE DEF e
<1>7. /\ master' = master /\ posted' = posted /\ mode_views' = mode_views
      /\ mode_set' = mode_set /\ fresh' = fresh /\ power' = power
    BY DEF FlippedCallback, mainVars
<1>9. n = Held(posted'[c] = "posted")
    BY <1>7 DEF n
<1> QED BY <1>3, <1>4, <1>5, <1>6, <1>7, <1>8, <1>9, StepSafe DEF KmsInv, TypeOK

LEMMA FinishFrameSafe ==
    ASSUME KmsInv, NEW c \in Crtcs, FinishFrame(c)
    PROVE  KmsInv' /\ Grows
<1> DEFINE d == [dev EXCEPT !.needs_flush = @ \ {c}]
<1>1. PICK u \in {{"frame"}, {"frame", "plane"}} :
        \E ok \in BOOLEAN, dl \in DeadlineResults :
            dev' = Polled(handle_update(d, c, u, TRUE, ok, dl))
    BY DEF FinishFrame
<1>2. PICK ok \in BOOLEAN, dl \in DeadlineResults :
         dev' = Polled(handle_update(d, c, u, TRUE, ok, dl))
    BY <1>1
<1> DEFINE e == handle_update(d, c, u, TRUE, ok, dl)
<1>3. dev \in DeviceType /\ master \in BOOLEAN /\ dl \in {"ok", "error", "denied"}
    BY DeadlineResultsType DEF KmsInv, TypeOK
<1>4. u \in SUBSET Items /\ "frame" \in u
    BY DEF Items
<1>5. OnlyFrame(dev, d, c) /\ d.frame = dev.frame
    BY <1>3 DEF OnlyFrame, DeviceType
<1> HIDE DEF d
<1>6. \A x \in Crtcs : Sound(d, x, Held(posted[x] = "posted"))
    BY <1>5 DEF KmsInv, Safe, Sound, OnlyFrame, Count, FlipOk, CursorOk, Expected
<1>7. Sound(d, c, 0)
    BY <1>6, HeldPosted DEF FinishFrame
<1>8. Steady(d, c)
  <2>1. Steady(dev, c)
    BY TasksSteady DEF FinishFrame
  <2> QED BY <1>5, <2>1 DEF OnlyFrame, Steady, Expected
<1>9. Sound(e, c, 1) /\ Apart(d, e, c)
    BY <1>3, <1>4, <1>7, <1>8, HandleSound
<1> HIDE DEF e
<1>10. dev' = Polled(e)
    BY <1>2 DEF e
<1>11. /\ master' = master /\ posted' = [posted EXCEPT ![c] = "posted"] /\ mode_views' = mode_views
       /\ mode_set' = mode_set /\ fresh' = fresh /\ power' = power
    BY DEF FinishFrame
<1>12. /\ posted' \in [Crtcs -> {"none", "queued", "posted"}]
       /\ \A x \in Crtcs \ {c} : posted'[x] = posted[x]
       /\ Held(posted'[c] = "posted") = 1
    BY <1>11 DEF KmsInv, TypeOK, Held
<1>13. /\ d \in DeviceType /\ d.answers = dev.answers
       /\ d.sync_cursor_primary = dev.sync_cursor_primary
    BY <1>5 DEF OnlyFrame
<1> QED BY <1>3, <1>6, <1>9, <1>10, <1>11, <1>12, <1>13, StepSafe DEF KmsInv, TypeOK

(* disarm_all_frame_sources lets go of every update and tells its frame.   *)
LEMMA DiscardAll ==
    ASSUME NEW d \in DeviceType
    PROVE  Discarded(d, disarm_all_frame_sources(d))
<1> DEFINE F == [x \in Crtcs |-> Reset(d.frame[x])]
           A == [x \in Crtcs |-> d.answers[x] + Held("frame" \in d.frame[x].pending)
                                              + Held("frame" \in d.frame[x].submitted)]
           e == disarm_all_frame_sources(d)
<1>1. e = [d EXCEPT !.frame = F, !.answers = A]
    BY DEF disarm_all_frame_sources, Reset, Held
<1>2. F \in [Crtcs -> CrtcFrame]
  <2> SUFFICES ASSUME NEW x \in Crtcs PROVE Reset(d.frame[x]) \in CrtcFrame
    OBVIOUS
  <2>1. d.frame[x] \in CrtcFrame
    BY FrameIsFrame
  <2>2. (d.frame[x].armed /\ ~d.frame[x].source) \in BOOLEAN
    OBVIOUS
  <2> QED BY <2>1, <2>2 DEF Reset, CrtcFrame, Null
<1>3. A \in [Crtcs -> Nat]
  <2> SUFFICES ASSUME NEW x \in Crtcs
               PROVE d.answers[x] + Held("frame" \in d.frame[x].pending)
                                  + Held("frame" \in d.frame[x].submitted) \in Nat
    OBVIOUS
  <2>1. d.answers[x] \in Nat
    BY DEF DeviceType
  <2> QED BY <2>1, HeldType
<1> HIDE DEF e
<1>4. e \in DeviceType /\ e.frame = F /\ e.answers = A
  <2> HIDE DEF F, A
  <2> QED BY <1>1, <1>2, <1>3 DEF DeviceType
<1>5. /\ e.sync_cursor_primary = d.sync_cursor_primary /\ e.timer_state = d.timer_state
      /\ e.active = d.active
      /\ e.listeners = d.listeners /\ e.kernel = d.kernel
      /\ e.events = d.events /\ e.urgent = d.urgent
      /\ e.callbacks = d.callbacks
      /\ e.cursor_invalidated = d.cursor_invalidated
      /\ e.cursor_stale = d.cursor_stale /\ e.busy = d.busy
  <2> HIDE DEF F, A
  <2> QED BY <1>1 DEF DeviceType
<1> QED BY <1>4, <1>5 DEF Discarded, e

LEMMA ResetFrame ==
    ASSUME NEW f \in CrtcFrame
    PROVE  /\ ~Reset(f).pending_page_flip /\ ~Reset(f).timer_set
           /\ Reset(f).pending = Null /\ Reset(f).submitted = Null
           /\ Reset(f).source = f.source /\ Reset(f).exists = f.exists
           /\ ~Reset(f).await_flush /\ (Reset(f).armed => f.armed /\ ~f.source)
BY DEF Reset, CrtcFrame

(* A CRTC whose CrtcFrame was reset.                                       *)
LEMMA ResetSound ==
    ASSUME NEW d \in DeviceType, NEW e \in DeviceType, NEW c \in Crtcs, NEW n,
           e.frame[c] = Reset(d.frame[c]), ~e.busy, e.urgent = (e.events # {}),
           <<"flipped", c>> \notin e.callbacks, master => e.kernel[c] = "idle",
           CursorOk(e, c), Held("frame" \in e.listeners[c]) + e.answers[c] = n
    PROVE  Sound(e, c, n)
<1>1. /\ ~e.frame[c].pending_page_flip /\ ~e.frame[c].timer_set
      /\ e.frame[c].pending = Null /\ e.frame[c].submitted = Null
    BY FrameIsFrame, ResetFrame
<1>2. Timed(e.frame[c])
    BY <1>1 DEF Timed
<1>3. FlipOk(e, c)
    BY <1>1 DEF FlipOk, Idle, Expected
<1>4. Count(e, c) = n
  <2>1. Count(e, c) = 0 + 0 + Held("frame" \in e.listeners[c]) + e.answers[c]
    BY <1>1, HeldNull DEF Count
  <2>2. e.answers[c] \in Nat
    BY DEF DeviceType
  <2> QED BY <2>1, <2>2, HeldType
<1> QED BY <1>2, <1>3, <1>4 DEF Sound

(* A mode set first lets go of all updates, then passes or fails as a      *)
(* whole.                                                                  *)
LEMMA ModeSetDoes ==
    ASSUME NEW d \in DeviceType, NEW S \in SUBSET Crtcs, NEW ok \in BOOLEAN
    PROVE  /\ AfterReset(d, process_mode_set_update(d, S, ok))
           /\ \/ ok /\ master /\ ModeSetPasses(d, process_mode_set_update(d, S, ok), S)
              \/ ~(ok /\ master) /\ ModeSetFails(d, process_mode_set_update(d, S, ok), S)
<1> DEFINE D == disarm_all_frame_sources(d)
           d1 == [D EXCEPT !.active = @ \cup S]
           e == process_mode_set_update(d, S, ok)
           cursors == S \cap d.cursor_invalidated
           K == [x \in Crtcs |-> "idle"]
           E == d1.events \cup S \cup {x \in Crtcs : d1.kernel[x] # "idle"}
           L == [x \in Crtcs |-> IF x \in S THEN d1.listeners[x] \cup {"frame"} ELSE d1.listeners[x]]
           C == d1.callbacks \cup ({"cursor_passed"} \X cursors)
           T == d1.cursor_stale \ cursors
           A == [x \in Crtcs |-> IF x \in S THEN d1.answers[x] + 1 ELSE d1.answers[x]]
<1>1. Discarded(d, D)
    BY DiscardAll
<1>2. e = IF ok /\ master
          THEN [BlockingCommit(d1, S) EXCEPT
                   !.listeners = [x \in Crtcs |-> IF x \in S THEN @[x] \cup {"frame"} ELSE @[x]],
                   !.callbacks = @ \cup ({"cursor_passed"} \X cursors),
                   !.cursor_stale = @ \ cursors]
          ELSE [d1 EXCEPT !.answers = A]
    BY DEF process_mode_set_update
<1> HIDE DEF D, e
<1>3. /\ d1 \in DeviceType
      /\ d1.sync_cursor_primary = D.sync_cursor_primary /\ d1.timer_state = D.timer_state
      /\ d1.frame = D.frame /\ d1.answers = D.answers
      /\ d1.listeners = D.listeners /\ d1.kernel = D.kernel
      /\ d1.events = D.events /\ d1.callbacks = D.callbacks
      /\ d1.cursor_invalidated = D.cursor_invalidated
      /\ d1.cursor_stale = D.cursor_stale /\ d1.busy = D.busy
  <2>1. D \in DeviceType
    BY <1>1 DEF Discarded
  <2> QED BY <2>1 DEF DeviceType
<1> HIDE DEF d1
<1>4. CASE ok /\ master
  <2>1. BlockingCommit(d1, S) = [d1 EXCEPT !.kernel = K, !.events = E]
    BY <1>3 DEF BlockingCommit, DeviceType
  <2>2. /\ K \in [Crtcs -> {"idle", "flipping"}] /\ E \in SUBSET Crtcs
        /\ L \in [Crtcs -> SUBSET {"impl", "frame", "orphan"}] /\ T \in SUBSET Crtcs
    BY <1>3 DEF DeviceType
  <2>3. C \in SUBSET ({"flipped", "cursor_passed"} \X Crtcs)
    BY <1>3 DEF DeviceType
  <2>4. e = [d1 EXCEPT !.kernel = K, !.events = E, !.listeners = L, !.callbacks = C,
                       !.cursor_stale = T]
    <3>1. e = [[d1 EXCEPT !.kernel = K, !.events = E] EXCEPT
                   !.listeners = [x \in Crtcs |-> IF x \in S THEN @[x] \cup {"frame"} ELSE @[x]],
                   !.callbacks = @ \cup ({"cursor_passed"} \X cursors),
                   !.cursor_stale = @ \ cursors]
        BY <1>2, <1>4, <2>1
    <3> HIDE DEF K, E
    <3> QED BY <3>1, <1>3 DEF DeviceType
  <2> HIDE DEF K, E, L, C, T
  <2>5. /\ e \in DeviceType
        /\ e.sync_cursor_primary = d1.sync_cursor_primary /\ e.timer_state = d1.timer_state
        /\ e.frame = d1.frame /\ e.answers = d1.answers
        /\ e.listeners = L /\ e.kernel = K
        /\ e.events = E /\ e.callbacks = C
        /\ e.cursor_invalidated = d1.cursor_invalidated
        /\ e.cursor_stale = T /\ e.busy = d1.busy
    BY <1>3, <2>2, <2>3, <2>4 DEF DeviceType
  <2>6. AfterReset(d, e)
    BY <1>1, <1>3, <2>5 DEF AfterReset, Discarded
  <2>7. /\ E = d.events \cup S \cup {x \in Crtcs : d.kernel[x] # "idle"}
        /\ C = d.callbacks \cup ({"cursor_passed"} \X cursors)
        /\ T = d.cursor_stale \ cursors
    BY <1>1, <1>3 DEF Discarded, E, C, T
  <2>8. \A x \in Crtcs : /\ K[x] = "idle"
          /\ L[x] = IF x \in S THEN d.listeners[x] \cup {"frame"} ELSE d.listeners[x]
    BY <1>1, <1>3 DEF Discarded, K, L
  <2>9. \A x \in Crtcs :
          e.answers[x] = d.answers[x] + Held("frame" \in d.frame[x].pending)
                                         + Held("frame" \in d.frame[x].submitted)
    BY <1>1, <1>3, <2>5 DEF Discarded
  <2>10. ModeSetPasses(d, e, S)
    BY <2>5, <2>7, <2>8, <2>9 DEF ModeSetPasses
  <2> QED BY <1>4, <2>6, <2>10 DEF e
<1>5. CASE ~(ok /\ master)
  <2>1. A \in [Crtcs -> Nat]
    <3> SUFFICES ASSUME NEW x \in Crtcs
                 PROVE (IF x \in S THEN d1.answers[x] + 1 ELSE d1.answers[x]) \in Nat
        OBVIOUS
    <3>1. d1.answers[x] \in Nat
        BY <1>3 DEF DeviceType
    <3> QED BY <3>1
  <2>2. e = [d1 EXCEPT !.answers = A]
    BY <1>2, <1>5
  <2>3. \A x \in Crtcs : A[x] = d1.answers[x] + Held(x \in S)
    <3> SUFFICES ASSUME NEW x \in Crtcs PROVE A[x] = d1.answers[x] + Held(x \in S)
        OBVIOUS
    <3>1. d1.answers[x] \in Nat
        BY <1>3 DEF DeviceType
    <3> QED BY <3>1 DEF Held
  <2> HIDE DEF A
  <2>4. /\ e \in DeviceType
        /\ e.sync_cursor_primary = d1.sync_cursor_primary /\ e.timer_state = d1.timer_state
        /\ e.frame = d1.frame /\ e.answers = A
        /\ e.listeners = d1.listeners /\ e.kernel = d1.kernel
        /\ e.events = d1.events /\ e.callbacks = d1.callbacks
        /\ e.cursor_invalidated = d1.cursor_invalidated
        /\ e.cursor_stale = d1.cursor_stale /\ e.busy = d1.busy
    BY <1>3, <2>1, <2>2 DEF DeviceType
  <2>5. AfterReset(d, e)
    BY <1>1, <1>3, <2>4 DEF AfterReset, Discarded
  <2>6. \A x \in Crtcs :
          e.answers[x] = d.answers[x] + Held("frame" \in d.frame[x].pending)
                                         + Held("frame" \in d.frame[x].submitted)
                                         + Held(x \in S)
    BY <1>1, <1>3, <2>3, <2>4 DEF Discarded
  <2>7. ModeSetFails(d, e, S)
    BY <1>1, <1>3, <2>4, <2>6 DEF ModeSetFails, Discarded
  <2> QED BY <1>5, <2>5, <2>7 DEF e
<1> QED BY <1>4, <1>5

(* A step that ends in a mode set of the CRTCs S.                          *)
LEMMA ResetStepSafe ==
    ASSUME NEW S \in SUBSET Crtcs, NEW g, KmsInv, TasksRun, AfterReset(dev, g),
           \/ master /\ ModeSetPasses(dev, g, S)
           \/ MayBeRefused(dev) /\ ModeSetFails(dev, g, S),
           dev' = Polled(g),
           \A x \in S : posted[x] # "posted" /\ posted'[x] = "posted",
           \A x \in Crtcs \ S : posted'[x] = posted[x],
           master' = master,
           posted' \in [Crtcs -> {"none", "queued", "posted"}], mode_views' \subseteq Crtcs,
           mode_set' \in BOOLEAN, fresh' \subseteq Crtcs, power' \in BOOLEAN
    PROVE  KmsInv' /\ Grows
<1> DEFINE e == Polled(g)
<1>1. dev \in DeviceType /\ master \in BOOLEAN /\ ~dev.busy
    BY DEF KmsInv, TypeOK
<1>2. /\ AfterReset(dev, g)
      /\ \/ master /\ ModeSetPasses(dev, g, S)
         \/ MayBeRefused(dev) /\ ModeSetFails(dev, g, S)
    OBVIOUS
<1>3. /\ e \in DeviceType /\ e.urgent = (g.events # {})
      /\ e.frame = g.frame /\ e.listeners = g.listeners /\ e.kernel = g.kernel
      /\ e.events = g.events /\ e.callbacks = g.callbacks /\ e.answers = g.answers
      /\ e.cursor_invalidated = g.cursor_invalidated
      /\ e.cursor_stale = g.cursor_stale /\ e.busy = g.busy
  <2>1. g \in DeviceType
    BY <1>2 DEF AfterReset
  <2> QED BY <2>1 DEF Polled, DeviceType
<1> HIDE DEF e
<1>4. dev' = e
    BY DEF e
<1>5. ASSUME NEW x \in Crtcs
      PROVE  Sound(e, x, Held(posted'[x] = "posted")) /\ e.answers[x] >= dev.answers[x]
  <2> DEFINE q == Held("frame" \in dev.frame[x].submitted)
             p == Held("frame" \in dev.frame[x].pending)
             l == Held("frame" \in dev.listeners[x])
             a == dev.answers[x]
             n == Held(posted[x] = "posted")
             k == Held(x \in S)
             m == Held(posted'[x] = "posted")
             L == Held("frame" \in e.listeners[x])
  <2>1. Sound(dev, x, n)
    BY DEF KmsInv, Safe
  <2>2. q + p + l + a = n /\ m = n + k
    BY <2>1 DEF Sound, Count, Held
  <2>3. /\ q \in {0, 1} /\ p \in {0, 1} /\ l \in {0, 1} /\ n \in {0, 1} /\ k \in {0, 1}
        /\ m \in {0, 1} /\ a \in Nat
    BY <1>1, HeldType DEF DeviceType
  <2>4. \/ L = l /\ e.answers[x] = a + p + q + k
        \/ L = l + k /\ e.answers[x] = a + p + q
    <3>1. CASE ModeSetPasses(dev, g, S)
      <4>1. e.answers[x] = a + p + q
        BY <1>3, <3>1, ZenonT(60) DEF ModeSetPasses
      <4>2. ASSUME x \notin S PROVE L = l + k
        <5>0. g.listeners[x] = IF x \in S THEN dev.listeners[x] \cup {"frame"}
                               ELSE dev.listeners[x]
            BY <3>1 DEF ModeSetPasses
        <5>1. e.listeners[x] = dev.listeners[x]
            BY <1>3, <5>0, <4>2
        <5>2. L = l /\ k = 0
            BY <4>2, <5>1 DEF Held
        <5> HIDE DEF l, k, L
        <5> QED BY <2>3, <5>2
      <4>3. x \in S => n = 0 /\ k = 1
        BY DEF Held
      <4>4. x \in S => L = 1
        <5>1. x \in S => e.listeners[x] = dev.listeners[x] \cup {"frame"}
            BY <1>3, <3>1 DEF ModeSetPasses
        <5>2. x \in S => "frame" \in e.listeners[x]
            BY <5>1
        <5> QED BY <5>2 DEF Held
      <4>5. ASSUME x \in S PROVE L = l + k
        <5>1. n = 0 /\ k = 1 /\ L = 1
            BY <4>3, <4>4, <4>5
        <5> HIDE DEF q, p, l, a, n, k, m, L
        <5>2. l = 0
            BY <2>2, <2>3, <5>1
        <5> QED BY <5>1, <5>2
      <4> HIDE DEF q, p, l, a, n, k, m, L
      <4> QED BY <4>1, <4>2, <4>5
    <3>2. CASE ModeSetFails(dev, g, S)
        BY <1>3, <3>2 DEF ModeSetFails
    <3> QED BY <1>2, <3>1, <3>2
  <2>5. L + e.answers[x] = m /\ e.answers[x] >= a
    <3> DEFINE b == e.answers[x]
    <3>1. (L = l /\ b = a + p + q + k) \/ (L = l + k /\ b = a + p + q)
        BY <2>4
    <3> HIDE DEF q, p, l, a, n, k, m, L, b
    <3>2. L + b = m /\ b >= a
        BY <2>2, <2>3, <3>1
    <3> QED BY <3>2 DEF b
  <2>6. <<"flipped", x>> \notin e.callbacks
    BY <1>2, <1>3 DEF ModeSetPasses, ModeSetFails, TasksRun
  <2>7. master => e.kernel[x] = "idle"
    <3>1. CASE ModeSetPasses(dev, g, S)
        BY <1>3, <3>1 DEF ModeSetPasses
    <3>2. CASE MayBeRefused(dev) /\ ModeSetFails(dev, g, S)
      <4>1. master => dev.kernel[x] = "idle"
        BY <3>2 DEF MayBeRefused
      <4>2. e.kernel = dev.kernel
        BY <1>3, <3>2 DEF ModeSetFails
      <4> QED BY <4>1, <4>2
    <3> QED BY <1>2, <3>1, <3>2
  <2>8. CursorOk(e, x)
    BY <1>2, <1>3, <2>1 DEF ModeSetPasses, ModeSetFails, CursorOk, TasksRun, Sound, AfterReset
  <2>9. e.frame[x] = Reset(dev.frame[x]) /\ ~e.busy /\ e.urgent = (e.events # {})
    BY <1>1, <1>2, <1>3 DEF AfterReset
  <2>10. Sound(e, x, m)
    <3> HIDE DEF m
    <3> QED BY <1>1, <1>3, <2>5, <2>6, <2>7, <2>8, <2>9, ResetSound
  <2> QED BY <2>5, <2>10
<1>6. ASSUME NEW x \in Crtcs PROVE Safe(x)'
    BY <1>4, <1>5, SafePrimed
<1>7. TypeOK' /\ ~dev'.busy
    BY <1>1, <1>2, <1>3, <1>4 DEF TypeOK, AfterReset
<1>8. Grows
  <2>1. e.sync_cursor_primary = dev.sync_cursor_primary
    BY <1>2, PolledKeeps DEF AfterReset, e
  <2> QED BY <1>4, <1>5, <2>1 DEF Grows
<1> QED BY <1>6, <1>7, <1>8 DEF KmsInv

(* The mode set of meta_kms_impl_device_process_update.                    *)
LEMMA ModeSetSafe ==
    ASSUME NEW S \in SUBSET Crtcs, NEW ok \in BOOLEAN, KmsInv, TasksRun,
           ok \/ MayBeRefused(dev), dev' = Polled(process_mode_set_update(dev, S, ok)),
           \A x \in S : posted[x] # "posted" /\ posted'[x] = "posted",
           \A x \in Crtcs \ S : posted'[x] = posted[x],
           master' = master,
           posted' \in [Crtcs -> {"none", "queued", "posted"}], mode_views' \subseteq Crtcs,
           mode_set' \in BOOLEAN, fresh' \subseteq Crtcs, power' \in BOOLEAN
    PROVE  KmsInv' /\ Grows
<1> DEFINE g == process_mode_set_update(dev, S, ok)
<1>1. dev \in DeviceType
    BY DEF KmsInv, TypeOK
<1>2. /\ AfterReset(dev, g)
      /\ \/ ok /\ master /\ ModeSetPasses(dev, g, S)
         \/ ~(ok /\ master) /\ ModeSetFails(dev, g, S)
    BY <1>1, ModeSetDoes
<1>3. \/ master /\ ModeSetPasses(dev, g, S)
      \/ MayBeRefused(dev) /\ ModeSetFails(dev, g, S)
    BY <1>2 DEF MayBeRefused
<1> QED BY <1>2, <1>3, ResetStepSafe

(* Posting a frame: queued for the mode set, with it, or by itself.        *)
LEMMA PostFrameSafe ==
    ASSUME KmsInv, NEW c \in Crtcs, NEW change \in SUBSET {"vrr"}, PostFrame(c, change)
    PROVE  KmsInv' /\ Grows
<1>1. /\ dev \in DeviceType /\ master \in BOOLEAN /\ ~dev.busy /\ power \in BOOLEAN
      /\ mode_set \in BOOLEAN /\ posted \in [Crtcs -> {"none", "queued", "posted"}]
      /\ mode_views \subseteq Crtcs /\ fresh \subseteq Crtcs
    BY DEF KmsInv, TypeOK
<1>2. /\ master' = master /\ power' = power /\ posted[c] = "none"
      /\ mode_views' \subseteq Crtcs /\ fresh' \subseteq Crtcs /\ TasksRun
    BY <1>1 DEF PostFrame
<1>3. CASE mode_views' # {}
  <2>1. dev' = dev /\ mode_set' = mode_set /\ posted' = [posted EXCEPT ![c] = "queued"]
    BY <1>3 DEF PostFrame
  <2>2. \A x \in Crtcs : Held(posted'[x] = "posted") = Held(posted[x] = "posted")
    BY <1>1, <1>2, <2>1 DEF Held
  <2>3. \A x \in Crtcs : Safe(x)'
    BY <1>2, <2>1, <2>2, SafePrimed DEF KmsInv, Safe
  <2>4. TypeOK'
    BY <1>1, <1>2, <2>1 DEF TypeOK
  <2>5. Grows
    BY <1>1, <2>1 DEF Grows, DeviceType
  <2> QED BY <1>1, <2>1, <2>3, <2>4, <2>5 DEF KmsInv
<1>4. CASE mode_views' = {} /\ mode_set
  <2> DEFINE S == {e \in Crtcs : e = c \/ posted[e] = "queued"}
  <2>1. PICK ok \in BOOLEAN :
          (ok \/ MayBeRefused(dev)) /\ dev' = Polled(process_mode_set_update(dev, S, ok))
    BY <1>4 DEF PostFrame
  <2>2. /\ posted' = [e \in Crtcs |-> IF e = c \/ posted[e] = "queued" THEN "posted" ELSE posted[e]]
        /\ mode_set' = FALSE
    BY <1>4 DEF PostFrame
  <2>3. /\ posted' \in [Crtcs -> {"none", "queued", "posted"}]
        /\ \A x \in S : posted[x] # "posted" /\ posted'[x] = "posted"
        /\ \A x \in Crtcs \ S : posted'[x] = posted[x]
    BY <1>1, <1>2, <2>2
  <2>4. S \in SUBSET Crtcs
    OBVIOUS
  <2> HIDE DEF S
  <2> QED BY <1>1, <1>2, <2>1, <2>2, <2>3, <2>4, ModeSetSafe
<1>5. CASE mode_views' = {} /\ ~mode_set
  <2> DEFINE u == {"frame", "plane"} \cup change
  <2>1. PICK ready \in BOOLEAN, ok \in BOOLEAN, dl \in DeadlineResults :
          dev' = Polled(handle_update(dev, c, u, ready, ok, dl))
    BY <1>5 DEF PostFrame
  <2>2. posted' = [posted EXCEPT ![c] = "posted"] /\ mode_set' = mode_set
    BY <1>5 DEF PostFrame
  <2>3. u \in SUBSET Items /\ "frame" \in u /\ dl \in {"ok", "error", "denied"}
    BY DeadlineResultsType DEF Items
  <2> HIDE DEF u
  <2> DEFINE e == handle_update(dev, c, u, ready, ok, dl)
  <2>4. \A x \in Crtcs : Sound(dev, x, Held(posted[x] = "posted"))
    BY DEF KmsInv, Safe
  <2>5. Sound(dev, c, 0)
    BY <1>2, <2>4, HeldPosted
  <2>6. Steady(dev, c)
    BY <1>2, TasksSteady
  <2>7. Sound(e, c, 1) /\ Apart(dev, e, c)
    BY <1>1, <2>3, <2>5, <2>6, HandleSound
  <2> HIDE DEF e
  <2>8. dev' = Polled(e)
    BY <2>1 DEF e
  <2>9. /\ posted' \in [Crtcs -> {"none", "queued", "posted"}]
        /\ \A x \in Crtcs \ {c} : posted'[x] = posted[x]
        /\ Held(posted'[c] = "posted") = 1
    BY <1>1, <2>2 DEF Held
  <2> QED BY <1>1, <1>2, <2>2, <2>4, <2>7, <2>8, <2>9, StepSafe
<1> QED BY <1>1, <1>3, <1>4, <1>5

(* A step after which the device is e and every CRTC is sound.             *)
LEMMA AllSafe ==
    ASSUME KmsInv, dev' \in DeviceType, ~dev'.busy, master' = master,
           \A x \in Crtcs : Sound(dev', x, Held(posted'[x] = "posted")),
           posted' \in [Crtcs -> {"none", "queued", "posted"}], mode_views' \subseteq Crtcs,
           mode_set' \in BOOLEAN, fresh' \subseteq Crtcs, power' \in BOOLEAN
    PROVE  KmsInv'
<1>1. TypeOK'
    BY DEF KmsInv, TypeOK
<1>2. \A x \in Crtcs : Safe(x)'
    BY SafePrimed
<1> QED BY <1>1, <1>2 DEF KmsInv

LEMMA KernelFlipSafe ==
    ASSUME KmsInv, NEW c \in Crtcs, KernelFlip(c)
    PROVE  KmsInv' /\ Grows
<1> DEFINE e == [dev EXCEPT !.kernel[c] = "idle", !.events = @ \cup {c}]
<1>1. dev \in DeviceType /\ ~dev.busy /\ master \in BOOLEAN
    BY DEF KmsInv, TypeOK
<1>2. /\ e \in DeviceType /\ e.kernel = [dev.kernel EXCEPT ![c] = "idle"]
      /\ e.events = dev.events \cup {c} /\ e.frame = dev.frame /\ e.listeners = dev.listeners
      /\ e.urgent = dev.urgent /\ e.callbacks = dev.callbacks /\ e.answers = dev.answers
      /\ e.cursor_invalidated = dev.cursor_invalidated
      /\ e.cursor_stale = dev.cursor_stale /\ e.busy = dev.busy
      /\ e.sync_cursor_primary = dev.sync_cursor_primary
    BY <1>1 DEF DeviceType
<1>3. dev' = e /\ dev.kernel[c] = "flipping"
    BY <1>1 DEF KernelFlip, DeviceType
<1> HIDE DEF e
<1>4. e.kernel[c] = "idle" /\ \A x \in Crtcs \ {c} : e.kernel[x] = dev.kernel[x]
    BY <1>1, <1>2 DEF DeviceType
<1>5. ASSUME NEW x \in Crtcs PROVE Sound(e, x, Held(posted[x] = "posted"))
  <2> DEFINE n == Held(posted[x] = "posted")
  <2>1. Sound(dev, x, n)
    BY DEF KmsInv, Safe
  <2>2. Count(e, x) = n /\ CursorOk(e, x) /\ Timed(e.frame[x])
    BY <1>2, <2>1 DEF Sound, Count, CursorOk
  <2>3. FlipOk(e, x)
    <3>1. CASE x = c
        BY <1>2, <1>3, <1>4, <2>1, <3>1 DEF Sound, FlipOk, Expected
    <3>2. CASE x # c
        BY <1>2, <1>4, <2>1, <3>2 DEF Sound, FlipOk, Expected
    <3> QED BY <3>1, <3>2
  <2> QED BY <1>1, <1>2, <2>2, <2>3 DEF Sound
<1>6. /\ master' = master /\ posted' = posted /\ mode_views' = mode_views
      /\ mode_set' = mode_set /\ fresh' = fresh /\ power' = power
    BY DEF KernelFlip, mainVars
<1>7. KmsInv'
    BY <1>1, <1>2, <1>3, <1>5, <1>6, AllSafe DEF KmsInv, TypeOK
<1>8. Grows
    BY <1>1, <1>2, <1>3 DEF Grows, DeviceType
<1> QED BY <1>7, <1>8

LEMMA CursorPassedSafe ==
    ASSUME KmsInv, NEW c \in Crtcs, CursorPassedCallback(c)
    PROVE  KmsInv' /\ Grows
<1> DEFINE e == [dev EXCEPT !.callbacks = @ \ {<<"cursor_passed", c>>}, !.cursor_invalidated = @ \ {c}]
<1>1. dev \in DeviceType /\ ~dev.busy /\ master \in BOOLEAN
    BY DEF KmsInv, TypeOK
<1>2. /\ e \in DeviceType /\ e.kernel = dev.kernel
      /\ e.events = dev.events /\ e.frame = dev.frame /\ e.listeners = dev.listeners
      /\ e.urgent = dev.urgent /\ e.callbacks = dev.callbacks \ {<<"cursor_passed", c>>}
      /\ e.answers = dev.answers
      /\ e.cursor_invalidated = dev.cursor_invalidated \ {c}
      /\ e.cursor_stale = dev.cursor_stale /\ e.busy = dev.busy
      /\ e.sync_cursor_primary = dev.sync_cursor_primary
    BY <1>1 DEF DeviceType
<1>3. dev' = e
    BY DEF CursorPassedCallback
<1> HIDE DEF e
<1>4. /\ \A x \in Crtcs : <<"flipped", x>> \in e.callbacks <=> <<"flipped", x>> \in dev.callbacks
      /\ \A x \in Crtcs : <<"cursor_passed", x>> \in e.callbacks => <<"cursor_passed", x>> \in dev.callbacks
    BY <1>2
<1>5. ASSUME NEW x \in Crtcs PROVE Sound(e, x, Held(posted[x] = "posted"))
  <2> DEFINE n == Held(posted[x] = "posted")
  <2>1. Sound(dev, x, n)
    BY DEF KmsInv, Safe
  <2>2. Count(e, x) = n /\ Timed(e.frame[x])
    BY <1>2, <2>1 DEF Sound, Count
  <2>3. FlipOk(e, x)
    BY <1>2, <1>4, <2>1 DEF Sound, FlipOk, Expected
  <2>4. CursorOk(e, x)
    BY <1>2, <1>4, <2>1 DEF Sound, CursorOk, CursorPassedCallback
  <2> QED BY <1>1, <1>2, <2>2, <2>3, <2>4 DEF Sound
<1>6. /\ master' = master /\ posted' = posted /\ mode_views' = mode_views
      /\ mode_set' = mode_set /\ fresh' = fresh /\ power' = power
    BY DEF CursorPassedCallback, mainVars
<1>7. KmsInv'
    BY <1>1, <1>2, <1>3, <1>5, <1>6, AllSafe DEF KmsInv, TypeOK
<1>8. Grows
    BY <1>1, <1>2, <1>3 DEF Grows, DeviceType
<1> QED BY <1>7, <1>8

LEMMA AnswerFrameSafe ==
    ASSUME KmsInv, NEW c \in Crtcs, AnswerFrame(c)
    PROVE  KmsInv'
<1> DEFINE e == [dev EXCEPT !.answers[c] = @ - 1]
<1>1. /\ dev \in DeviceType /\ ~dev.busy /\ master \in BOOLEAN
      /\ posted \in [Crtcs -> {"none", "queued", "posted"}]
    BY DEF KmsInv, TypeOK
<1>2. dev.answers[c] \in Nat /\ dev.answers[c] > 0 /\ dev.answers[c] - 1 \in Nat
    BY <1>1 DEF DeviceType, AnswerFrame
<1>3. /\ e \in DeviceType /\ e.kernel = dev.kernel
      /\ e.events = dev.events /\ e.frame = dev.frame /\ e.listeners = dev.listeners
      /\ e.urgent = dev.urgent /\ e.callbacks = dev.callbacks
      /\ e.answers = [dev.answers EXCEPT ![c] = @ - 1]
      /\ e.cursor_invalidated = dev.cursor_invalidated
      /\ e.cursor_stale = dev.cursor_stale /\ e.busy = dev.busy
      /\ e.sync_cursor_primary = dev.sync_cursor_primary
  <2>1. [dev.answers EXCEPT ![c] = @ - 1] \in [Crtcs -> Nat]
    BY <1>1, <1>2 DEF DeviceType
  <2> QED BY <1>1, <2>1 DEF DeviceType
<1>4. dev' = e /\ posted' = [posted EXCEPT ![c] = "none"]
    BY DEF AnswerFrame
<1> HIDE DEF e
<1>5. ASSUME NEW x \in Crtcs PROVE Sound(e, x, Held(posted'[x] = "posted"))
  <2> DEFINE n == Held(posted[x] = "posted")
             m == Held(posted'[x] = "posted")
  <2>1. Sound(dev, x, n)
    BY DEF KmsInv, Safe
  <2>2. CursorOk(e, x) /\ Timed(e.frame[x])
    BY <1>3, <2>1 DEF Sound, CursorOk
  <2>3. FlipOk(e, x)
    BY <1>3, <2>1 DEF Sound, FlipOk, Expected
  <2>4. Count(e, x) = m
    <3> DEFINE q == Held("frame" \in dev.frame[x].submitted)
               p == Held("frame" \in dev.frame[x].pending)
               l == Held("frame" \in dev.listeners[x])
               a == dev.answers[x]
               b == e.answers[x]
    <3>1. q + p + l + a = n /\ Count(e, x) = q + p + l + b
        BY <1>3, <2>1 DEF Sound, Count
    <3>2. /\ q \in {0, 1} /\ p \in {0, 1} /\ l \in {0, 1} /\ n \in {0, 1} /\ a \in Nat
        BY <1>1, HeldType DEF DeviceType
    <3>3. CASE x = c
      <4>1. a > 0 /\ b = a - 1 /\ m = 0
        BY <1>1, <1>2, <1>3, <1>4, <3>3 DEF Held, DeviceType
      <4> HIDE DEF q, p, l, a, b, n, m
      <4> QED BY <3>1, <3>2, <4>1
    <3>4. CASE x # c
      <4>1. b = a /\ m = n
        BY <1>1, <1>3, <1>4, <3>4 DEF DeviceType
      <4> HIDE DEF q, p, l, a, b, n, m
      <4> QED BY <3>1, <3>2, <4>1
    <3> QED BY <3>3, <3>4
  <2> QED BY <1>1, <1>3, <2>2, <2>3, <2>4 DEF Sound
<1>6. /\ master' = master /\ mode_views' = mode_views
      /\ mode_set' = mode_set /\ fresh' = fresh /\ power' = power
      /\ posted' \in [Crtcs -> {"none", "queued", "posted"}]
    BY <1>1, <1>4 DEF AnswerFrame
<1> QED BY <1>1, <1>3, <1>4, <1>5, <1>6, AllSafe DEF KmsInv, TypeOK

(* Disabling the device is a mode set without any CRTC left.               *)
LEMMA PowerOffDoes ==
    ASSUME KmsInv, PowerOff
    PROVE  \E g : /\ AfterReset(dev, g) /\ g.active = {} /\ dev' = Polled(g)
                  /\ \/ master /\ ModeSetPasses(dev, g, {})
                     \/ MayBeRefused(dev) /\ ModeSetFails(dev, g, {})
<1> DEFINE D == disarm_all_frame_sources(dev)
           d == [D EXCEPT !.active = {}]
           K == [x \in Crtcs |-> "idle"]
           E == d.events \cup {} \cup {x \in Crtcs : d.kernel[x] # "idle"}
           b == [d EXCEPT !.kernel = K, !.events = E]
<1>1. dev \in DeviceType /\ master \in BOOLEAN
    BY DEF KmsInv, TypeOK
<1>2. Discarded(dev, D)
    BY <1>1, DiscardAll
<1>3. \/ master /\ dev' = Polled(BlockingCommit(d, {}))
      \/ MayBeRefused(dev) /\ dev' = Polled(d)
    BY DEF PowerOff
<1> HIDE DEF D
<1>4. /\ d \in DeviceType /\ d.active = {}
      /\ d.sync_cursor_primary = D.sync_cursor_primary /\ d.timer_state = D.timer_state
      /\ d.frame = D.frame /\ d.answers = D.answers
      /\ d.listeners = D.listeners /\ d.kernel = D.kernel
      /\ d.events = D.events /\ d.callbacks = D.callbacks
      /\ d.cursor_invalidated = D.cursor_invalidated
      /\ d.cursor_stale = D.cursor_stale /\ d.busy = D.busy
  <2>1. D \in DeviceType
    BY <1>2 DEF Discarded
  <2> QED BY <2>1 DEF DeviceType
<1> HIDE DEF d
<1>5. AfterReset(dev, d)
    BY <1>2, <1>4 DEF AfterReset, Discarded
<1>6. ModeSetFails(dev, d, {})
  <2>1. ASSUME NEW x \in Crtcs
        PROVE d.answers[x] = dev.answers[x] + Held("frame" \in dev.frame[x].pending)
                                      + Held("frame" \in dev.frame[x].submitted)
                                      + Held(x \in {})
    <3> DEFINE h == dev.answers[x] + Held("frame" \in dev.frame[x].pending)
                                   + Held("frame" \in dev.frame[x].submitted)
    <3>1. d.answers[x] = h /\ d.answers[x] \in Nat
        BY <1>2, <1>4 DEF Discarded, DeviceType
    <3>2. Held(x \in {}) = 0
        BY DEF Held
    <3> HIDE DEF h
    <3>3. d.answers[x] = h + 0
        BY <3>1
    <3> QED BY <3>2, <3>3 DEF h
  <2> QED BY <1>2, <1>4, <2>1 DEF ModeSetFails, Discarded
<1>7. b = BlockingCommit(d, {})
    BY DEF BlockingCommit
<1>8. K \in [Crtcs -> {"idle", "flipping"}] /\ E \in SUBSET Crtcs
    BY <1>4 DEF DeviceType
<1>9. /\ b \in DeviceType /\ b.active = {}
      /\ b.sync_cursor_primary = d.sync_cursor_primary /\ b.timer_state = d.timer_state
      /\ b.frame = d.frame /\ b.answers = d.answers
      /\ b.listeners = d.listeners /\ b.kernel = K
      /\ b.events = E /\ b.callbacks = d.callbacks
      /\ b.cursor_invalidated = d.cursor_invalidated
      /\ b.cursor_stale = d.cursor_stale /\ b.busy = d.busy
  <2> HIDE DEF K, E
  <2> QED BY <1>4, <1>8 DEF DeviceType
<1>10. AfterReset(dev, b) /\ ModeSetPasses(dev, b, {})
  <2>1. AfterReset(dev, b)
    BY <1>5, <1>9 DEF AfterReset
  <2>2. E = dev.events \cup {} \cup {x \in Crtcs : dev.kernel[x] # "idle"}
    BY <1>2, <1>4 DEF Discarded
  <2> HIDE DEF b, E
  <2>3. b.callbacks = dev.callbacks \cup ({"cursor_passed"} \X ({} \cap dev.cursor_invalidated))
    BY <1>2, <1>4, <1>9 DEF Discarded
  <2>4. b.cursor_stale = dev.cursor_stale \ ({} \cap dev.cursor_invalidated)
    BY <1>2, <1>4, <1>9 DEF Discarded
  <2>5. \A x \in Crtcs : b.kernel[x] = "idle"
    BY <1>9
  <2>6. \A x \in Crtcs : b.listeners[x] = IF x \in {} THEN dev.listeners[x] \cup {"frame"} ELSE dev.listeners[x]
    BY <1>2, <1>4, <1>9 DEF Discarded
  <2>7. \A x \in Crtcs : b.answers[x] = dev.answers[x] + Held("frame" \in dev.frame[x].pending)
                                         + Held("frame" \in dev.frame[x].submitted)
    <3>1. b.answers = D.answers
        BY <1>4, <1>9
    <3> QED BY <1>2, <3>1 DEF Discarded
  <2>8. ModeSetPasses(dev, b, {})
    BY <1>9, <2>2, <2>3, <2>4, <2>5, <2>6, <2>7 DEF ModeSetPasses
  <2> QED BY <2>1, <2>8
<1> HIDE DEF b
<1>11. CASE master /\ dev' = Polled(b)
    BY <1>9, <1>10, <1>11
<1>12. CASE MayBeRefused(dev) /\ dev' = Polled(d)
    BY <1>4, <1>5, <1>6, <1>12
<1> QED BY <1>3, <1>7, <1>11, <1>12

LEMMA PowerOffSafe ==
    ASSUME KmsInv, PowerOff
    PROVE  KmsInv' /\ Grows
<1>1. PICK g : /\ AfterReset(dev, g) /\ dev' = Polled(g)
               /\ \/ master /\ ModeSetPasses(dev, g, {})
                  \/ MayBeRefused(dev) /\ ModeSetFails(dev, g, {})
    BY PowerOffDoes
<1>2. /\ TasksRun /\ master' = master /\ posted' = posted /\ mode_views' = mode_views
      /\ mode_set' = mode_set /\ fresh' = fresh /\ power' = FALSE
    BY DEF PowerOff, mainVars
<1>3. /\ posted' \in [Crtcs -> {"none", "queued", "posted"}] /\ mode_views' \subseteq Crtcs
      /\ mode_set' \in BOOLEAN /\ fresh' \subseteq Crtcs /\ power' \in BOOLEAN
    BY <1>2 DEF KmsInv, TypeOK
<1>4. {} \in SUBSET Crtcs
    OBVIOUS
<1> QED BY <1>1, <1>2, <1>3, <1>4, ResetStepSafe

LEMMA EventDispatchSafe ==
    ASSUME KmsInv, EventDispatch
    PROVE  KmsInv' /\ Grows
<1> DEFINE heard(l) == {x \in dev.events : l \in dev.listeners[x]}
           L == [x \in Crtcs |-> IF x \in dev.events THEN {} ELSE dev.listeners[x]]
           C == dev.callbacks \cup ({"flipped"} \X heard("impl"))
           A == [x \in Crtcs |-> IF x \in heard("frame") THEN dev.answers[x] + 1 ELSE dev.answers[x]]
           e == [dev EXCEPT !.events = {}, !.urgent = FALSE, !.listeners = L, !.callbacks = C,
                            !.answers = A]
<1>1. dev \in DeviceType /\ ~dev.busy /\ master \in BOOLEAN
    BY DEF KmsInv, TypeOK
<1>2. dev' = e
    BY DEF EventDispatch
<1>3. L \in [Crtcs -> SUBSET {"impl", "frame", "orphan"}]
    BY <1>1 DEF DeviceType
<1>4. C \in SUBSET ({"flipped", "cursor_passed"} \X Crtcs)
    BY <1>1 DEF DeviceType
<1>5. \A x \in Crtcs : dev.answers[x] \in Nat
    BY <1>1 DEF DeviceType
<1>6. A \in [Crtcs -> Nat]
    BY <1>5
<1>7. /\ e \in DeviceType /\ e.kernel = dev.kernel
      /\ e.events = {} /\ e.frame = dev.frame /\ e.listeners = L
      /\ e.urgent = FALSE /\ e.callbacks = C /\ e.answers = A
      /\ e.cursor_invalidated = dev.cursor_invalidated
      /\ e.cursor_stale = dev.cursor_stale /\ e.busy = dev.busy
      /\ e.sync_cursor_primary = dev.sync_cursor_primary
  <2> HIDE DEF L, C, A
  <2> QED BY <1>1, <1>3, <1>4, <1>6 DEF DeviceType
<1> HIDE DEF e
<1>8. ASSUME NEW x \in Crtcs
      PROVE  Sound(e, x, Held(posted[x] = "posted")) /\ e.answers[x] >= dev.answers[x]
  <2> DEFINE n == Held(posted[x] = "posted")
  <2>1. Sound(dev, x, n)
    BY DEF KmsInv, Safe
  <2>2. /\ <<"cursor_passed", x>> \in e.callbacks <=> <<"cursor_passed", x>> \in dev.callbacks
        /\ <<"flipped", x>> \in e.callbacks <=>
              <<"flipped", x>> \in dev.callbacks \/ (x \in dev.events /\ "impl" \in dev.listeners[x])
    BY <1>7
  <2>3. CursorOk(e, x) /\ Timed(e.frame[x])
    BY <1>7, <2>1, <2>2 DEF Sound, CursorOk
  <2>4. /\ e.listeners[x] = IF x \in dev.events THEN {} ELSE dev.listeners[x]
        /\ e.answers[x] = IF x \in dev.events /\ "frame" \in dev.listeners[x]
                          THEN dev.answers[x] + 1 ELSE dev.answers[x]
    BY <1>7
  <2>5. FlipOk(e, x)
    BY <1>7, <2>1, <2>2, <2>4 DEF Sound, FlipOk, Expected
  <2>6. Count(e, x) = n /\ e.answers[x] >= dev.answers[x]
    <3> DEFINE q == Held("frame" \in dev.frame[x].submitted)
               p == Held("frame" \in dev.frame[x].pending)
               l == Held("frame" \in dev.listeners[x])
               k == Held("frame" \in e.listeners[x])
               a == dev.answers[x]
               b == e.answers[x]
    <3>1. q + p + l + a = n /\ Count(e, x) = q + p + k + b
        BY <1>7, <2>1 DEF Sound, Count
    <3>2. /\ q \in {0, 1} /\ p \in {0, 1} /\ l \in {0, 1} /\ n \in {0, 1} /\ a \in Nat
        BY <1>5, HeldType
    <3>3. (k = 0 /\ l = 1 /\ b = a + 1) \/ (k = l /\ b = a)
        BY <2>4 DEF Held
    <3> HIDE DEF q, p, l, k, a, b, n
    <3>4. Count(e, x) = n /\ b >= a
        BY <3>1, <3>2, <3>3
    <3> QED BY <3>4 DEF a, b
  <2> QED BY <1>1, <1>7, <2>3, <2>5, <2>6 DEF Sound
<1>9. /\ master' = master /\ posted' = posted /\ mode_views' = mode_views
      /\ mode_set' = mode_set /\ fresh' = fresh /\ power' = power
    BY DEF EventDispatch, mainVars
<1>10. KmsInv'
    BY <1>1, <1>2, <1>7, <1>8, <1>9, AllSafe DEF KmsInv, TypeOK
<1>11. Grows
    BY <1>2, <1>7, <1>8 DEF Grows
<1> QED BY <1>10, <1>11

(* Replacing the views makes a frame an orphan, which nobody counts.       *)
LEMMA OrphanKeeps ==
    ASSUME NEW u
    PROVE  /\ "frame" \notin Orphan(u)
           /\ "impl" \in Orphan(u) <=> "impl" \in u
           /\ Orphan(u) \subseteq u \cup {"orphan"}
           /\ u = {} => Orphan(u) = {}
BY DEF Orphan

LEMMA RebuildSafe ==
    ASSUME KmsInv, RebuildViews
    PROVE  KmsInv'
<1> DEFINE F == [x \in Crtcs |-> [dev.frame[x] EXCEPT !.pending = Orphan(@), !.submitted = Orphan(@)]]
           L == [x \in Crtcs |-> Orphan(dev.listeners[x])]
           A == [x \in Crtcs |-> 0]
           d == [dev EXCEPT !.frame = F, !.listeners = L, !.answers = A, !.cursor_invalidated = Crtcs]
           e == Polled(d)
<1>1. dev \in DeviceType /\ ~dev.busy /\ master \in BOOLEAN
    BY DEF KmsInv, TypeOK
<1>2. dev' = e
    BY DEF RebuildViews
<1>3. ASSUME NEW x \in Crtcs
      PROVE  /\ F[x] \in CrtcFrame
             /\ F[x].pending = Orphan(dev.frame[x].pending)
             /\ F[x].submitted = Orphan(dev.frame[x].submitted)
             /\ F[x].timer_set = dev.frame[x].timer_set /\ F[x].source = dev.frame[x].source
             /\ F[x].pending_page_flip = dev.frame[x].pending_page_flip
             /\ L[x] \in SUBSET {"impl", "frame", "orphan"}
  <2>1. dev.frame[x] \in CrtcFrame
    BY <1>1, FrameIsFrame
  <2>2. Orphan(dev.frame[x].pending) \in SUBSET Items /\ Orphan(dev.frame[x].submitted) \in SUBSET Items
    BY <2>1, OrphanKeeps DEF CrtcFrame, Items
  <2>3. L[x] \in SUBSET {"impl", "frame", "orphan"}
    <3>1. dev.listeners[x] \subseteq {"impl", "frame", "orphan"}
        BY <1>1 DEF DeviceType
    <3> QED BY <3>1, OrphanKeeps
  <2> QED BY <2>1, <2>2, <2>3 DEF CrtcFrame
<1>4. F \in [Crtcs -> CrtcFrame] /\ L \in [Crtcs -> SUBSET {"impl", "frame", "orphan"}]
    BY <1>3
<1>5. A \in [Crtcs -> Nat] /\ \A x \in Crtcs : A[x] = 0 /\ L[x] = Orphan(dev.listeners[x])
    OBVIOUS
<1> HIDE DEF F, L, A
<1>6. /\ d \in DeviceType /\ d.kernel = dev.kernel
      /\ d.events = dev.events /\ d.frame = F /\ d.listeners = L
      /\ d.callbacks = dev.callbacks /\ d.answers = A
      /\ d.cursor_invalidated = Crtcs
      /\ d.cursor_stale = dev.cursor_stale /\ d.busy = dev.busy /\ d.urgent = dev.urgent
    BY <1>1, <1>4, <1>5 DEF DeviceType
<1> HIDE DEF d
<1>7. ASSUME NEW x \in Crtcs PROVE Sound(d, x, 0)
  <2>1. Sound(dev, x, Held(posted[x] = "posted"))
    BY DEF KmsInv, Safe
  <2>2. Timed(d.frame[x])
    BY <1>3, <1>6, <2>1 DEF Sound, Timed
  <2>3. CursorOk(d, x)
    BY <1>6 DEF CursorOk, RebuildViews, QueueModesReset, TasksRun
  <2>4. "impl" \in d.listeners[x] <=> "impl" \in dev.listeners[x]
    BY <1>5, <1>6, OrphanKeeps
  <2>5. Idle(dev.frame[x]) => Idle(d.frame[x])
    BY <1>3, <1>6, OrphanKeeps DEF Idle, Null
  <2>6. d.frame[x].pending_page_flip = dev.frame[x].pending_page_flip
    BY <1>3, <1>6
  <2>7. FlipOk(d, x)
    BY <1>6, <2>1, <2>4, <2>5, <2>6 DEF Sound, FlipOk, Expected
  <2>8. Count(d, x) = 0
    <3>1. /\ "frame" \notin d.frame[x].submitted /\ "frame" \notin d.frame[x].pending
          /\ "frame" \notin d.listeners[x] /\ d.answers[x] = 0
        BY <1>3, <1>5, <1>6, OrphanKeeps
    <3>2. Count(d, x) = 0 + 0 + 0 + 0
        BY <3>1 DEF Count, Held
    <3> QED BY <3>2
  <2> QED BY <1>1, <1>6, <2>2, <2>3, <2>7, <2>8 DEF Sound
<1>8. posted' = [x \in Crtcs |-> "none"]
    BY DEF RebuildViews
<1>9. ASSUME NEW x \in Crtcs PROVE Sound(e, x, Held(posted'[x] = "posted"))
  <2>1. Sound(e, x, 0)
    BY <1>6, <1>7, PolledSound
  <2>2. posted'[x] = "none"
    BY <1>8
  <2>3. Held(posted'[x] = "posted") = 0
    BY <2>2, HeldPosted
  <2> QED BY <2>1, <2>3
<1>10. e \in DeviceType /\ ~e.busy
    BY <1>1, <1>6, PolledKeeps
<1>11. /\ posted' \in [Crtcs -> {"none", "queued", "posted"}]
       /\ mode_views' = Crtcs /\ mode_set' = TRUE /\ fresh' = Crtcs
       /\ master' = master /\ power' = power
    BY <1>8 DEF RebuildViews, QueueModesReset
<1> HIDE DEF e
<1> QED BY <1>1, <1>2, <1>9, <1>10, <1>11, AllSafe DEF KmsInv, TypeOK

LEMMA PowerOnSafe ==
    ASSUME KmsInv, PowerOn
    PROVE  KmsInv' /\ Grows
<1> DEFINE d == [dev EXCEPT !.cursor_invalidated = Crtcs]
           e == Polled(d)
<1>1. dev \in DeviceType /\ ~dev.busy /\ master \in BOOLEAN
    BY DEF KmsInv, TypeOK
<1>2. dev' = e
    BY DEF PowerOn
<1>3. /\ d \in DeviceType /\ d.kernel = dev.kernel
      /\ d.events = dev.events /\ d.frame = dev.frame /\ d.listeners = dev.listeners
      /\ d.callbacks = dev.callbacks /\ d.answers = dev.answers
      /\ d.cursor_invalidated = Crtcs
      /\ d.cursor_stale = dev.cursor_stale /\ d.busy = dev.busy /\ d.urgent = dev.urgent
      /\ d.sync_cursor_primary = dev.sync_cursor_primary
    BY <1>1 DEF DeviceType
<1> HIDE DEF d
<1>4. ASSUME NEW x \in Crtcs PROVE Sound(d, x, Held(posted[x] = "posted"))
  <2>1. Sound(dev, x, Held(posted[x] = "posted"))
    BY DEF KmsInv, Safe
  <2>2. CursorOk(d, x)
    BY <1>3 DEF CursorOk, PowerOn, QueueModesReset, TasksRun
  <2>3. FlipOk(d, x) /\ Timed(d.frame[x])
    BY <1>3, <2>1 DEF Sound, FlipOk, Expected
  <2>4. Count(d, x) = Held(posted[x] = "posted")
    BY <1>3, <2>1 DEF Sound, Count
  <2> QED BY <1>1, <1>3, <2>2, <2>3, <2>4 DEF Sound
<1>5. ASSUME NEW x \in Crtcs PROVE Sound(e, x, Held(posted[x] = "posted"))
    BY <1>3, <1>4, PolledSound
<1>6. /\ e \in DeviceType /\ ~e.busy /\ e.answers = dev.answers
      /\ e.sync_cursor_primary = dev.sync_cursor_primary
    BY <1>1, <1>3, PolledKeeps
<1>7. /\ posted' = posted /\ mode_views' = Crtcs /\ mode_set' = TRUE /\ fresh' = fresh
      /\ master' = master /\ power' = TRUE
    BY DEF PowerOn, QueueModesReset
<1> HIDE DEF e
<1>8. KmsInv'
    BY <1>1, <1>2, <1>5, <1>6, <1>7, AllSafe DEF KmsInv, TypeOK
<1>9. Grows
    BY <1>1, <1>2, <1>6 DEF Grows, DeviceType
<1> QED BY <1>8, <1>9

LEMMA PauseSafe ==
    ASSUME KmsInv, Pause
    PROVE  KmsInv' /\ Grows
<1>1. /\ dev' = dev /\ posted' = posted /\ mode_views' = mode_views /\ mode_set' = mode_set
      /\ fresh' = fresh /\ master' = FALSE /\ power' = power
    BY DEF Pause, mainVars
<1>2. ASSUME NEW x \in Crtcs PROVE Safe(x)'
  <2>1. Safe(x)
    BY DEF KmsInv
  <2> QED BY <1>1, <2>1 DEF Safe, Sound, FlipOk
<1>3. TypeOK' /\ ~dev'.busy
    BY <1>1 DEF KmsInv, TypeOK
<1>4. Grows
    BY <1>1 DEF Grows, KmsInv, TypeOK, DeviceType
<1> QED BY <1>2, <1>3, <1>4 DEF KmsInv

LEMMA ResumeSafe ==
    ASSUME KmsInv, Resume
    PROVE  KmsInv' /\ Grows
<1> DEFINE t == IF dev.timer_state = "INHIBITED" THEN "ENABLED" ELSE dev.timer_state
           e == [dev EXCEPT !.timer_state = t]
<1>1. dev \in DeviceType /\ ~dev.busy
    BY DEF KmsInv, TypeOK
<1>2. dev' = e
    BY DEF Resume
<1>3. t \in {"ENABLED", "INHIBITED", "DISABLED"}
    BY <1>1 DEF DeviceType
<1> HIDE DEF t
<1>4. /\ e \in DeviceType /\ e.kernel = dev.kernel
      /\ e.events = dev.events /\ e.frame = dev.frame /\ e.listeners = dev.listeners
      /\ e.callbacks = dev.callbacks /\ e.answers = dev.answers
      /\ e.cursor_invalidated = dev.cursor_invalidated
      /\ e.cursor_stale = dev.cursor_stale /\ e.busy = dev.busy
      /\ e.sync_cursor_primary = dev.sync_cursor_primary
    BY <1>1, <1>3 DEF DeviceType
<1> HIDE DEF e
<1>5. /\ posted' = posted /\ mode_views' = mode_views /\ mode_set' = mode_set
      /\ fresh' = fresh /\ master' = TRUE /\ power' = power
    BY DEF Resume, mainVars
<1>6. dev.events = {} /\ dev.callbacks = {} /\ \A x \in Crtcs : dev.kernel[x] = "idle"
    BY DEF Resume, TasksRun
<1>7. ASSUME NEW x \in Crtcs PROVE Safe(x)'
  <2>1. Sound(dev, x, Held(posted[x] = "posted"))
    BY DEF KmsInv, Safe
  <2>2. CursorOk(e, x) /\ Timed(e.frame[x])
    BY <1>4, <2>1 DEF Sound, CursorOk
  <2>3. FlipOk(dev, x)'
    BY <1>2, <1>4, <1>6, <2>1 DEF Sound, FlipOk, Expected
  <2>4. Count(e, x) = Held(posted'[x] = "posted")
    BY <1>4, <1>5, <2>1 DEF Sound, Count
  <2> QED BY <1>1, <1>2, <1>4, <2>2, <2>3, <2>4 DEF Safe, Sound
<1>8. TypeOK' /\ ~dev'.busy
    BY <1>1, <1>2, <1>4, <1>5 DEF KmsInv, TypeOK
<1>9. Grows
    BY <1>1, <1>2, <1>4 DEF Grows, DeviceType
<1> QED BY <1>7, <1>8, <1>9 DEF KmsInv

(* Stuttering and the initial state.                                       *)
LEMMA StutterSafe ==
    ASSUME KmsInv, UNCHANGED vars
    PROVE  KmsInv'
BY DEF KmsInv, TypeOK, Safe, Sound, FlipOk, Expected, vars, mainVars

LEMMA InitSafe ==
    ASSUME Init
    PROVE  KmsInv
<1>1. dev \in DeviceType
    BY DeviceAssumption DEF Init, DeviceType, CrtcFrame, NewCrtcFrame, Null
<1>2. TypeOK /\ ~dev.busy
    BY <1>1 DEF Init, TypeOK
<1>3. ASSUME NEW x \in Crtcs PROVE Safe(x)
  <2>1. /\ dev.frame[x] = NewCrtcFrame /\ dev.listeners[x] = {} /\ dev.kernel[x] = "idle"
        /\ dev.events = {} /\ dev.callbacks = {} /\ dev.answers[x] = 0 /\ dev.cursor_stale = {}
    BY DEF Init
  <2>2. FlipOk(dev, x) /\ CursorOk(dev, x) /\ Timed(dev.frame[x])
    BY <2>1 DEF FlipOk, CursorOk, Timed, Expected, NewCrtcFrame
  <2>3. Count(dev, x) = 0 + 0 + 0 + 0
    BY <2>1 DEF Count, Held, NewCrtcFrame, Null
  <2>4. Held(posted[x] = "posted") = 0
    BY HeldPosted DEF Init
  <2> QED BY <1>1, <1>2, <2>2, <2>3, <2>4 DEF Safe, Sound
<1> QED BY <1>2, <1>3 DEF KmsInv

-----------------------------------------------------------------------------
(* The theorems.                                                           *)

(* What every step but the delivery of an answer and the rebuilding of the *)
(* views does to the answers.                                              *)
Quiet == /\ \A c \in Crtcs : (posted'[c] # "none") <=> (posted[c] # "none")
         /\ Grows

(* A step that posts a frame of c.                                         *)
Posts(c) == /\ posted[c] = "none" /\ posted'[c] # "none"
            /\ \A x \in Crtcs : x # c => ((posted'[x] # "none") <=> (posted[x] # "none"))
            /\ Grows

(* Every step keeps the invariant, and is of one of four kinds. *)
LEMMA StepKeeps ==
    ASSUME KmsInv, Next
    PROVE  /\ KmsInv'
           /\ \/ Quiet
              \/ \E c \in Crtcs : Posts(c) \/ AnswerFrame(c)
              \/ RebuildViews
<1>1. posted \in [Crtcs -> {"none", "queued", "posted"}]
    BY DEF KmsInv, TypeOK
<1>2. ASSUME Grows, posted' = posted PROVE Quiet
    BY <1>2 DEF Quiet
<1>3. ASSUME NEW c \in Crtcs, NEW change \in SUBSET {"vrr"},
             change # {} => c \in VrrCapable, PostFrame(c, change)
      PROVE  KmsInv' /\ Posts(c)
  <2>1. KmsInv' /\ Grows
    BY <1>3, PostFrameSafe
  <2>2. posted[c] = "none"
    BY <1>3 DEF PostFrame
  <2>3. \/ posted' = [posted EXCEPT ![c] = "queued"]
        \/ posted' = [posted EXCEPT ![c] = "posted"]
        \/ posted' = [x \in Crtcs |-> IF x = c \/ posted[x] = "queued" THEN "posted" ELSE posted[x]]
    BY <1>3 DEF PostFrame
  <2> QED BY <1>1, <2>1, <2>2, <2>3 DEF Posts
<1>4. ASSUME NEW c \in Crtcs, FinishFrame(c) PROVE KmsInv' /\ Posts(c)
  <2>1. KmsInv' /\ Grows
    BY <1>4, FinishFrameSafe
  <2>2. posted[c] = "none" /\ posted' = [posted EXCEPT ![c] = "posted"]
    BY <1>4 DEF FinishFrame
  <2> QED BY <1>1, <2>1, <2>2 DEF Posts
<1>5. ASSUME NEW c \in Crtcs, SyncFileReady(c) PROVE KmsInv' /\ Quiet
    BY <1>2, <1>5, SyncFileReadySafe DEF SyncFileReady, mainVars
<1>6. ASSUME NEW c \in Crtcs, DeadlineDispatch(c) PROVE KmsInv' /\ Quiet
    BY <1>2, <1>6, DeadlineDispatchSafe DEF DeadlineDispatch, mainVars
<1>7. ASSUME NEW c \in Crtcs, AwaitFlush(c) PROVE KmsInv' /\ Quiet
    BY <1>2, <1>7, AwaitFlushSafe DEF AwaitFlush, mainVars
<1>8. ASSUME NEW c \in Crtcs, CursorChanged(c) PROVE KmsInv' /\ Quiet
    BY <1>2, <1>8, CursorChangedSafe DEF CursorChanged, mainVars
<1>9. ASSUME NEW c \in Crtcs, KernelFlip(c) PROVE KmsInv' /\ Quiet
    BY <1>2, <1>9, KernelFlipSafe DEF KernelFlip, mainVars
<1>10. ASSUME NEW c \in Crtcs, FlippedCallback(c) PROVE KmsInv' /\ Quiet
    BY <1>2, <1>10, FlippedCallbackSafe DEF FlippedCallback, mainVars
<1>11. ASSUME NEW c \in Crtcs, CursorPassedCallback(c) PROVE KmsInv' /\ Quiet
    BY <1>2, <1>11, CursorPassedSafe DEF CursorPassedCallback, mainVars
<1>12. ASSUME NEW c \in Crtcs, AnswerFrame(c) PROVE KmsInv'
    BY <1>12, AnswerFrameSafe
<1>13. CASE EventDispatch
    BY <1>2, <1>13, EventDispatchSafe DEF EventDispatch, mainVars
<1>14. CASE RebuildViews
    BY <1>14, RebuildSafe
<1>15. CASE PowerOn
  <2>1. posted' = posted
    BY <1>15 DEF PowerOn
  <2> QED BY <1>2, <1>15, <2>1, PowerOnSafe
<1>16. CASE PowerOff
  <2>1. posted' = posted
    BY <1>16 DEF PowerOff, mainVars
  <2> QED BY <1>2, <1>16, <2>1, PowerOffSafe
<1>17. CASE Pause
    BY <1>2, <1>17, PauseSafe DEF Pause, mainVars
<1>18. CASE Resume
    BY <1>2, <1>18, ResumeSafe DEF Resume, mainVars
<1> QED BY <1>3, <1>4, <1>5, <1>6, <1>7, <1>8, <1>9, <1>10, <1>11, <1>12, <1>13, <1>14,
           <1>15, <1>16, <1>17, <1>18 DEF Next

(* No step changes the debug flag.                                         *)
LEMMA FlagKept ==
    ASSUME KmsInv, [Next]_vars
    PROVE  dev'.sync_cursor_primary = dev.sync_cursor_primary
<1>1. dev \in DeviceType
    BY DEF KmsInv, TypeOK
<1>2. CASE UNCHANGED vars
    BY <1>2 DEF vars
<1>3. CASE Quiet
    BY <1>3 DEF Quiet, Grows
<1>4. ASSUME NEW c \in Crtcs, Posts(c) \/ AnswerFrame(c)
      PROVE  dev'.sync_cursor_primary = dev.sync_cursor_primary
    BY <1>1, <1>4 DEF Posts, Grows, AnswerFrame, DeviceType
<1>5. CASE RebuildViews
    BY <1>1, <1>5 DEF RebuildViews, Polled, DeviceType
<1> QED BY <1>2, <1>3, <1>4, <1>5, StepKeeps

(* The invariant the theorems below rest on: of every CRTC, the frame is   *)
(* counted once, the flips are known and the cursor is not lost.           *)
THEOREM KmsInvariant == Spec => []KmsInv
<1>1. Init => KmsInv
    BY InitSafe
<1>2. KmsInv /\ [Next]_vars => KmsInv'
    BY StepKeeps, StutterSafe
<1> QED BY <1>1, <1>2, PTL DEF Spec

(* A frame counted once is answered at most once, and only when posted.    *)
LEMMA AnsweredOnce ==
    ASSUME NEW d \in DeviceType, NEW c \in Crtcs, NEW w, Count(d, c) = Held(w = "posted")
    PROVE  /\ d.answers[c] \in {0, 1}
           /\ d.answers[c] = 1 => w = "posted"
<1> DEFINE q == Held("frame" \in d.frame[c].submitted)
           p == Held("frame" \in d.frame[c].pending)
           l == Held("frame" \in d.listeners[c])
           n == Held(w = "posted")
           a == d.answers[c]
<1>1. q + p + l + a = n
    BY DEF Count
<1>2. /\ q \in {0, 1} /\ p \in {0, 1} /\ l \in {0, 1} /\ n \in {0, 1} /\ a \in Nat
    BY HeldType DEF DeviceType
<1>3. n = 1 => w = "posted"
    BY DEF Held
<1> HIDE DEF q, p, l, n, a
<1>4. a \in {0, 1} /\ (a = 1 => n = 1)
    BY <1>1, <1>2
<1> QED BY <1>3, <1>4 DEF a

(* The count of HeldOnce, which adds the frames queued for a mode set.     *)
LEMMA SoundOnce ==
    ASSUME KmsInv, NEW c \in Crtcs
    PROVE  /\ Places(c) = Held(posted[c] # "none")
           /\ dev.answers[c] \in {0, 1}
<1> DEFINE q == Held("frame" \in dev.frame[c].submitted)
           p == Held("frame" \in dev.frame[c].pending)
           l == Held("frame" \in dev.listeners[c])
           k == Held(posted[c] = "queued")
           n == Held(posted[c] = "posted")
           a == dev.answers[c]
<1>1. q + p + l + a = n /\ Places(c) = q + p + l + k + a
    BY DEF KmsInv, Safe, Sound, Count, Places
<1>2. /\ q \in {0, 1} /\ p \in {0, 1} /\ l \in {0, 1} /\ n \in {0, 1} /\ k \in {0, 1} /\ a \in Nat
    BY HeldType DEF KmsInv, TypeOK, DeviceType
<1>3. /\ posted[c] = "posted" <=> n = 1
      /\ \/ n = 1 /\ k = 0 /\ Held(posted[c] # "none") = 1
         \/ n = 0 /\ k = 1 /\ Held(posted[c] # "none") = 1
         \/ n = 0 /\ k = 0 /\ Held(posted[c] # "none") = 0
  <2>1. posted[c] \in {"none", "queued", "posted"}
    BY DEF KmsInv, TypeOK
  <2> QED BY <2>1 DEF Held
<1> DEFINE h == Held(posted[c] # "none")
<1> HIDE DEF q, p, l, k, n, h
<1>4. h = n + k /\ (posted[c] = "posted" <=> n = 1)
    BY <1>3 DEF h
<1>5. q + p + l + k + a = h
    BY <1>1, <1>2, <1>4
<1>6. dev.answers[c] \in {0, 1}
    BY AnsweredOnce DEF KmsInv, Safe, Sound, TypeOK
<1> HIDE DEF a
<1> QED BY <1>1, <1>5, <1>6 DEF h

(* A posted frame is in exactly one place on its way through the thread,   *)
(* for any number of CRTCs: process_update, update_ready, the deadline     *)
(* dispatch, mode sets, session switches and power saving neither lose nor *)
(* double it.                                                              *)
THEOREM KmsHeldOnce == Spec => []HeldOnce
<1>1. KmsInv => HeldOnce
    BY SoundOnce DEF HeldOnce
<1> QED BY <1>1, KmsInvariant, PTL

(* pending_page_flip is never left set without a flip or a callback        *)
(* coming, and no commit is made while the kernel owes the CRTC a flip     *)
(* (EBUSY).                                                                *)
THEOREM KmsFlipsAgree == Spec => []FlipsAgree
<1>1. KmsInv => FlipsAgree
  <2> SUFFICES ASSUME KmsInv PROVE FlipsAgree
    OBVIOUS
  <2>1. ASSUME NEW c \in Crtcs PROVE FlipOk(dev, c)
    BY DEF KmsInv, Safe, Sound
  <2>2. FlipKnown
    BY <2>1 DEF FlipKnown, FlipOk, Expected
  <2> QED BY <2>2 DEF FlipsAgree, NoBusyCommit, KmsInv
<1> QED BY <1>1, KmsInvariant, PTL

(* cursor_result_feedback never marks a cursor as shown that moved after   *)
(* the commit that passed.                                                 *)
THEOREM KmsCursorNotLost == Spec => []CursorNotLost
<1>1. KmsInv => CursorNotLost
  <2> SUFFICES ASSUME KmsInv, NEW c \in dev.cursor_stale
               PROVE  c \in dev.cursor_invalidated /\ <<"cursor_passed", c>> \notin dev.callbacks
    BY DEF CursorNotLost
  <2>1. c \in Crtcs
    BY DEF KmsInv, TypeOK, DeviceType
  <2>2. CursorOk(dev, c)
    BY <2>1 DEF KmsInv, Safe, Sound
  <2> QED BY <2>2 DEF CursorOk
<1> QED BY <1>1, KmsInvariant, PTL

(* All of it together: CRTCs that share the timer state, the event queue   *)
(* and the mode set do not disturb each other.                             *)
THEOREM KmsSafeTogether == Spec => []SafeTogether
<1>1. HeldOnce /\ FlipsAgree /\ CursorNotLost => SafeTogether
    BY DEF SafeTogether
<1> QED BY <1>1, KmsHeldOnce, KmsFlipsAgree, KmsCursorNotLost, PTL

(* The CRTCs a step answers had posted and had no answer under way.        *)
LEMMA AnswersGrow ==
    ASSUME KmsInv, KmsInv', Grows
    PROVE  LET S == {c \in Crtcs : dev'.answers[c] > dev.answers[c]}
           IN  /\ dev'.answers = [c \in Crtcs |-> IF c \in S THEN 1 ELSE dev.answers[c]]
               /\ \A c \in S : dev.answers[c] = 0 /\ posted'[c] # "none"
<1> DEFINE S == {c \in Crtcs : dev'.answers[c] > dev.answers[c]}
<1>1. dev'.answers \in [Crtcs -> Nat]
    BY DEF KmsInv, TypeOK, DeviceType
<1>2. ASSUME NEW c \in Crtcs
      PROVE  /\ dev'.answers[c] = IF c \in S THEN 1 ELSE dev.answers[c]
             /\ c \in S => dev.answers[c] = 0 /\ posted'[c] # "none"
  <2>1. dev.answers[c] \in {0, 1}
    BY SoundOnce
  <2>2. dev'.answers[c] \in {0, 1} /\ (dev'.answers[c] = 1 => posted'[c] = "posted")
    <3>1. dev' \in DeviceType /\ Safe(c)'
        BY DEF KmsInv, TypeOK
    <3>2. Count(dev', c) = Held(posted'[c] = "posted")
        BY <3>1 DEF Safe, Sound, Count
    <3> QED BY <3>1, <3>2, AnsweredOnce
  <2>3. dev'.answers[c] >= dev.answers[c]
    BY DEF Grows
  <2>4. (c \in S) <=> dev'.answers[c] > dev.answers[c]
    OBVIOUS
  <2> HIDE DEF S
  <2> QED BY <2>1, <2>2, <2>3, <2>4
<1> QED BY <1>1, <1>2

(* The KMS thread implements UpdateDelivery: every step of it is a post,   *)
(* some answers, a delivery, the loss of the views, or nothing.            *)
THEOREM KmsDeliversOnce == Spec => DeliversOnce
<1> DEFINE W == {c \in Crtcs : posted[c] # "none"}
<1>1. Init => Delivery!Init
    BY DEF Init, Delivery!Init
<1>2. KmsInv /\ KmsInv' /\ [Next]_vars => [Delivery!Next]_(Delivery!vars)
  <2> SUFFICES ASSUME KmsInv, KmsInv', [Next]_vars
               PROVE  Delivery!Next \/ UNCHANGED Delivery!vars
    OBVIOUS
  <2> DEFINE S == {c \in Crtcs : dev'.answers[c] > dev.answers[c]}
  <2>1. CASE UNCHANGED vars
    BY <2>1 DEF vars, mainVars, Delivery!vars
  <2>2. CASE Quiet
    <3>1. Delivery!Answered(S) /\ \A c \in S : dev.answers[c] = 0 /\ posted'[c] # "none"
        BY <2>2, AnswersGrow DEF Quiet, Delivery!Answered
    <3>2. W' = W
        BY <2>2 DEF Quiet
    <3>3. \A c \in S : c \in W
        BY <3>1, <3>2
    <3>4. S \in SUBSET Crtcs
        OBVIOUS
    <3> HIDE DEF S
    <3>5. Delivery!Answer(S)
        BY <3>1, <3>2, <3>3 DEF Delivery!Answer
    <3> QED BY <3>4, <3>5 DEF Delivery!Next
  <2>3. ASSUME NEW c \in Crtcs, Posts(c) PROVE Delivery!Next
    <3>1. Delivery!Answered(S) /\ \A x \in S : dev.answers[x] = 0 /\ posted'[x] # "none"
        BY <2>3, AnswersGrow DEF Posts, Delivery!Answered
    <3>2. W' = W \cup {c} /\ c \notin W
        BY <2>3 DEF Posts
    <3>3. S \in SUBSET {x \in W' : dev.answers[x] = 0}
        BY <3>1
    <3> HIDE DEF S
    <3>4. Delivery!Post(c)
        BY <3>1, <3>2, <3>3 DEF Delivery!Post
    <3> QED BY <3>4 DEF Delivery!Next
  <2>4. ASSUME NEW c \in Crtcs, AnswerFrame(c) PROVE Delivery!Next
    <3>1. dev.answers[c] > 0 /\ dev.answers[c] \in {0, 1}
        BY <2>4, SoundOnce DEF AnswerFrame
    <3>2. dev.answers[c] = 1 /\ dev.answers[c] - 1 = 0
        BY <3>1
    <3>3. posted' = [posted EXCEPT ![c] = "none"] /\ dev' = [dev EXCEPT !.answers[c] = @ - 1]
        BY <2>4 DEF AnswerFrame
    <3>4. W' = W \ {c}
        BY <3>3 DEF KmsInv, TypeOK
    <3>5. dev'.answers = [dev.answers EXCEPT ![c] = 0]
        BY <3>2, <3>3 DEF KmsInv, TypeOK, DeviceType
    <3>6. Delivery!Deliver(c)
        BY <3>2, <3>4, <3>5 DEF Delivery!Deliver
    <3> QED BY <3>6 DEF Delivery!Next
  <2>5. CASE RebuildViews
    <3>1. W' = {}
        BY <2>5, SMTT(40) DEF RebuildViews
    <3>2. dev'.answers = [c \in Crtcs |-> 0]
        BY <2>5 DEF RebuildViews, Polled, KmsInv, TypeOK, DeviceType
    <3> QED BY <3>1, <3>2 DEF Delivery!Next, Delivery!Forget
  <2> QED BY <2>1, <2>2, <2>3, <2>4, <2>5, StepKeeps
<1> QED BY <1>1, <1>2, KmsInvariant, PTL DEF Spec, DeliversOnce, Delivery!Spec

-----------------------------------------------------------------------------
(* Updates held back.                                                      *)

(* An update, or a set of listeners, that somebody waits for, or did.      *)
Ours(u) == u \cap {"frame", "orphan"} # {}

(* The updates of a CrtcFrame: its onscreen has posted them one after the  *)
(* other, and the timer is for the pending one.                            *)
Waits(f, using) ==
    /\ f.armed <=> f.timer_set
    /\ f.timer_set => using
    /\ f.pending # Null => Ours(f.pending)
    /\ f.submitted # Null => Ours(f.submitted) /\ (using => f.source)
    /\ f.pending = Null \/ f.submitted = Null
    /\ f.pending # Null \/ f.submitted # Null => f.exists /\ ~f.await_flush

(* What is to be shown: a pending update has a flip or the timer coming.   *)
Driving(f) == f.pending # Null => f.pending_page_flip \/ f.timer_set

(* What that rests on. b is whether an orphan of c may be about, which ends *)
(* with the mode set its new view waits for.  A flip under way while no    *)
(* timer is used is that of a frame which its onscreen still waits for, so *)
(* that the onscreen posts no other that the flip would hold back.         *)
Prepared(d, c, b) ==
    /\ Waits(d.frame[c], is_using_deadline_timer(d))
    /\ c \notin d.active => ~d.frame[c].pending_page_flip /\ ~d.frame[c].timer_set
    /\ d.listeners[c] # {} => d.kernel[c] = "flipping" \/ c \in d.events
    /\ "orphan" \in d.frame[c].pending \/ "orphan" \in d.frame[c].submitted => b
    /\ d.frame[c].pending_page_flip /\ "orphan" \in d.listeners[c] => b
    /\ d.frame[c].pending_page_flip /\ ~is_using_deadline_timer(d) =>
          /\ d.frame[c].pending = Null /\ d.frame[c].submitted = Null
          /\ <<"flipped", c>> \in d.callbacks \/ Ours(d.listeners[c])

(* The CRTC c holds no update back for nothing.                            *)
Drives(d, c, b) ==
    /\ Prepared(d, c, b)
    /\ Driving(d.frame[c])

(* An update that was processed does not wait any more.                    *)
LEMMA ProcessedDrives ==
    ASSUME NEW d \in DeviceType, NEW e, NEW c \in Crtcs, NEW w \in SUBSET Items,
           NEW b \in BOOLEAN,
           master \in BOOLEAN, Free(d, c), Processed(d, e, c, w),
           Waits(d.frame[c], is_using_deadline_timer(d)),
           c \notin d.active => ~d.frame[c].timer_set,
           d.listeners[c] # {} => d.kernel[c] = "flipping" \/ c \in d.events,
           "orphan" \in w \/ "orphan" \in d.frame[c].submitted => b,
           is_using_deadline_timer(d) \/ (d.frame[c].submitted = Null /\ Ours(w))
    PROVE  Drives(e, c, b) /\ e.frame[c].pending = Null
<1>1. /\ e \in DeviceType /\ e.active = d.active /\ e.events = d.events
      /\ is_using_deadline_timer(e) = is_using_deadline_timer(d)
      /\ Rest(d.frame[c], e.frame[c])
      /\ (Answers(d, e, c, w) \/ Commits(d, e, c, w))
    BY DEF Processed, Apart, is_using_deadline_timer
<1>2. e.frame[c].pending = Null /\ e.frame[c].submitted = d.frame[c].submitted
    BY <1>1 DEF Rest
<1>3. d.frame[c] \in CrtcFrame /\ e.frame[c] \in CrtcFrame
    BY <1>1, FrameIsFrame
<1>4. Waits(e.frame[c], is_using_deadline_timer(e))
    BY <1>1, <1>2, <1>3 DEF Waits, Rest, Null, CrtcFrame
<1>5. e.frame[c].timer_set => d.frame[c].timer_set
    BY <1>1, <1>3 DEF Rest, CrtcFrame
<1>6. "orphan" \notin e.frame[c].pending
    BY <1>2 DEF Null
<1>7. CASE Answers(d, e, c, w)
  <2>1. ~e.frame[c].pending_page_flip /\ e.listeners = d.listeners /\ e.kernel = d.kernel
    BY <1>7 DEF Answers
  <2> QED BY <1>1, <1>2, <1>4, <1>5, <1>6, <2>1 DEF Drives, Prepared, Driving
<1>8. CASE Commits(d, e, c, w)
  <2>1. /\ e.frame[c].pending_page_flip /\ e.kernel[c] = "flipping"
        /\ c \in d.active /\ master /\ d.kernel[c] = "idle"
        /\ e.listeners[c] = d.listeners[c] \cup {"impl"} \cup (w \cap {"frame", "orphan"})
    BY <1>8 DEF Commits, CanCommit
  <2>2. d.listeners[c] = {}
    BY <2>1 DEF Free, Expected
  <2>3. "orphan" \in e.listeners[c] => "orphan" \in w
    BY <2>1, <2>2
  <2>4. Ours(w) => Ours(e.listeners[c])
    BY <2>1 DEF Ours
  <2> QED BY <1>1, <1>2, <1>4, <1>5, <1>6, <2>1, <2>3, <2>4 DEF Drives, Prepared, Driving
<1> QED BY <1>1, <1>2, <1>7, <1>8

(* The timer is used or not by the state it is in.                         *)
LEMMA SameUsing ==
    ASSUME NEW d, NEW e, e.timer_state = d.timer_state
    PROVE  is_using_deadline_timer(e) = is_using_deadline_timer(d)
BY DEF is_using_deadline_timer

(* A change of the CrtcFrame alone.                                        *)
LEMMA FrameDrives ==
    ASSUME NEW d, NEW e, NEW c \in Crtcs, NEW b \in BOOLEAN, Prepared(d, c, b), OnlyFrame(d, e, c),
           Waits(e.frame[c], is_using_deadline_timer(e)),
           e.frame[c].timer_set => d.frame[c].timer_set \/ c \in d.active,
           e.frame[c].pending_page_flip => d.frame[c].pending_page_flip /\ e.timer_state = d.timer_state,
           "orphan" \in e.frame[c].pending => b, "orphan" \in e.frame[c].submitted => b,
           e.frame[c].pending_page_flip /\ ~is_using_deadline_timer(e) =>
               e.frame[c].pending = Null /\ e.frame[c].submitted = Null
    PROVE  Prepared(e, c, b)
<1>1. /\ e.active = d.active /\ e.listeners = d.listeners /\ e.kernel = d.kernel
      /\ e.events = d.events /\ e.callbacks = d.callbacks
    BY DEF OnlyFrame
<1>2. e.frame[c].pending_page_flip =>
         is_using_deadline_timer(e) = is_using_deadline_timer(d) /\ d.frame[c].pending_page_flip
    BY SameUsing
<1> QED BY <1>1, <1>2 DEF Prepared

(* meta_kms_impl_device_update_ready commits the update, or holds it for the *)
(* flip or the timer.                                                      *)
LEMMA ReadyDrives ==
    ASSUME NEW d, NEW c \in Crtcs, NEW n \in {0, 1}, NEW ok \in BOOLEAN, master \in BOOLEAN,
           NEW dl \in {"ok", "error", "denied"}, Sound(d, c, n), Steady(d, c),
           NEW b \in BOOLEAN, Prepared(d, c, b), d.frame[c].pending = Null, d.frame[c].submitted # Null
    PROVE  Drives(update_ready(d, c, ok, dl), c, b)
<1> DEFINE f == d.frame[c]
           u == f.submitted
           f1 == [f EXCEPT !.submitted = Null]
           d1 == [d EXCEPT !.frame[c] = f1]
           f2 == [f EXCEPT !.submitted = Null, !.pending = u]
           d2 == queue_update(d1, c, u)
           d3 == ensure_deadline_timer_armed(d2, c, dl)
           e == update_ready(d, c, ok, dl)
           using == is_using_deadline_timer(d)
<1>1. d \in DeviceType /\ Timed(f) /\ f \in CrtcFrame /\ u \in SUBSET Items
    BY FrameIsFrame DEF Sound, CrtcFrame
<1>2. /\ Waits(f, using) /\ Ours(u) /\ (using => f.source) /\ f.exists /\ ~f.await_flush
      /\ ("orphan" \in u => b) /\ (f.pending_page_flip => using)
    BY DEF Prepared, Waits
<1>3. /\ f1 \in CrtcFrame /\ f1.pending = Null /\ f1.submitted = Null
      /\ f1.pending_page_flip = f.pending_page_flip /\ f1.timer_set = f.timer_set
      /\ f1.armed = f.armed
    BY <1>1 DEF CrtcFrame, Null
<1>4. /\ f2 \in CrtcFrame /\ f2.pending = u /\ f2.submitted = Null
      /\ f2.pending_page_flip = f.pending_page_flip /\ f2.timer_set = f.timer_set
      /\ f2.armed = f.armed /\ f2.source = f.source /\ f2.exists = f.exists
      /\ f2.await_flush = f.await_flush
    BY <1>1 DEF CrtcFrame, Null
<1>5. f2 = [f1 EXCEPT !.pending = @ \cup u]
    BY <1>1, <1>3 DEF CrtcFrame, Null
<1>6. \/ f.pending_page_flip /\ e = d2
      \/ ~f.pending_page_flip /\ e = do_process_update(d1, c, u, ok)
      \/ ~f.pending_page_flip /\ using /\ DeadlineArmed(d2, c, dl) /\ e = d3
      \/ /\ ~f.pending_page_flip /\ using /\ ~DeadlineArmed(d2, c, dl)
         /\ e = do_process_update(d3, c, Null, ok)
    BY DEF update_ready
<1> HIDE DEF e, f1, f2
<1>7. Reframed(d, d1, c, f1)
    BY <1>1, <1>3, FrameChanged
<1>8. Reframed(d, d2, c, f2)
  <2>1. d1.frame[c] = f1 /\ d1 \in DeviceType
    BY <1>7 DEF Reframed, OnlyFrame
  <2>2. d2 = [d1 EXCEPT !.frame[c] = [d1.frame[c] EXCEPT !.pending = @ \cup u]]
    BY DEF queue_update
  <2> HIDE DEF d1, d2, u
  <2>3. d2 = [d1 EXCEPT !.frame[c] = f2]
    BY <1>5, <2>1, <2>2
  <2>4. Reframed(d1, d2, c, f2)
    BY <1>4, <2>1, <2>3, FrameChanged
  <2> QED BY <1>7, <2>4, FrameTransitive
<1> HIDE DEF d1, d2
<1>9. /\ OnlyFrame(d, d1, c) /\ d1.frame[c] = f1 /\ OnlyFrame(d, d2, c) /\ d2.frame[c] = f2
      /\ is_using_deadline_timer(d1) = using /\ is_using_deadline_timer(d2) = using
    BY <1>7, <1>8, SameUsing DEF Reframed
<1>10. Waits(f2, using)
    BY <1>2, <1>4 DEF Waits
<1> DEFINE listed == d.listeners[c] # {} => d.kernel[c] = "flipping" \/ c \in d.events
           lit == c \notin d.active => ~f.pending_page_flip /\ ~f.timer_set
<1>11. listed /\ lit
    BY DEF Prepared
<1>12. CASE f.pending_page_flip /\ e = d2
  <2>1. d2.timer_state = d.timer_state
    BY <1>8 DEF Reframed
  <2>2. Prepared(d2, c, b)
    <3> HIDE DEF f, u, using
    <3>1. Waits(d2.frame[c], is_using_deadline_timer(d2))
        BY <1>9, <1>10
    <3>2. d2.frame[c].timer_set => d.frame[c].timer_set
        BY <1>4, <1>9 DEF f
    <3>3. d2.frame[c].pending_page_flip => d.frame[c].pending_page_flip /\ d2.timer_state = d.timer_state
        BY <1>4, <1>9, <2>1 DEF f
    <3>4. ("orphan" \in d2.frame[c].pending => b) /\ ("orphan" \in d2.frame[c].submitted => b)
        BY <1>2, <1>4, <1>9 DEF Null
    <3>5. is_using_deadline_timer(d2)
        BY <1>2, <1>9, <1>12
    <3> QED BY <1>9, <3>1, <3>2, <3>3, <3>4, <3>5, FrameDrives
  <2>3. Driving(d2.frame[c])
    BY <1>4, <1>9, <1>12 DEF Driving
  <2> QED BY <1>12, <2>2, <2>3 DEF Drives, e
<1>13. CASE ~f.pending_page_flip /\ e = do_process_update(d1, c, u, ok)
  <2>1. Free(d, c)
    BY <1>13, SteadyFree
  <2>2. d1 \in DeviceType /\ Free(d1, c)
    BY <1>3, <1>9, <2>1 DEF OnlyFrame, Free, Expected
  <2>3. u \cup f1.pending = u
    BY <1>3 DEF Null
  <2>4. Processed(d1, e, c, u)
    BY <1>1, <1>9, <1>13, <2>2, <2>3, UpdateProcessed
  <2>5. Waits(f1, using)
    BY <1>2, <1>3 DEF Waits
  <2>6. /\ d1.active = d.active /\ d1.listeners = d.listeners /\ d1.kernel = d.kernel
        /\ d1.events = d.events
    BY <1>9 DEF OnlyFrame
  <2>7. "orphan" \notin d1.frame[c].submitted
    BY <1>3, <1>9 DEF Null
  <2>8. d1.frame[c].submitted = Null /\ (d1.frame[c].timer_set <=> f.timer_set)
    BY <1>3, <1>9
  <2>9. Waits(d1.frame[c], is_using_deadline_timer(d1))
    BY <1>9, <2>5
  <2>10. /\ c \notin d1.active => ~d1.frame[c].timer_set
         /\ d1.listeners[c] # {} => d1.kernel[c] = "flipping" \/ c \in d1.events
         /\ "orphan" \in u \/ "orphan" \in d1.frame[c].submitted => b
         /\ d1.frame[c].submitted = Null /\ Ours(u) /\ u \in SUBSET Items
    BY <1>1, <1>2, <1>11, <2>6, <2>7, <2>8
  <2> HIDE DEF using, f, u, e
  <2>11. Drives(e, c, b)
    BY <2>2, <2>4, <2>9, <2>10, ProcessedDrives
  <2> QED BY <2>11 DEF e
<1>14. CASE /\ ~f.pending_page_flip /\ using
            /\ \/ DeadlineArmed(d2, c, dl) /\ e = d3
               \/ ~DeadlineArmed(d2, c, dl) /\ e = do_process_update(d3, c, Null, ok)
  <2>1. d2 \in DeviceType
    BY <1>9 DEF OnlyFrame
  <2>2. Deadlined(d2, d3, c, dl)
    BY <2>1, DeadlineReframes
  <2> HIDE DEF d3
  <2>3. DeadlineArmed(d2, c, dl) <=> f2.armed \/ (c \in d.active /\ dl = "ok")
    BY <1>9 DEF DeadlineArmed, OnlyFrame
  <2>4. /\ OnlyFrame(d2, d3, c)
        /\ d3.frame[c] = IF ~f2.armed /\ c \in d.active /\ dl = "ok" THEN Armed(f2) ELSE f2
        /\ d3.timer_state # d2.timer_state => ~f2.armed /\ dl # "ok"
    BY <1>9, <2>2 DEF Deadlined, OnlyFrame
  <2>5. OnlyFrame(d, d3, c) /\ d3 \in DeviceType
    BY <1>9, <2>4, OnlyFrameTransitive DEF OnlyFrame
  <2>6. CASE DeadlineArmed(d2, c, dl) /\ e = d3
    <3>1. d3.timer_state = d2.timer_state /\ is_using_deadline_timer(d3) = using
        BY <1>9, <2>3, <2>4, <2>6, SameUsing
    <3>2. f2.source
        BY <1>2, <1>4, <1>14
    <3>3. /\ d3.frame[c].timer_set /\ d3.frame[c].armed
          /\ d3.frame[c].pending = u /\ d3.frame[c].submitted = Null
          /\ d3.frame[c].pending_page_flip = f.pending_page_flip
          /\ d3.frame[c].source = f.source /\ d3.frame[c].exists = f.exists
          /\ d3.frame[c].await_flush = f.await_flush
        BY <1>2, <1>4, <2>3, <2>4, <2>6, <3>2 DEF Armed, CrtcFrame, Waits
    <3>4. Waits(d3.frame[c], using)
        BY <1>2, <1>14, <3>3 DEF Waits
    <3>5. d3.frame[c].timer_set => d.frame[c].timer_set \/ c \in d.active
        BY <1>4, <2>3, <2>4, <2>6, <1>2 DEF Waits
    <3>6. ("orphan" \in d3.frame[c].pending => b) /\ ("orphan" \in d3.frame[c].submitted => b)
        BY <1>2, <3>3 DEF Null
    <3>7. ~d3.frame[c].pending_page_flip
        BY <1>14, <3>3
    <3> HIDE DEF f, u, using
    <3>8. Prepared(d3, c, b)
        BY <2>5, <3>1, <3>4, <3>5, <3>6, <3>7, FrameDrives
    <3> QED BY <2>6, <3>3, <3>8 DEF Drives, Driving, e
  <2>7. CASE ~DeadlineArmed(d2, c, dl) /\ e = do_process_update(d3, c, Null, ok)
    <3>1. d3.frame[c] = f2 /\ ~f2.armed /\ ~f2.timer_set
        BY <1>2, <1>4, <2>3, <2>4, <2>7 DEF Waits
    <3>2. Free(d, c)
        BY <1>14, SteadyFree
    <3>3. Free(d3, c)
        BY <1>4, <1>14, <2>5, <3>1, <3>2 DEF OnlyFrame, Free, Expected
    <3>4. Null \in SUBSET Items /\ Null \cup d3.frame[c].pending = u
        BY <1>4, <3>1 DEF Null
    <3>5. Processed(d3, e, c, u)
        BY <2>5, <2>7, <3>3, <3>4, UpdateProcessed
    <3>6. Waits(d3.frame[c], is_using_deadline_timer(d3))
        BY <1>2, <1>4, <3>1 DEF Waits
    <3>7. /\ d3.active = d.active /\ d3.listeners = d.listeners /\ d3.kernel = d.kernel
          /\ d3.events = d.events
        BY <2>5 DEF OnlyFrame
    <3>8. d3.frame[c].submitted = Null /\ ~d3.frame[c].timer_set
        BY <1>4, <3>1
    <3>9. "orphan" \notin d3.frame[c].submitted
        BY <3>8 DEF Null
    <3>10. /\ c \notin d3.active => ~d3.frame[c].timer_set
           /\ d3.listeners[c] # {} => d3.kernel[c] = "flipping" \/ c \in d3.events
           /\ "orphan" \in u \/ "orphan" \in d3.frame[c].submitted => b
           /\ d3.frame[c].submitted = Null /\ Ours(u) /\ u \in SUBSET Items
        BY <1>1, <1>2, <1>11, <3>7, <3>8, <3>9
    <3> HIDE DEF using, f, u, e
    <3>11. Drives(e, c, b)
        BY <2>5, <3>3, <3>5, <3>6, <3>10, ProcessedDrives
    <3> QED BY <3>11 DEF e
  <2> QED BY <1>14, <2>6, <2>7
<1> QED BY <1>6, <1>12, <1>13, <1>14

(* ensure_crtc_frame, even when it takes the timer away.                   *)
LEMMA EnsureDrives ==
    ASSUME NEW d \in DeviceType, NEW c \in Crtcs, NEW b \in BOOLEAN, Prepared(d, c, b)
    PROVE  LET e == ensure_crtc_frame(d, c) IN
           /\ Prepared(e, c, b) /\ OnlyFrame(d, e, c)
           /\ is_using_deadline_timer(e) = is_using_deadline_timer(d)
           /\ e.frame[c] \in CrtcFrame /\ e.frame[c].exists
           /\ e.frame[c].source = is_using_deadline_timer(d)
           /\ e.frame[c].armed = d.frame[c].armed /\ e.frame[c].timer_set = d.frame[c].timer_set
           /\ e.frame[c].pending = d.frame[c].pending /\ e.frame[c].submitted = d.frame[c].submitted
           /\ e.frame[c].pending_page_flip = d.frame[c].pending_page_flip
<1> DEFINE e == ensure_crtc_frame(d, c)
           using == is_using_deadline_timer(d)
           lit == c \in d.active
           f == d.frame[c]
           g == Ensured(f, using, lit)
<1>1. using \in BOOLEAN /\ lit \in BOOLEAN /\ f \in CrtcFrame
    BY DeviceAssumption, FrameIsFrame DEF is_using_deadline_timer
<1>2. Reframed(d, e, c, g)
    BY EnsureReframes
<1>3. Waits(f, using)
    BY DEF Prepared
<1> HIDE DEF e
<1>4. OnlyFrame(d, e, c) /\ e.frame[c] = g /\ e.timer_state = d.timer_state
    BY <1>2 DEF Reframed
<1>5. is_using_deadline_timer(e) = using
    BY <1>4, SameUsing
<1> HIDE DEF using, lit
<1>6. /\ g \in CrtcFrame /\ g.exists /\ g.source = using
      /\ g.armed = f.armed /\ (g.timer_set <=> f.timer_set /\ using)
      /\ g.pending = f.pending /\ g.submitted = f.submitted
      /\ g.pending_page_flip = f.pending_page_flip
      /\ (f.exists => g.await_flush = f.await_flush)
  <2>1. g \in CrtcFrame
    BY <1>1, TimerFrames
  <2> HIDE DEF f
  <2>2. /\ g.exists /\ g.source = using /\ g.armed = f.armed
        /\ g.pending = f.pending /\ g.submitted = f.submitted
        /\ g.pending_page_flip = f.pending_page_flip
    BY <1>1 DEF Ensured, CrtcFrame
  <2>3. g.timer_set <=> f.timer_set /\ using
    BY <1>1 DEF Ensured, CrtcFrame
  <2>4. f.exists => g.await_flush = f.await_flush
    BY <1>1 DEF Ensured, CrtcFrame
  <2> QED BY <2>1, <2>2, <2>3, <2>4
<1> HIDE DEF g
<1>7. g.timer_set = f.timer_set
    BY <1>1, <1>3, <1>6 DEF Waits, CrtcFrame
<1>8. Waits(g, using)
    BY <1>3, <1>6, <1>7 DEF Waits
<1>9. /\ "orphan" \in f.pending => b
      /\ "orphan" \in f.submitted => b
      /\ f.pending_page_flip /\ ~using => f.pending = Null /\ f.submitted = Null
    BY DEF Prepared, using
<1>10. Prepared(e, c, b)
    BY <1>4, <1>5, <1>6, <1>7, <1>8, <1>9, FrameDrives
<1> QED BY <1>4, <1>5, <1>6, <1>7, <1>10 DEF e, using

(* Asking for a flush changes no update.                                   *)
LEMMA NeedsFlushDrives ==
    ASSUME NEW d \in DeviceType, NEW c \in Crtcs, NEW b \in BOOLEAN, Drives(d, c, b)
    PROVE  Drives(set_needs_flush(d, c), c, b)
<1> DEFINE e == set_needs_flush(d, c)
<1>1. /\ e.frame = d.frame /\ e.timer_state = d.timer_state /\ e.active = d.active
      /\ e.listeners = d.listeners /\ e.kernel = d.kernel
      /\ e.events = d.events /\ e.callbacks = d.callbacks
    BY DEF set_needs_flush, DeviceType
<1> HIDE DEF e
<1>2. is_using_deadline_timer(e) = is_using_deadline_timer(d)
    BY <1>1, SameUsing
<1>3. Drives(e, c, b)
    BY <1>1, <1>2 DEF Drives, Prepared
<1> QED BY <1>3 DEF e

(* The timer is armed, or the update has to go now.                        *)
LEMMA TimerDrives ==
    ASSUME NEW d \in DeviceType, NEW c \in Crtcs, NEW b \in BOOLEAN, Prepared(d, c, b),
           NEW dl \in {"ok", "error", "denied"}, ~d.frame[c].pending_page_flip,
           is_using_deadline_timer(d), d.frame[c].source
    PROVE  LET e == ensure_deadline_timer_armed(d, c, dl) IN
           /\ Prepared(e, c, b) /\ OnlyFrame(d, e, c)
           /\ DeadlineArmed(d, c, dl) => e.frame[c].timer_set
           /\ ~DeadlineArmed(d, c, dl) => e.frame[c] = d.frame[c] /\ ~e.frame[c].timer_set
           /\ e.frame[c].pending = d.frame[c].pending /\ e.frame[c].submitted = d.frame[c].submitted
           /\ ~e.frame[c].pending_page_flip
<1> DEFINE e == ensure_deadline_timer_armed(d, c, dl)
           f == d.frame[c]
<1>1. f \in CrtcFrame /\ Waits(f, TRUE) /\ Waits(f, is_using_deadline_timer(d))
    BY FrameIsFrame DEF Prepared, Waits
<1>2. Deadlined(d, e, c, dl)
    BY DeadlineReframes
<1> HIDE DEF e
<1>3. DeadlineArmed(d, c, dl) <=> f.armed \/ (c \in d.active /\ dl = "ok")
    BY DEF DeadlineArmed
<1>4. /\ OnlyFrame(d, e, c)
      /\ e.frame[c] = IF ~f.armed /\ c \in d.active /\ dl = "ok" THEN Armed(f) ELSE f
      /\ e.timer_state # d.timer_state => ~f.armed /\ dl # "ok"
    BY <1>2 DEF Deadlined
<1>5. "orphan" \in f.pending => b
    BY DEF Prepared
<1>6. "orphan" \in f.submitted => b
    BY DEF Prepared
<1>7. CASE f.armed \/ (c \in d.active /\ dl = "ok")
  <2>1. is_using_deadline_timer(e)
    BY <1>4, <1>7, SameUsing
  <2>2. /\ e.frame[c].timer_set /\ e.frame[c].armed
        /\ e.frame[c].pending = f.pending /\ e.frame[c].submitted = f.submitted
        /\ ~e.frame[c].pending_page_flip
        /\ e.frame[c].source /\ e.frame[c].exists = f.exists
        /\ e.frame[c].await_flush = f.await_flush
    BY <1>1, <1>4, <1>7 DEF Armed, CrtcFrame, Waits
  <2>3. Waits(e.frame[c], is_using_deadline_timer(e))
    BY <1>1, <2>1, <2>2 DEF Waits
  <2>4. e.frame[c].timer_set => f.timer_set \/ c \in d.active
    BY <1>1, <1>7 DEF Waits
  <2>5. Prepared(e, c, b)
    BY <1>4, <1>5, <1>6, <2>2, <2>3, <2>4, FrameDrives
  <2> QED BY <1>3, <1>4, <1>7, <2>2, <2>5 DEF e
<1>8. CASE ~(f.armed \/ (c \in d.active /\ dl = "ok"))
  <2>1. e.frame[c] = f /\ ~f.timer_set
    BY <1>1, <1>4, <1>8 DEF Waits
  <2>2. Waits(e.frame[c], is_using_deadline_timer(e))
    BY <1>1, <2>1 DEF Waits
  <2>3. Prepared(e, c, b)
    BY <1>4, <1>5, <1>6, <2>1, <2>2, FrameDrives
  <2> QED BY <1>3, <1>4, <1>8, <2>1, <2>3 DEF e
<1> QED BY <1>7, <1>8

(* meta_kms_impl_device_schedule_process, with a pending update that has no *)
(* flip any more.                                                          *)
LEMMA ScheduleDrives ==
    ASSUME NEW d, NEW c \in Crtcs, NEW n \in {0, 1}, NEW ok \in BOOLEAN, master \in BOOLEAN,
           NEW dl \in {"ok", "error", "denied"}, Sound(d, c, n), Steady(d, c),
           NEW b \in BOOLEAN, Prepared(d, c, b),
           d.frame[c].pending # Null =>
               d.frame[c].timer_set \/ d.frame[c].pending_page_flip \/ is_using_deadline_timer(d)
    PROVE  Drives(schedule_process(d, c, ok, dl), c, b)
<1> DEFINE d1 == ensure_crtc_frame(d, c)
           d2 == ensure_deadline_timer_armed(d1, c, dl)
           d3 == do_process_update(d2, c, Null, ok)
           e == schedule_process(d, c, ok, dl)
           using == is_using_deadline_timer(d)
<1>1. d \in DeviceType
    BY DEF Sound
<1>2. Sound(d1, c, n) /\ Steady(d1, c)
    BY EnsureSound
<1>3. /\ Prepared(d1, c, b) /\ is_using_deadline_timer(d1) = using /\ d1.frame[c] \in CrtcFrame
      /\ d1.frame[c].source = using
      /\ d1.frame[c].pending = d.frame[c].pending
      /\ d1.frame[c].timer_set = d.frame[c].timer_set
      /\ d1.frame[c].pending_page_flip = d.frame[c].pending_page_flip
    BY <1>1, EnsureDrives
<1>4. \/ d1.frame[c].await_flush /\ e = d1
      \/ ~is_using_deadline_timer(d1) /\ e = set_needs_flush(d1, c)
      \/ d1.frame[c].pending_page_flip /\ e = d1
      \/ /\ ~d1.frame[c].pending_page_flip /\ is_using_deadline_timer(d1)
         /\ \/ DeadlineArmed(d1, c, dl) /\ e = d2
            \/ ~DeadlineArmed(d1, c, dl) /\ d1.frame[c].pending = Null /\ e = set_needs_flush(d2, c)
            \/ ~DeadlineArmed(d1, c, dl) /\ d1.frame[c].pending # Null /\ e = set_needs_flush(d3, c)
    BY DEF schedule_process
<1> HIDE DEF d1, e
<1>5. d1 \in DeviceType /\ Waits(d1.frame[c], using)
    BY <1>2, <1>3 DEF Sound, Prepared
<1>6. CASE d1.frame[c].await_flush /\ e = d1
  <2>1. d1.frame[c].pending = Null
    BY <1>5, <1>6 DEF Waits
  <2> QED BY <1>3, <1>6, <2>1 DEF Drives, Driving, e
<1>7. CASE ~is_using_deadline_timer(d1) /\ e = set_needs_flush(d1, c)
  <2>1. ~d1.frame[c].timer_set
    BY <1>3, <1>5, <1>7 DEF Waits
  <2>2. Drives(d1, c, b)
    BY <1>3, <1>7, <2>1 DEF Drives, Driving
  <2> QED BY <1>5, <1>7, <2>2, NeedsFlushDrives DEF e
<1>8. CASE d1.frame[c].pending_page_flip /\ e = d1
    BY <1>3, <1>8 DEF Drives, Driving, e
<1>9. CASE ~d1.frame[c].pending_page_flip /\ is_using_deadline_timer(d1)
  <2>1. /\ Prepared(d2, c, b) /\ OnlyFrame(d1, d2, c)
        /\ DeadlineArmed(d1, c, dl) => d2.frame[c].timer_set
        /\ ~DeadlineArmed(d1, c, dl) => d2.frame[c] = d1.frame[c] /\ ~d2.frame[c].timer_set
        /\ d2.frame[c].pending = d1.frame[c].pending
        /\ ~d2.frame[c].pending_page_flip
    BY <1>3, <1>5, <1>9, TimerDrives, ZenonT(60)
  <2>2. Sound(d2, c, n) /\ Steady(d2, c)
    BY <1>2, <1>9, DeadlineSound
  <2> HIDE DEF d2
  <2>3. d2 \in DeviceType
    BY <2>2 DEF Sound
  <2>4. CASE DeadlineArmed(d1, c, dl) /\ e = d2
    BY <2>1, <2>4 DEF Drives, Driving, e
  <2>5. CASE d1.frame[c].pending = Null /\ e = set_needs_flush(d2, c)
    <3>1. Drives(d2, c, b)
        BY <2>1, <2>5 DEF Drives, Driving
    <3> QED BY <2>3, <2>5, <3>1, NeedsFlushDrives DEF e
  <2>6. CASE /\ ~DeadlineArmed(d1, c, dl) /\ d1.frame[c].pending # Null
             /\ e = set_needs_flush(d3, c)
    <3> DEFINE w == d2.frame[c].pending
    <3>1. Free(d2, c)
        BY <2>1, <2>2, SteadyFree
    <3>2. Null \cup w = w /\ Null \in SUBSET Items /\ w \in SUBSET Items
        BY <2>3, FrameIsFrame DEF Null, CrtcFrame
    <3>3. Processed(d2, d3, c, w)
        BY <2>3, <3>1, <3>2, UpdateProcessed
    <3> HIDE DEF d3
    <3>4. /\ Waits(d2.frame[c], is_using_deadline_timer(d2))
          /\ c \notin d2.active => ~d2.frame[c].timer_set
          /\ d2.listeners[c] # {} => d2.kernel[c] = "flipping" \/ c \in d2.events
          /\ "orphan" \in w \/ "orphan" \in d2.frame[c].submitted => b
        BY <2>1 DEF Prepared
    <3>5. d2.frame[c].submitted = Null /\ Ours(w)
        BY <2>1, <2>6, <3>4 DEF Waits
    <3> HIDE DEF w
    <3>6. Drives(d3, c, b)
        BY <2>3, <3>1, <3>2, <3>3, <3>4, <3>5, ProcessedDrives
    <3>7. d3 \in DeviceType
        BY <3>3 DEF Processed, Apart
    <3> QED BY <2>6, <3>6, <3>7, NeedsFlushDrives DEF e
  <2> QED BY <1>4, <1>9, <1>6, <1>7, <1>8, <2>4, <2>5, <2>6
<1> QED BY <1>4, <1>6, <1>7, <1>8, <1>9

(* The deadline has passed.                                                *)
LEMMA DispatchDrives ==
    ASSUME NEW d, NEW c \in Crtcs, NEW n \in {0, 1}, NEW ok \in BOOLEAN, master \in BOOLEAN,
           Sound(d, c, n), d.frame[c].timer_set, NEW b \in BOOLEAN, Drives(d, c, b)
    PROVE  Drives(crtc_frame_deadline_dispatch(d, c, ok), c, b)
<1> DEFINE e == crtc_frame_deadline_dispatch(d, c, ok)
           w == d.frame[c].pending
<1>1. d \in DeviceType /\ ~d.frame[c].pending_page_flip
    BY DEF Sound, Timed
<1>2. Steady(d, c)
    BY DEF Sound, Timed, FlipOk, Idle, Steady
<1>3. Free(d, c)
    BY <1>1, <1>2, SteadyFree
<1>4. w \in SUBSET Items
    BY <1>1, FrameIsFrame DEF CrtcFrame
<1>5. Processed(d, e, c, w)
    BY <1>1, <1>3, DispatchProcessed
<1> HIDE DEF e
<1>6. /\ Waits(d.frame[c], is_using_deadline_timer(d))
      /\ c \notin d.active => ~d.frame[c].timer_set
      /\ d.listeners[c] # {} => d.kernel[c] = "flipping" \/ c \in d.events
      /\ "orphan" \in w \/ "orphan" \in d.frame[c].submitted => b
    BY DEF Drives, Prepared
<1>7. is_using_deadline_timer(d)
    BY <1>6 DEF Waits
<1> HIDE DEF w
<1>8. Drives(e, c, b)
    BY <1>1, <1>3, <1>4, <1>5, <1>6, <1>7, ProcessedDrives
<1> QED BY <1>8 DEF e

(* A frame of an onscreen, once the ones before it are gone.               *)
LEMMA HandleDrives ==
    ASSUME NEW d, NEW c \in Crtcs, NEW u \in SUBSET Items, NEW ready \in BOOLEAN,
           NEW ok \in BOOLEAN, master \in BOOLEAN, NEW dl \in {"ok", "error", "denied"},
           "frame" \in u, "orphan" \notin u, Sound(d, c, 0), Steady(d, c),
           NEW b \in BOOLEAN, Drives(d, c, b), d.frame[c].pending = Null,
           d.frame[c].pending_page_flip => is_using_deadline_timer(d)
    PROVE  Drives(handle_update(d, c, u, ready, ok, dl), c, b)
<1> DEFINE d1 == ensure_crtc_frame(d, c)
           f2 == [d1.frame[c] EXCEPT !.await_flush = FALSE, !.submitted = u]
           d2 == [d1 EXCEPT !.frame[c] = f2]
           e == handle_update(d, c, u, ready, ok, dl)
           using == is_using_deadline_timer(d)
<1>1. d \in DeviceType /\ Prepared(d, c, b)
    BY DEF Sound, Drives
<1>2. Sound(d1, c, 0) /\ Steady(d1, c)
    BY EnsureSound
<1>3. /\ Prepared(d1, c, b) /\ is_using_deadline_timer(d1) = using
      /\ d1.frame[c] \in CrtcFrame /\ d1.frame[c].source = using /\ d1.frame[c].exists
      /\ d1.frame[c].pending = Null
      /\ d1.frame[c].pending_page_flip = d.frame[c].pending_page_flip
    BY <1>1, EnsureDrives
<1>4. \/ e = Fail(d1, c, u)
      \/ d1.frame[c].submitted = Null /\ e \in {d2, update_ready(d2, c, ok, dl)}
  <2> HIDE DEF d1
  <2>1. d2 = [d1 EXCEPT !.frame[c].await_flush = FALSE, !.frame[c].submitted = u]
    BY <1>2 DEF Sound, DeviceType
  <2> HIDE DEF d2
  <2> QED BY <2>1 DEF handle_update, d1
<1> HIDE DEF d1, e
<1>5. d1 \in DeviceType /\ Waits(d1.frame[c], using) /\ Timed(d1.frame[c])
    BY <1>2, <1>3 DEF Sound, Prepared
<1>6. CASE e = Fail(d1, c, u)
  <2>1. Stays(d1, e, c, u)
    BY <1>5, <1>6, FailStays
  <2>2. /\ e.frame[c] = d1.frame[c] /\ e.timer_state = d1.timer_state /\ e.active = d1.active
        /\ e.listeners = d1.listeners /\ e.kernel = d1.kernel
        /\ e.events = d1.events /\ e.callbacks = d1.callbacks
    BY <2>1 DEF Stays, Apart
  <2>3. is_using_deadline_timer(e) = is_using_deadline_timer(d1)
    BY <2>2, SameUsing
  <2> QED BY <1>3, <2>2, <2>3 DEF Drives, Prepared, Driving, e
<1>7. CASE d1.frame[c].submitted = Null /\ e \in {d2, update_ready(d2, c, ok, dl)}
  <2>1. /\ f2 \in CrtcFrame /\ f2.submitted = u /\ f2.pending = Null
        /\ f2.pending_page_flip = d1.frame[c].pending_page_flip /\ Timed(f2)
        /\ f2.armed = d1.frame[c].armed /\ f2.timer_set = d1.frame[c].timer_set
        /\ f2.source = using /\ f2.exists /\ ~f2.await_flush
    BY <1>3, <1>5 DEF CrtcFrame, Timed
  <2> HIDE DEF f2
  <2>2. Reframed(d1, d2, c, f2)
    BY <1>5, <2>1, FrameChanged
  <2> HIDE DEF d2
  <2>3. /\ OnlyFrame(d1, d2, c) /\ d2.frame[c] = f2 /\ d2.timer_state = d1.timer_state
        /\ is_using_deadline_timer(d2) = using
    BY <1>3, <2>2, SameUsing DEF Reframed
  <2>4. Ours(u) /\ u # Null
    BY DEF Ours, Null
  <2>5. Waits(f2, using)
    BY <1>5, <2>1, <2>4 DEF Waits
  <2>6. f2.pending_page_flip => using
    BY <1>3, <2>1
  <2>7. Prepared(d2, c, b)
    <3>1. /\ Waits(d2.frame[c], is_using_deadline_timer(d2))
          /\ d2.frame[c].timer_set => d1.frame[c].timer_set
          /\ d2.frame[c].pending_page_flip => d1.frame[c].pending_page_flip
          /\ "orphan" \notin d2.frame[c].pending /\ "orphan" \notin d2.frame[c].submitted
          /\ ~(d2.frame[c].pending_page_flip /\ ~is_using_deadline_timer(d2))
        BY <2>1, <2>3, <2>5, <2>6 DEF Null
    <3> QED BY <1>3, <2>3, <3>1, FrameDrives
  <2>8. Count(d2, c) = 1
    <3> DEFINE q == Held("frame" \in d1.frame[c].pending)
               l == Held("frame" \in d1.listeners[c])
               a == d1.answers[c]
    <3>1. 0 + q + l + a = 0 /\ q \in {0, 1} /\ l \in {0, 1} /\ a \in Nat
        BY <1>2, <1>5, <1>7, HeldType, HeldNull DEF Sound, Count, DeviceType
    <3>2. Count(d2, c) = 1 + q + l + a
      <4>1. Held("frame" \in u) = 1
        BY DEF Held
      <4> QED BY <1>3, <2>1, <2>3, <4>1 DEF OnlyFrame, Count
    <3> HIDE DEF q, l, a
    <3> QED BY <3>1, <3>2
  <2>9. Sound(d2, c, 1) /\ Steady(d2, c)
    BY <1>2, <2>1, <2>3, <2>8, FrameSoundAt
  <2>10. CASE e = d2
    BY <2>1, <2>3, <2>7, <2>10 DEF Drives, Driving, e
  <2>11. CASE e = update_ready(d2, c, ok, dl)
    <3>1. d2.frame[c].pending = Null /\ d2.frame[c].submitted # Null
        BY <2>1, <2>3, <2>4
    <3> QED BY <2>7, <2>9, <2>11, <3>1, ReadyDrives DEF e
  <2> QED BY <1>7, <2>10, <2>11
<1> QED BY <1>4, <1>6, <1>7

(* An orphan of c may be about.                                            *)
Away(c) == c \in fresh \/ posted[c] = "queued"

(* No two CRTCs share deadline timers that are in use: one that cannot read *)
(* its deadline stops those of the others.                                 *)
Alone == HighPriority => \A a, b \in Crtcs : a = b

(* The inductive invariant.                                                *)
Driven ==
    /\ ~power => dev.active = {}
    /\ fresh \subseteq mode_views /\ (fresh # {} => mode_set)
    /\ \A c \in Crtcs : Drives(dev, c, Away(c))

(* d and e agree on what drives the updates of c.                          *)
Alike(d, e, c) ==
    /\ e.frame[c] = d.frame[c] /\ e.listeners[c] = d.listeners[c] /\ e.kernel[c] = d.kernel[c]
    /\ is_using_deadline_timer(e) = is_using_deadline_timer(d)
    /\ c \in e.active <=> c \in d.active
    /\ c \in e.events <=> c \in d.events
    /\ <<"flipped", c>> \in e.callbacks <=> <<"flipped", c>> \in d.callbacks

(* What drives c in d does in e, when they agree on it.                    *)
LEMMA SameDrives ==
    ASSUME NEW d, NEW e, NEW c \in Crtcs, NEW b \in BOOLEAN, NEW h \in BOOLEAN,
           Drives(d, c, b), b => h, Alike(d, e, c)
    PROVE  Drives(e, c, h)
BY DEF Drives, Prepared, Alike

(* A step about one CRTC does not take away what drives another, ...       *)
LEMMA OthersDrive ==
    ASSUME Alone, NEW d, NEW e, NEW c \in Crtcs, NEW x \in Crtcs \ {c}, Apart(d, e, c),
           NEW b \in BOOLEAN, NEW h \in BOOLEAN, Drives(d, x, b), b => h
    PROVE  Drives(e, x, h)
<1>1. ~HighPriority
    BY DEF Alone
<1>2. is_using_deadline_timer(e) = is_using_deadline_timer(d)
    BY <1>1 DEF is_using_deadline_timer
<1>3. Alike(d, e, x)
    BY <1>2 DEF Apart, Alike
<1> QED BY <1>3, SameDrives

(* ... nor does polling.                                                   *)
LEMMA PolledDrives ==
    ASSUME NEW d \in DeviceType, NEW c \in Crtcs, NEW b \in BOOLEAN, Drives(d, c, b)
    PROVE  Drives(Polled(d), c, b)
<1>1. Alike(d, Polled(d), c)
    BY DEF Polled, DeviceType, Alike, is_using_deadline_timer
<1> QED BY <1>1, SameDrives

(* Away is a Boolean, now and then.                                        *)
LEMMA AwayType ==
    ASSUME NEW c PROVE Away(c) \in BOOLEAN /\ Away(c)' \in BOOLEAN
BY DEF Away

(* A step about one CRTC, taken from d.                                    *)
LEMMA StepDrives ==
    ASSUME Alone, NEW d \in DeviceType, NEW e, NEW c \in Crtcs,
           \A x \in Crtcs \ {c} : Drives(d, x, Away(x)),
           Drives(e, c, Away(c)'), Apart(d, e, c), dev' \in {e, Polled(e)},
           \A x \in Crtcs \ {c} : Away(x) => Away(x)',
           power' = power, ~power => d.active = {},
           fresh' \subseteq mode_views', fresh' # {} => mode_set'
    PROVE  Driven'
<1>1. e \in DeviceType /\ e.active = d.active
    BY DEF Apart
<1>2. dev'.active = d.active
    BY <1>1 DEF Polled, DeviceType
<1>3. ASSUME NEW x \in Crtcs PROVE Drives(e, x, Away(x)')
  <2>1. CASE x = c
    BY <2>1
  <2>2. CASE x # c
    BY <2>2, AwayType, OthersDrive
  <2> QED BY <2>1, <2>2
<1>4. ASSUME NEW x \in Crtcs PROVE Drives(dev', x, Away(x)')
    BY <1>1, <1>3, AwayType, PolledDrives
<1> QED BY <1>2, <1>4 DEF Driven

(* The steps, one by one.                                                  *)
LEMMA SyncFileReadyDrives ==
    ASSUME Alone, KmsInv, Driven, NEW c \in Crtcs, SyncFileReady(c)
    PROVE  Driven'
<1>1. PICK ok \in BOOLEAN, dl \in DeadlineResults : dev' = update_ready(dev, c, ok, dl)
    BY DEF SyncFileReady
<1>2. dl \in {"ok", "error", "denied"}
    BY DeadlineResultsType
<1> DEFINE n == Held(posted[c] = "posted")
           e == update_ready(dev, c, ok, dl)
           b == Away(c)
<1>3. Sound(dev, c, n) /\ n \in {0, 1} /\ dev \in DeviceType /\ master \in BOOLEAN
    BY HeldType DEF KmsInv, Safe, TypeOK
<1>4. Steady(dev, c)
    BY <1>3 DEF Sound, FlipOk, Idle, Steady, SyncFileReady
<1>5. /\ posted' = posted /\ mode_views' = mode_views
      /\ mode_set' = mode_set /\ fresh' = fresh /\ power' = power
    BY DEF SyncFileReady, mainVars
<1>6. \A x \in Crtcs : Away(x)' <=> Away(x)
    BY <1>5 DEF Away
<1>7. b \in BOOLEAN /\ (Away(c)' = b)
    BY <1>6, AwayType
<1>8. \A x \in Crtcs : Drives(dev, x, Away(x))
    BY DEF Driven
<1>9. /\ Prepared(dev, c, b)
      /\ dev.frame[c].submitted # Null /\ dev.frame[c].pending = Null
    BY <1>8 DEF Drives, Prepared, Waits, SyncFileReady
<1> HIDE DEF n, b
<1>10. Apart(dev, e, c)
    BY <1>2, <1>3, <1>4, ReadySound
<1>11. Drives(e, c, b)
    BY <1>2, <1>3, <1>4, <1>7, <1>9, ReadyDrives
<1> HIDE DEF e
<1>12. dev' = e
    BY <1>1 DEF e
<1> QED BY <1>3, <1>5, <1>6, <1>7, <1>8, <1>10, <1>11, <1>12, StepDrives DEF Driven

LEMMA DeadlineDispatchDrives ==
    ASSUME Alone, KmsInv, Driven, NEW c \in Crtcs, DeadlineDispatch(c)
    PROVE  Driven'
<1>1. PICK ok \in BOOLEAN : dev' = crtc_frame_deadline_dispatch(dev, c, ok)
    BY DEF DeadlineDispatch
<1> DEFINE n == Held(posted[c] = "posted")
           e == crtc_frame_deadline_dispatch(dev, c, ok)
           b == Away(c)
<1>3. /\ Sound(dev, c, n) /\ n \in {0, 1} /\ dev \in DeviceType /\ master \in BOOLEAN
      /\ dev.frame[c].timer_set
    BY HeldType DEF KmsInv, Safe, TypeOK, DeadlineDispatch
<1>5. /\ posted' = posted /\ mode_views' = mode_views
      /\ mode_set' = mode_set /\ fresh' = fresh /\ power' = power
    BY DEF DeadlineDispatch, mainVars
<1>6. \A x \in Crtcs : Away(x)' <=> Away(x)
    BY <1>5 DEF Away
<1>7. b \in BOOLEAN /\ (Away(c)' = b)
    BY <1>6, AwayType
<1>8. \A x \in Crtcs : Drives(dev, x, Away(x))
    BY DEF Driven
<1>9. Drives(dev, c, b)
    BY <1>8
<1> HIDE DEF n, b
<1>10. Apart(dev, e, c)
    BY <1>3, DispatchSound
<1>11. Drives(e, c, b)
    BY <1>3, <1>7, <1>9, DispatchDrives
<1> HIDE DEF e
<1>12. dev' = e
    BY <1>1 DEF e
<1> QED BY <1>3, <1>5, <1>6, <1>7, <1>8, <1>10, <1>11, <1>12, StepDrives DEF Driven

LEMMA CursorChangedDrives ==
    ASSUME Alone, KmsInv, Driven, NEW c \in Crtcs, CursorChanged(c)
    PROVE  Driven'
<1> DEFINE n == Held(posted[c] = "posted")
           b == Away(c)
           d == [dev EXCEPT !.cursor_invalidated = @ \cup {c}, !.cursor_stale = @ \cup {c}]
<1>1. PICK ok \in BOOLEAN, dl \in DeadlineResults : dev' = Polled(schedule_process(d, c, ok, dl))
    BY DEF CursorChanged
<1> DEFINE e == schedule_process(d, c, ok, dl)
<1>2. dl \in {"ok", "error", "denied"}
    BY DeadlineResultsType
<1>3. n \in {0, 1} /\ dev \in DeviceType /\ master \in BOOLEAN
    BY HeldType DEF KmsInv, TypeOK
<1>4. /\ d \in DeviceType /\ d.active = dev.active /\ d.timer_state = dev.timer_state
      /\ d.frame = dev.frame /\ d.listeners = dev.listeners /\ d.kernel = dev.kernel
      /\ d.events = dev.events /\ d.urgent = dev.urgent
      /\ d.callbacks = dev.callbacks /\ d.answers = dev.answers
      /\ d.cursor_invalidated = dev.cursor_invalidated \cup {c}
      /\ d.cursor_stale = dev.cursor_stale \cup {c} /\ d.busy = dev.busy
    BY <1>3 DEF DeviceType
<1> HIDE DEF d
<1>5. /\ posted' = posted /\ mode_views' = mode_views
      /\ mode_set' = mode_set /\ fresh' = fresh /\ power' = power
    BY DEF CursorChanged, mainVars
<1>6. \A x \in Crtcs : Away(x)' <=> Away(x)
    BY <1>5 DEF Away
<1>7. b \in BOOLEAN /\ (Away(c)' = b)
    BY <1>6, AwayType
<1>8. \A x \in Crtcs : Drives(d, x, Away(x))
  <2> SUFFICES ASSUME NEW x \in Crtcs PROVE Drives(d, x, Away(x))
    OBVIOUS
  <2>1. Drives(dev, x, Away(x)) /\ Away(x) \in BOOLEAN
    BY AwayType DEF Driven
  <2>3. Alike(dev, d, x)
    BY <1>4, SameUsing DEF Alike
  <2> QED BY <2>1, <2>3, SameDrives
<1>9. Sound(d, c, n)
  <2>1. Sound(dev, c, n)
    BY DEF KmsInv, Safe
  <2>2. CursorOk(d, c)
    BY <1>4, <2>1 DEF Sound, CursorOk, CursorChanged, TasksRun
  <2>3. FlipOk(d, c)
    BY <1>4, <2>1 DEF Sound, FlipOk, Expected
  <2>4. Count(d, c) = n
    BY <1>4, <2>1 DEF Sound, Count
  <2> QED BY <1>4, <2>1, <2>2, <2>3, <2>4 DEF Sound
<1>10. Steady(d, c)
  <2>1. Steady(dev, c)
    BY TasksSteady DEF CursorChanged
  <2> QED BY <1>4, <2>1 DEF Steady, Expected
<1>11. /\ Prepared(d, c, b)
       /\ d.frame[c].pending # Null =>
             d.frame[c].timer_set \/ d.frame[c].pending_page_flip \/ is_using_deadline_timer(d)
    BY <1>8 DEF Drives, Driving
<1> HIDE DEF n, b
<1>12. Apart(d, e, c)
    BY <1>2, <1>3, <1>9, <1>10, ScheduleSound
<1>13. Drives(e, c, b)
    BY <1>2, <1>3, <1>7, <1>9, <1>10, <1>11, ScheduleDrives
<1> HIDE DEF e
<1>14. dev' = Polled(e)
    BY <1>1 DEF e
<1> QED BY <1>4, <1>5, <1>6, <1>7, <1>8, <1>12, <1>13, <1>14, StepDrives DEF Driven

LEMMA KernelFlipDrives ==
    ASSUME KmsInv, Driven, NEW c \in Crtcs, KernelFlip(c)
    PROVE  Driven'
<1> DEFINE e == [dev EXCEPT !.kernel[c] = "idle", !.events = @ \cup {c}]
<1>1. dev \in DeviceType
    BY DEF KmsInv, TypeOK
<1>2. /\ e.kernel = [dev.kernel EXCEPT ![c] = "idle"]
      /\ e.events = dev.events \cup {c} /\ e.frame = dev.frame /\ e.listeners = dev.listeners
      /\ e.callbacks = dev.callbacks /\ e.timer_state = dev.timer_state /\ e.active = dev.active
    BY <1>1 DEF DeviceType
<1>3. dev' = e
    BY DEF KernelFlip
<1> HIDE DEF e
<1>4. \A x \in Crtcs \ {c} : e.kernel[x] = dev.kernel[x] /\ (x \in e.events <=> x \in dev.events)
    BY <1>1, <1>2 DEF DeviceType
<1>5. /\ posted' = posted /\ mode_views' = mode_views
      /\ mode_set' = mode_set /\ fresh' = fresh /\ power' = power
    BY DEF KernelFlip, mainVars
<1>6. is_using_deadline_timer(e) = is_using_deadline_timer(dev)
    BY <1>2, SameUsing
<1>7. ASSUME NEW x \in Crtcs PROVE Drives(e, x, Away(x)')
  <2>1. Drives(dev, x, Away(x)) /\ Away(x) \in BOOLEAN /\ Away(x)' = Away(x)
    BY <1>5, AwayType DEF Driven, Away
  <2>2. c \in e.events
    BY <1>2
  <2>3. CASE x = c
    BY <1>2, <1>6, <2>1, <2>2, <2>3 DEF Drives, Prepared
  <2>4. CASE x # c
    BY <1>2, <1>4, <1>6, <2>1, <2>4 DEF Drives, Prepared
  <2> QED BY <2>3, <2>4
<1> QED BY <1>2, <1>3, <1>5, <1>7 DEF Driven

LEMMA CursorPassedDrives ==
    ASSUME KmsInv, Driven, NEW c \in Crtcs, CursorPassedCallback(c)
    PROVE  Driven'
<1> DEFINE e == [dev EXCEPT !.callbacks = @ \ {<<"cursor_passed", c>>}, !.cursor_invalidated = @ \ {c}]
<1>1. dev \in DeviceType
    BY DEF KmsInv, TypeOK
<1>2. /\ e.kernel = dev.kernel /\ e.active = dev.active /\ e.timer_state = dev.timer_state
      /\ e.events = dev.events /\ e.frame = dev.frame /\ e.listeners = dev.listeners
      /\ e.callbacks = dev.callbacks \ {<<"cursor_passed", c>>}
    BY <1>1 DEF DeviceType
<1>3. dev' = e
    BY DEF CursorPassedCallback
<1> HIDE DEF e
<1>4. \A x \in Crtcs : <<"flipped", x>> \in e.callbacks <=> <<"flipped", x>> \in dev.callbacks
    BY <1>2
<1>5. /\ posted' = posted /\ mode_views' = mode_views
      /\ mode_set' = mode_set /\ fresh' = fresh /\ power' = power
    BY DEF CursorPassedCallback, mainVars
<1>6. ASSUME NEW x \in Crtcs PROVE Drives(e, x, Away(x)')
  <2>1. /\ Drives(dev, x, Away(x)) /\ Away(x) \in BOOLEAN /\ Away(x)' \in BOOLEAN
        /\ Away(x) => Away(x)'
    BY <1>5, AwayType DEF Driven, Away
  <2>3. Alike(dev, e, x)
    BY <1>2, <1>4, SameUsing DEF Alike
  <2> QED BY <2>1, <2>3, SameDrives
<1> QED BY <1>2, <1>3, <1>5, <1>6 DEF Driven

LEMMA AnswerFrameDrives ==
    ASSUME KmsInv, Driven, NEW c \in Crtcs, AnswerFrame(c)
    PROVE  Driven'
<1> DEFINE e == [dev EXCEPT !.answers[c] = @ - 1]
<1>1. dev \in DeviceType /\ posted \in [Crtcs -> {"none", "queued", "posted"}]
    BY DEF KmsInv, TypeOK
<1>2. /\ e.kernel = dev.kernel /\ e.active = dev.active /\ e.timer_state = dev.timer_state
      /\ e.events = dev.events /\ e.frame = dev.frame /\ e.listeners = dev.listeners
      /\ e.callbacks = dev.callbacks
    BY <1>1 DEF DeviceType
<1>3. dev' = e /\ dev.answers[c] > 0
    BY DEF AnswerFrame
<1> HIDE DEF e
<1>4. posted[c] = "posted"
  <2>1. /\ dev.answers[c] \in {0, 1}
        /\ dev.answers[c] = 1 => posted[c] = "posted"
    <3>1. Count(dev, c) = Held(posted[c] = "posted")
        BY DEF KmsInv, Safe, Sound
    <3> QED BY <1>1, <3>1, AnsweredOnce
  <2> QED BY <1>3, <2>1
<1>5. /\ posted' = [posted EXCEPT ![c] = "none"] /\ mode_views' = mode_views
      /\ mode_set' = mode_set /\ fresh' = fresh /\ power' = power
    BY DEF AnswerFrame
<1>6. ASSUME NEW x \in Crtcs PROVE Drives(e, x, Away(x)')
  <2>1. Away(x) => Away(x)'
    BY <1>1, <1>4, <1>5 DEF Away
  <2>2. /\ Drives(dev, x, Away(x)) /\ Away(x) \in BOOLEAN /\ Away(x)' \in BOOLEAN
    BY AwayType DEF Driven
  <2>3. Alike(dev, e, x)
    BY <1>2, SameUsing DEF Alike
  <2> QED BY <2>1, <2>2, <2>3, SameDrives
<1> QED BY <1>2, <1>3, <1>5, <1>6 DEF Driven

LEMMA PowerOnDrives ==
    ASSUME KmsInv, Driven, PowerOn
    PROVE  Driven'
<1> DEFINE e == Polled([dev EXCEPT !.cursor_invalidated = Crtcs])
<1>1. dev \in DeviceType /\ fresh \subseteq Crtcs
    BY DEF KmsInv, TypeOK
<1>2. /\ e.kernel = dev.kernel /\ e.active = dev.active /\ e.timer_state = dev.timer_state
      /\ e.events = dev.events /\ e.frame = dev.frame /\ e.listeners = dev.listeners
      /\ e.callbacks = dev.callbacks
    BY <1>1 DEF DeviceType, Polled
<1>3. dev' = e
    BY DEF PowerOn
<1> HIDE DEF e
<1>4. /\ posted' = posted /\ mode_views' = Crtcs
      /\ mode_set' = TRUE /\ fresh' = fresh /\ power' = TRUE
    BY DEF PowerOn, QueueModesReset
<1>5. ASSUME NEW x \in Crtcs PROVE Drives(e, x, Away(x)')
  <2>1. /\ Drives(dev, x, Away(x)) /\ Away(x) \in BOOLEAN /\ Away(x)' \in BOOLEAN
        /\ Away(x) => Away(x)'
    BY <1>4, AwayType DEF Driven, Away
  <2>3. Alike(dev, e, x)
    BY <1>2, SameUsing DEF Alike
  <2> QED BY <2>1, <2>3, SameDrives
<1> QED BY <1>1, <1>3, <1>4, <1>5 DEF Driven

LEMMA EventDispatchDrives ==
    ASSUME KmsInv, Driven, EventDispatch
    PROVE  Driven'
<1> DEFINE heard(l) == {x \in dev.events : l \in dev.listeners[x]}
           L == [x \in Crtcs |-> IF x \in dev.events THEN {} ELSE dev.listeners[x]]
           C == dev.callbacks \cup ({"flipped"} \X heard("impl"))
           A == [x \in Crtcs |-> IF x \in heard("frame") THEN dev.answers[x] + 1 ELSE dev.answers[x]]
           e == [dev EXCEPT !.events = {}, !.urgent = FALSE, !.listeners = L, !.callbacks = C,
                            !.answers = A]
<1>1. dev \in DeviceType
    BY DEF KmsInv, TypeOK
<1>2. dev' = e
    BY DEF EventDispatch
<1>3. /\ e.kernel = dev.kernel /\ e.active = dev.active /\ e.timer_state = dev.timer_state
      /\ e.events = {} /\ e.frame = dev.frame /\ e.listeners = L /\ e.callbacks = C
  <2> HIDE DEF L, C, A
  <2> QED BY <1>1 DEF DeviceType
<1> HIDE DEF e
<1>4. is_using_deadline_timer(e) = is_using_deadline_timer(dev)
    BY <1>3, SameUsing
<1>5. /\ posted' = posted /\ mode_views' = mode_views
      /\ mode_set' = mode_set /\ fresh' = fresh /\ power' = power
    BY DEF EventDispatch, mainVars
<1>6. ASSUME NEW x \in Crtcs PROVE Drives(e, x, Away(x)')
  <2>1. Drives(dev, x, Away(x)) /\ Away(x) \in BOOLEAN /\ Away(x)' = Away(x)
    BY <1>5, AwayType DEF Driven, Away
  <2>2. /\ e.listeners[x] = IF x \in dev.events THEN {} ELSE dev.listeners[x]
        /\ <<"flipped", x>> \in e.callbacks <=>
              <<"flipped", x>> \in dev.callbacks \/ (x \in dev.events /\ "impl" \in dev.listeners[x])
    BY <1>3
  <2>3. dev.frame[x].pending_page_flip =>
          "impl" \in dev.listeners[x] \/ <<"flipped", x>> \in dev.callbacks
    BY DEF KmsInv, Safe, Sound, FlipOk
  <2>4. e.listeners[x] # {} => dev.kernel[x] = "flipping"
    BY <2>1, <2>2 DEF Drives, Prepared
  <2> QED BY <1>3, <1>4, <2>1, <2>2, <2>3, <2>4 DEF Drives, Prepared
<1> QED BY <1>2, <1>3, <1>5, <1>6 DEF Driven

LEMMA FlippedCallbackDrives ==
    ASSUME Alone, KmsInv, Driven, NEW c \in Crtcs, FlippedCallback(c)
    PROVE  Driven'
<1> DEFINE n == Held(posted[c] = "posted")
           b == Away(c)
           d0 == [dev EXCEPT !.callbacks = @ \ {<<"flipped", c>>}]
           f == [d0.frame[c] EXCEPT !.pending_page_flip = FALSE]
           d == [d0 EXCEPT !.frame[c] = f]
           using == is_using_deadline_timer(dev)
<1>1. PICK ok \in BOOLEAN, dl \in DeadlineResults :
         dev' = notify_crtc_frame_ready(d0, c, ok, dl)
    BY DEF FlippedCallback
<1> DEFINE e == IF d.frame[c].pending = Null \/ d.frame[c].await_flush THEN d
                ELSE schedule_process(d, c, ok, dl)
<1>2. dl \in {"ok", "error", "denied"}
    BY DeadlineResultsType
<1>3. n \in {0, 1} /\ dev \in DeviceType /\ master \in BOOLEAN
    BY HeldType DEF KmsInv, TypeOK
<1>4. dev' = e
    BY <1>1 DEF notify_crtc_frame_ready
<1>5. /\ d0 \in DeviceType /\ d0.active = dev.active /\ d0.timer_state = dev.timer_state
      /\ d0.frame = dev.frame /\ d0.listeners = dev.listeners /\ d0.kernel = dev.kernel
      /\ d0.events = dev.events /\ d0.callbacks = dev.callbacks \ {<<"flipped", c>>}
      /\ d0.answers = dev.answers /\ d0.cursor_invalidated = dev.cursor_invalidated
      /\ d0.cursor_stale = dev.cursor_stale /\ d0.busy = dev.busy
    BY <1>3 DEF DeviceType
<1> HIDE DEF d0
<1>6. /\ f \in CrtcFrame /\ ~f.pending_page_flip /\ f.pending = dev.frame[c].pending
      /\ f.submitted = dev.frame[c].submitted /\ f.source = dev.frame[c].source
      /\ f.timer_set = dev.frame[c].timer_set /\ f.armed = dev.frame[c].armed
      /\ f.exists = dev.frame[c].exists /\ f.await_flush = dev.frame[c].await_flush
  <2>1. d0.frame[c] \in CrtcFrame /\ d0.frame[c] = dev.frame[c]
    BY <1>5, FrameIsFrame
  <2> QED BY <2>1 DEF CrtcFrame
<1> HIDE DEF f
<1>7. Reframed(d0, d, c, f)
    BY <1>5, <1>6, FrameChanged
<1> HIDE DEF d
<1>8. /\ d \in DeviceType /\ d.frame[c] = f /\ d.active = dev.active
      /\ d.listeners = dev.listeners /\ d.kernel = dev.kernel
      /\ d.events = dev.events /\ d.callbacks = dev.callbacks \ {<<"flipped", c>>}
      /\ d.answers = dev.answers /\ d.cursor_invalidated = dev.cursor_invalidated
      /\ d.cursor_stale = dev.cursor_stale /\ d.busy = dev.busy
      /\ is_using_deadline_timer(d) = using
      /\ \A x \in Crtcs \ {c} : d.frame[x] = dev.frame[x]
    BY <1>5, <1>7, SameUsing DEF Reframed, OnlyFrame
<1>9. /\ \A x \in Crtcs \ {c} : <<"flipped", x>> \in d.callbacks <=> <<"flipped", x>> \in dev.callbacks
      /\ \A x \in Crtcs : <<"cursor_passed", x>> \in d.callbacks <=> <<"cursor_passed", x>> \in dev.callbacks
      /\ <<"flipped", c>> \notin d.callbacks
    BY <1>8
<1>10. /\ posted' = posted /\ mode_views' = mode_views
       /\ mode_set' = mode_set /\ fresh' = fresh /\ power' = power
    BY DEF FlippedCallback, mainVars
<1>11. \A x \in Crtcs : Away(x)' <=> Away(x)
    BY <1>10 DEF Away
<1>12. b \in BOOLEAN /\ Away(c)' = b /\ Drives(dev, c, b)
    BY <1>11, AwayType DEF Driven
<1>13. \A x \in Crtcs \ {c} : Drives(d, x, Away(x))
  <2> SUFFICES ASSUME NEW x \in Crtcs \ {c} PROVE Drives(d, x, Away(x))
    OBVIOUS
  <2>1. Drives(dev, x, Away(x)) /\ Away(x) \in BOOLEAN
    BY AwayType DEF Driven
  <2>2. Alike(dev, d, x)
    BY <1>8, <1>9 DEF Alike
  <2> QED BY <2>1, <2>2, SameDrives
<1>14. Sound(d, c, n) /\ Steady(d, c)
  <2>1. Sound(dev, c, n)
    BY DEF KmsInv, Safe
  <2>2. master => ~Expected(d, c) /\ d.kernel[c] = "idle"
    <3>1. master => c \notin dev.events /\ dev.kernel[c] # "flipping"
        BY <2>1 DEF Sound, FlipOk, Expected, FlippedCallback
    <3> QED BY <1>3, <1>8, <1>9, <3>1 DEF Expected, DeviceType
  <2>3. FlipOk(d, c) /\ Steady(d, c)
    BY <1>6, <1>8, <2>2 DEF FlipOk, Steady, Expected
  <2>4. CursorOk(d, c)
    BY <1>8, <1>9, <2>1 DEF Sound, CursorOk
  <2>5. Count(d, c) = n
    BY <1>6, <1>8, <2>1 DEF Sound, Count
  <2>6. Timed(d.frame[c])
    BY <1>6, <1>8, <2>1 DEF Sound, Timed
  <2> QED BY <1>8, <2>1, <2>3, <2>4, <2>5, <2>6 DEF Sound
<1> HIDE DEF n, b
<1>15. Waits(f, using)
    BY <1>6, <1>12 DEF Drives, Prepared, Waits, using
<1>16. f.pending # Null => ~f.await_flush /\ (f.timer_set \/ using)
    BY <1>6, <1>12, <1>15 DEF Drives, Prepared, Driving, Waits, using
<1>17. Prepared(d, c, b)
    BY <1>6, <1>8, <1>12, <1>15 DEF Drives, Prepared
<1>18. Drives(e, c, b) /\ Apart(d, e, c)
  <2>1. CASE f.pending = Null
    <3>1. e = d
        BY <1>8, <2>1
    <3>2. Drives(d, c, b)
        BY <1>8, <1>17, <2>1 DEF Drives, Driving
    <3>3. Apart(d, d, c)
        BY <1>8, OnlyFrameReflexive, OnlyFrameApart
    <3> QED BY <3>1, <3>2, <3>3
  <2>2. CASE f.pending # Null
    <3>1. e = schedule_process(d, c, ok, dl)
        BY <1>8, <1>16, <2>2
    <3>2. d.frame[c].pending # Null =>
             d.frame[c].timer_set \/ d.frame[c].pending_page_flip \/ is_using_deadline_timer(d)
        BY <1>8, <1>16
    <3>3. Drives(schedule_process(d, c, ok, dl), c, b)
        BY <1>2, <1>3, <1>12, <1>14, <1>17, <3>2, ScheduleDrives
    <3>4. Apart(d, schedule_process(d, c, ok, dl), c)
        BY <1>2, <1>3, <1>14, ScheduleSound
    <3> QED BY <3>1, <3>3, <3>4
  <2> QED BY <2>1, <2>2
<1> HIDE DEF e
<1>19. ~power => d.active = {}
    BY <1>8 DEF Driven
<1> QED BY <1>4, <1>8, <1>10, <1>11, <1>12, <1>13, <1>18, <1>19, StepDrives DEF Driven

LEMMA RebuildDrives ==
    ASSUME KmsInv, Driven, RebuildViews
    PROVE  Driven'
<1> DEFINE F == [x \in Crtcs |-> [dev.frame[x] EXCEPT !.pending = Orphan(@), !.submitted = Orphan(@)]]
           L == [x \in Crtcs |-> Orphan(dev.listeners[x])]
           e == Polled([dev EXCEPT !.frame = F, !.listeners = L, !.answers = [x \in Crtcs |-> 0],
                                   !.cursor_invalidated = Crtcs])
<1>1. dev \in DeviceType
    BY DEF KmsInv, TypeOK
<1>2. dev' = e
    BY DEF RebuildViews
<1>3. /\ e.kernel = dev.kernel /\ e.active = dev.active /\ e.timer_state = dev.timer_state
      /\ e.events = dev.events /\ e.frame = F /\ e.listeners = L
      /\ e.callbacks = dev.callbacks
  <2> HIDE DEF F, L
  <2> QED BY <1>1 DEF DeviceType, Polled
<1> HIDE DEF e
<1>4. mode_views' = Crtcs /\ mode_set' = TRUE /\ fresh' = Crtcs /\ power' = power
    BY DEF RebuildViews, QueueModesReset
<1>5. is_using_deadline_timer(e) = is_using_deadline_timer(dev)
    BY <1>3, SameUsing
<1>6. ASSUME NEW x \in Crtcs PROVE Drives(e, x, Away(x)')
  <2> DEFINE f == dev.frame[x]
             g == e.frame[x]
  <2>1. Away(x)' /\ Drives(dev, x, Away(x))
    BY <1>4 DEF Driven, Away
  <2>2. /\ g.pending = Orphan(f.pending) /\ g.submitted = Orphan(f.submitted)
        /\ g.exists = f.exists /\ g.await_flush = f.await_flush
        /\ g.pending_page_flip = f.pending_page_flip /\ g.source = f.source
        /\ g.armed = f.armed /\ g.timer_set = f.timer_set
        /\ e.listeners[x] = Orphan(dev.listeners[x])
    <3>1. f \in CrtcFrame
        BY <1>1, FrameIsFrame
    <3>2. g = [f EXCEPT !.pending = Orphan(@), !.submitted = Orphan(@)]
        BY <1>3
    <3>3. e.listeners[x] = Orphan(dev.listeners[x])
        BY <1>3
    <3> HIDE DEF f, g
    <3> QED BY <3>1, <3>2, <3>3 DEF CrtcFrame
  <2>3. \A u \in {f.pending, f.submitted, dev.listeners[x]} :
          (Ours(u) => Ours(Orphan(u))) /\ (Orphan(u) = {} <=> u = {})
    BY DEF Ours, Orphan
  <2> HIDE DEF f, g
  <2>4. Waits(f, is_using_deadline_timer(dev)) /\ Driving(f)
    BY <2>1 DEF Drives, Prepared, f
  <2>5. Waits(g, is_using_deadline_timer(e)) /\ Driving(g)
    BY <1>5, <2>2, <2>3, <2>4 DEF Waits, Driving, Null
  <2>6. /\ x \notin dev.active => ~f.pending_page_flip /\ ~f.timer_set
        /\ dev.listeners[x] # {} => dev.kernel[x] = "flipping" \/ x \in dev.events
        /\ f.pending_page_flip /\ ~is_using_deadline_timer(dev) =>
              /\ f.pending = Null /\ f.submitted = Null
              /\ <<"flipped", x>> \in dev.callbacks \/ Ours(dev.listeners[x])
    BY <2>1 DEF Drives, Prepared, f
  <2>7. /\ x \notin e.active => ~g.pending_page_flip /\ ~g.timer_set
        /\ e.listeners[x] # {} => e.kernel[x] = "flipping" \/ x \in e.events
        /\ g.pending_page_flip /\ ~is_using_deadline_timer(e) =>
              /\ g.pending = Null /\ g.submitted = Null
              /\ <<"flipped", x>> \in e.callbacks \/ Ours(e.listeners[x])
    BY <1>3, <1>5, <2>2, <2>3, <2>6 DEF Null
  <2> QED BY <2>1, <2>5, <2>7 DEF Drives, Prepared, g
<1> QED BY <1>2, <1>3, <1>4, <1>6 DEF Driven

(* A CRTC whose CrtcFrame was reset has nothing to wait for.               *)
LEMMA ResetDrives ==
    ASSUME NEW d \in DeviceType, NEW e \in DeviceType, NEW c \in Crtcs, NEW b \in BOOLEAN,
           Waits(d.frame[c], is_using_deadline_timer(d)), Timed(d.frame[c]),
           e.frame[c] = Reset(d.frame[c]),
           e.listeners[c] # {} => e.kernel[c] = "flipping" \/ c \in e.events
    PROVE  Drives(e, c, b)
<1> DEFINE f == d.frame[c]
           g == e.frame[c]
<1>1. f \in CrtcFrame /\ g \in CrtcFrame
    BY FrameIsFrame
<1>2. /\ ~g.pending_page_flip /\ ~g.timer_set /\ g.pending = Null /\ g.submitted = Null
      /\ (g.armed => f.armed /\ ~f.source)
    BY <1>1, ResetFrame
<1>3. f.armed => f.source
    BY DEF Waits, Timed
<1>4. Waits(g, is_using_deadline_timer(e))
    BY <1>2, <1>3 DEF Waits
<1> QED BY <1>2, <1>4 DEF Drives, Prepared, Driving, Null

(* So a mode set drives every CRTC, whether it passes or not.              *)
LEMMA ResetStepDrives ==
    ASSUME NEW S \in SUBSET Crtcs, NEW g, KmsInv, Driven, AfterReset(dev, g),
           ModeSetPasses(dev, g, S) \/ ModeSetFails(dev, g, S), dev' = Polled(g),
           ~power' => g.active = {},
           fresh' \subseteq mode_views', fresh' # {} => mode_set'
    PROVE  Driven'
<1>1. dev \in DeviceType /\ g \in DeviceType
    BY DEF KmsInv, TypeOK, AfterReset
<1>2. ASSUME NEW x \in Crtcs PROVE Drives(dev', x, Away(x)')
  <2>1. Waits(dev.frame[x], is_using_deadline_timer(dev)) /\ Timed(dev.frame[x])
    BY DEF KmsInv, Safe, Sound, Driven, Drives, Prepared
  <2>2. dev.listeners[x] # {} => dev.kernel[x] = "flipping" \/ x \in dev.events
    BY DEF Driven, Drives, Prepared
  <2>3. g.listeners[x] # {} => g.kernel[x] = "flipping" \/ x \in g.events
    <3>1. CASE ModeSetPasses(dev, g, S)
      <4>1. /\ g.events = dev.events \cup S \cup {y \in Crtcs : dev.kernel[y] # "idle"}
            /\ g.listeners[x] = IF x \in S THEN dev.listeners[x] \cup {"frame"}
                                ELSE dev.listeners[x]
        BY <3>1 DEF ModeSetPasses
      <4> QED BY <2>2, <4>1
    <3>2. CASE ModeSetFails(dev, g, S)
        BY <2>2, <3>2 DEF ModeSetFails
    <3> QED BY <3>1, <3>2
  <2>4. g.frame[x] = Reset(dev.frame[x])
    BY DEF AfterReset
  <2>5. Away(x)' \in BOOLEAN
    BY AwayType
  <2>6. Drives(g, x, Away(x)')
    BY <1>1, <2>1, <2>3, <2>4, <2>5, ResetDrives
  <2> QED BY <1>1, <2>5, <2>6, PolledDrives
<1>3. dev'.active = g.active
    BY <1>1 DEF Polled, DeviceType
<1> QED BY <1>2, <1>3 DEF Driven

LEMMA PowerOffDrives ==
    ASSUME KmsInv, Driven, PowerOff
    PROVE  Driven'
<1>1. PICK g : /\ AfterReset(dev, g) /\ g.active = {} /\ dev' = Polled(g)
               /\ \/ master /\ ModeSetPasses(dev, g, {})
                  \/ MayBeRefused(dev) /\ ModeSetFails(dev, g, {})
    BY PowerOffDoes
<1>2. /\ mode_views' = mode_views /\ mode_set' = mode_set /\ fresh' = fresh
    BY DEF PowerOff, mainVars
<1>3. {} \in SUBSET Crtcs
    OBVIOUS
<1> QED BY <1>1, <1>2, <1>3, ResetStepDrives DEF Driven

LEMMA PauseDrives ==
    ASSUME Driven, Pause \/ UNCHANGED vars
    PROVE  Driven'
<1>1. UNCHANGED <<dev, mainVars, power>>
    BY DEF Pause, vars
<1> QED BY <1>1 DEF Driven, Away, mainVars

LEMMA ResumeDrives ==
    ASSUME KmsInv, Driven, Resume
    PROVE  Driven'
<1> DEFINE t == IF dev.timer_state = "INHIBITED" THEN "ENABLED" ELSE dev.timer_state
           e == [dev EXCEPT !.timer_state = t]
<1>1. dev \in DeviceType
    BY DEF KmsInv, TypeOK
<1>2. dev' = e
    BY DEF Resume
<1>3. /\ e.kernel = dev.kernel /\ e.active = dev.active /\ e.timer_state = t
      /\ e.events = dev.events /\ e.frame = dev.frame /\ e.listeners = dev.listeners
      /\ e.callbacks = dev.callbacks
    BY <1>1 DEF DeviceType
<1>4. is_using_deadline_timer(dev) => is_using_deadline_timer(e)
    BY <1>3 DEF is_using_deadline_timer
<1> HIDE DEF e, t
<1>5. /\ posted' = posted /\ mode_views' = mode_views
      /\ mode_set' = mode_set /\ fresh' = fresh /\ power' = power
    BY DEF Resume, mainVars
<1>6. ASSUME NEW x \in Crtcs PROVE Drives(e, x, Away(x)')
  <2>1. Drives(dev, x, Away(x)) /\ Away(x) \in BOOLEAN /\ Away(x)' = Away(x)
    BY <1>5, AwayType DEF Driven, Away
  <2>2. dev.kernel[x] = "idle" /\ dev.events = {} /\ dev.callbacks = {} /\ dev.frame[x].submitted = Null
    BY DEF Resume, TasksRun
  <2>3. dev.listeners[x] = {}
    BY <2>1, <2>2 DEF Drives, Prepared
  <2>4. dev.frame[x].pending_page_flip =>
          "impl" \in dev.listeners[x] \/ <<"flipped", x>> \in dev.callbacks
    BY DEF KmsInv, Safe, Sound, FlipOk
  <2>5. ~dev.frame[x].pending_page_flip
    BY <2>2, <2>3, <2>4
  <2>6. Waits(dev.frame[x], is_using_deadline_timer(dev))
    BY <2>1 DEF Drives, Prepared
  <2>7. Waits(dev.frame[x], is_using_deadline_timer(e))
    BY <1>4, <2>2, <2>6 DEF Waits
  <2> QED BY <1>3, <2>1, <2>5, <2>7 DEF Drives, Prepared
<1> QED BY <1>2, <1>3, <1>5, <1>6 DEF Driven

(* An onscreen without a frame, whose view is not new, has no update on its *)
(* way; and the flip its CRTC waits for is one the timer is used with.     *)
LEMMA NothingUnderWay ==
    ASSUME KmsInv, Driven, TasksRun, NEW c \in Crtcs, posted[c] = "none",
           c \in fresh => ~power
    PROVE  /\ dev.frame[c].pending = Null
           /\ dev.frame[c].pending_page_flip => is_using_deadline_timer(dev)
<1> DEFINE f == dev.frame[c]
<1>1. /\ Drives(dev, c, Away(c)) /\ dev \in DeviceType /\ f \in CrtcFrame
    BY FrameIsFrame DEF KmsInv, TypeOK, Driven
<1>2. CASE c \in fresh
  <2>1. c \notin dev.active
    BY <1>2 DEF Driven
  <2> QED BY <1>1, <2>1 DEF Drives, Prepared, Driving
<1>3. CASE c \notin fresh
  <2>1. ~Away(c)
    BY <1>3 DEF Away
  <2>2. "frame" \notin f.pending /\ "frame" \notin dev.listeners[c]
    <3> DEFINE q == Held("frame" \in f.submitted)
               p == Held("frame" \in f.pending)
               l == Held("frame" \in dev.listeners[c])
               a == dev.answers[c]
    <3>1. q + p + l + a = 0
        BY HeldPosted DEF KmsInv, Safe, Sound, Count
    <3>2. q \in {0, 1} /\ p \in {0, 1} /\ l \in {0, 1} /\ a \in Nat
        BY <1>1, HeldType DEF DeviceType
    <3>3. ("frame" \in f.pending => p = 1) /\ ("frame" \in dev.listeners[c] => l = 1)
        BY DEF Held
    <3> HIDE DEF q, p, l, a
    <3>4. p = 0 /\ l = 0
        BY <3>1, <3>2
    <3> QED BY <3>3, <3>4
  <2>3. "orphan" \notin f.pending /\ (f.pending_page_flip => "orphan" \notin dev.listeners[c])
    BY <1>1, <2>1 DEF Drives, Prepared
  <2>4. f.pending = Null
    BY <1>1, <2>2, <2>3 DEF Drives, Prepared, Waits, Ours
  <2>5. f.pending_page_flip => ~Ours(dev.listeners[c])
    BY <2>2, <2>3 DEF Ours
  <2>6. <<"flipped", c>> \notin dev.callbacks
    BY DEF TasksRun
  <2> QED BY <1>1, <2>4, <2>5, <2>6 DEF Drives, Prepared
<1> QED BY <1>2, <1>3

LEMMA FinishFrameDrives ==
    ASSUME Alone, KmsInv, Driven, NEW c \in Crtcs, FinishFrame(c)
    PROVE  Driven'
<1> DEFINE d == [dev EXCEPT !.needs_flush = @ \ {c}]
           b == Away(c)
           ready == TRUE
<1>1. PICK u \in {{"frame"}, {"frame", "plane"}} :
        \E ok \in BOOLEAN, dl \in DeadlineResults :
            dev' = Polled(handle_update(d, c, u, ready, ok, dl))
    BY DEF FinishFrame
<1>2. PICK ok \in BOOLEAN, dl \in DeadlineResults :
         dev' = Polled(handle_update(d, c, u, ready, ok, dl))
    BY <1>1
<1> DEFINE e == handle_update(d, c, u, ready, ok, dl)
<1>3. dev \in DeviceType /\ master \in BOOLEAN /\ dl \in {"ok", "error", "denied"}
    BY DeadlineResultsType DEF KmsInv, TypeOK
<1>4. u \in SUBSET Items /\ "frame" \in u /\ "orphan" \notin u /\ ready \in BOOLEAN
    BY DEF Items
<1>5. OnlyFrame(dev, d, c) /\ d.frame = dev.frame /\ d.timer_state = dev.timer_state
    BY <1>3 DEF OnlyFrame, DeviceType
<1> HIDE DEF d
<1>6. Sound(d, c, 0)
  <2>1. Sound(dev, c, Held(posted[c] = "posted"))
    BY DEF KmsInv, Safe
  <2>2. Sound(dev, c, 0)
    BY <2>1, HeldPosted DEF FinishFrame
  <2> QED BY <1>5, <2>2 DEF Sound, OnlyFrame, Count, FlipOk, CursorOk, Expected
<1>7. Steady(d, c)
  <2>1. Steady(dev, c)
    BY TasksSteady DEF FinishFrame
  <2> QED BY <1>5, <2>1 DEF OnlyFrame, Steady, Expected
<1>8. \A x \in Crtcs : Drives(d, x, Away(x))
  <2> SUFFICES ASSUME NEW x \in Crtcs PROVE Drives(d, x, Away(x))
    OBVIOUS
  <2>1. Drives(dev, x, Away(x)) /\ Away(x) \in BOOLEAN
    BY AwayType DEF Driven
  <2>2. Alike(dev, d, x)
    BY <1>5, SameUsing DEF Alike, OnlyFrame
  <2> QED BY <2>1, <2>2, SameDrives
<1>9. /\ posted' = [posted EXCEPT ![c] = "posted"] /\ mode_views' = mode_views
      /\ mode_set' = mode_set /\ fresh' = fresh /\ power' = power /\ posted[c] = "none"
    BY DEF FinishFrame
<1>10. \A x \in Crtcs : Away(x)' <=> Away(x)
    BY <1>9 DEF Away, KmsInv, TypeOK
<1>11. b \in BOOLEAN /\ Away(c)' = b /\ Drives(d, c, b)
    BY <1>8, <1>10, AwayType
<1>12. d.frame[c].pending = Null /\ (d.frame[c].pending_page_flip => is_using_deadline_timer(d))
    BY <1>5, <1>9, NothingUnderWay, SameUsing DEF FinishFrame
<1> HIDE DEF b, ready
<1>13. Apart(d, e, c)
    BY <1>3, <1>4, <1>6, <1>7, HandleSound
<1>14. Drives(e, c, b)
    BY <1>3, <1>4, <1>6, <1>7, <1>11, <1>12, HandleDrives
<1> HIDE DEF e
<1>15. dev' = Polled(e)
    BY <1>2 DEF e
<1>16. d \in DeviceType /\ d.active = dev.active
    BY <1>5 DEF OnlyFrame
<1> QED BY <1>8, <1>9, <1>10, <1>11, <1>13, <1>14, <1>15, <1>16, StepDrives DEF Driven

LEMMA PostFrameDrives ==
    ASSUME Alone, KmsInv, Driven, NEW c \in Crtcs, NEW change \in SUBSET {"vrr"}, PostFrame(c, change)
    PROVE  Driven'
<1>1. /\ dev \in DeviceType /\ master \in BOOLEAN
      /\ posted \in [Crtcs -> {"none", "queued", "posted"}]
    BY DEF KmsInv, TypeOK
<1>2. /\ power /\ power' = power /\ posted[c] = "none" /\ TasksRun
      /\ mode_views' = mode_views \ {c} /\ fresh' = fresh \ {c}
    BY DEF PostFrame
<1>3. fresh' \subseteq mode_views' /\ (fresh' # {} => mode_set)
    BY <1>2 DEF Driven
<1>4. CASE mode_views' # {}
  <2>1. dev' = dev /\ mode_set' = mode_set /\ posted' = [posted EXCEPT ![c] = "queued"]
    BY <1>4 DEF PostFrame
  <2>2. ASSUME NEW x \in Crtcs PROVE Drives(dev', x, Away(x)')
    <3>1. Away(x) => Away(x)'
        BY <1>1, <1>2, <2>1 DEF Away
    <3>2. Drives(dev, x, Away(x)) /\ Away(x) \in BOOLEAN /\ Away(x)' \in BOOLEAN
        BY AwayType DEF Driven
    <3>3. Alike(dev, dev', x)
        BY <2>1 DEF Alike
    <3> QED BY <3>1, <3>2, <3>3, SameDrives
  <2> QED BY <1>2, <1>3, <2>1, <2>2 DEF Driven
<1>5. CASE mode_views' = {} /\ mode_set
  <2> DEFINE S == {x \in Crtcs : x = c \/ posted[x] = "queued"}
  <2>1. PICK ok \in BOOLEAN : dev' = Polled(process_mode_set_update(dev, S, ok))
    BY <1>5 DEF PostFrame
  <2> DEFINE g == process_mode_set_update(dev, S, ok)
  <2>2. S \in SUBSET Crtcs
    OBVIOUS
  <2> HIDE DEF S
  <2>3. AfterReset(dev, g) /\ (ModeSetPasses(dev, g, S) \/ ModeSetFails(dev, g, S))
    BY <1>1, <2>2, ModeSetDoes
  <2>4. fresh' # {} => mode_set'
    BY <1>3, <1>5
  <2> HIDE DEF g
  <2>5. dev' = Polled(g)
    BY <2>1 DEF g
  <2> QED BY <1>2, <1>3, <2>2, <2>3, <2>4, <2>5, ResetStepDrives
<1>6. CASE mode_views' = {} /\ ~mode_set
  <2> DEFINE u == {"frame", "plane"} \cup change
  <2>1. PICK ready \in BOOLEAN, ok \in BOOLEAN, dl \in DeadlineResults :
          dev' = Polled(handle_update(dev, c, u, ready, ok, dl))
    BY <1>6 DEF PostFrame
  <2>2. posted' = [posted EXCEPT ![c] = "posted"] /\ mode_set' = mode_set
    BY <1>6 DEF PostFrame
  <2>3. /\ u \in SUBSET Items /\ "frame" \in u /\ "orphan" \notin u
        /\ dl \in {"ok", "error", "denied"}
    BY DeadlineResultsType DEF Items
  <2> HIDE DEF u
  <2> DEFINE e == handle_update(dev, c, u, ready, ok, dl)
  <2>4. Sound(dev, c, 0)
    <3>1. Sound(dev, c, Held(posted[c] = "posted"))
        BY DEF KmsInv, Safe
    <3> QED BY <1>2, <3>1, HeldPosted
  <2>5. Steady(dev, c)
    BY <1>2, TasksSteady
  <2>6. fresh = {} /\ fresh' = {}
    BY <1>2, <1>6 DEF Driven
  <2>7. \A x \in Crtcs : Away(x)' <=> Away(x)
    BY <1>1, <1>2, <2>2, <2>6 DEF Away
  <2> DEFINE b == Away(c)
  <2>8. b \in BOOLEAN /\ Away(c)' = b /\ Drives(dev, c, b)
    BY <2>7, AwayType DEF Driven
  <2>9. /\ dev.frame[c].pending = Null
        /\ dev.frame[c].pending_page_flip => is_using_deadline_timer(dev)
    BY <1>2, <2>6, NothingUnderWay
  <2> HIDE DEF b
  <2>10. Apart(dev, e, c)
    BY <1>1, <2>3, <2>4, <2>5, HandleSound
  <2>11. Drives(e, c, b)
    BY <1>1, <2>3, <2>4, <2>5, <2>8, <2>9, HandleDrives
  <2> HIDE DEF e
  <2>12. dev' = Polled(e)
    BY <2>1 DEF e
  <2>13. \A x \in Crtcs : Drives(dev, x, Away(x))
    BY DEF Driven
  <2> QED BY <1>1, <1>2, <1>3, <2>2, <2>6, <2>7, <2>8, <2>10, <2>11, <2>12, <2>13, StepDrives DEF Driven
<1> QED BY <1>4, <1>5, <1>6

LEMMA InitDrives ==
    ASSUME Init
    PROVE  Driven
<1>1. power /\ fresh = Crtcs /\ mode_views = Crtcs /\ mode_set
    BY DEF Init
<1>2. ASSUME NEW x \in Crtcs PROVE Drives(dev, x, Away(x))
  <2>1. dev.frame[x] = NewCrtcFrame /\ dev.listeners[x] = {}
    BY DEF Init
  <2> QED BY <2>1 DEF Drives, Prepared, Driving, Waits, NewCrtcFrame, Null
<1> QED BY <1>1, <1>2 DEF Driven

(* Every step keeps the invariant.                                         *)
LEMMA StepKeepsDriven ==
    ASSUME Alone, KmsInv, ~dev.sync_cursor_primary, Driven, [Next]_vars
    PROVE  Driven'
<1>1. CASE Pause \/ UNCHANGED vars
    BY <1>1, PauseDrives
<1>2. ASSUME NEW c \in Crtcs, NEW change \in SUBSET {"vrr"}, PostFrame(c, change) PROVE Driven'
    BY <1>2, PostFrameDrives
<1>3. ASSUME NEW c \in Crtcs, FinishFrame(c) PROVE Driven'
    BY <1>3, FinishFrameDrives
<1>4. ASSUME NEW c \in Crtcs, SyncFileReady(c) PROVE Driven'
    BY <1>4, SyncFileReadyDrives
<1>5. ASSUME NEW c \in Crtcs, DeadlineDispatch(c) PROVE Driven'
    BY <1>5, DeadlineDispatchDrives
<1>6. ASSUME NEW c \in Crtcs, AwaitFlush(c) PROVE Driven'
    BY <1>6 DEF AwaitFlush
<1>7. ASSUME NEW c \in Crtcs, CursorChanged(c) PROVE Driven'
    BY <1>7, CursorChangedDrives
<1>8. ASSUME NEW c \in Crtcs, KernelFlip(c) PROVE Driven'
    BY <1>8, KernelFlipDrives
<1>9. ASSUME NEW c \in Crtcs, FlippedCallback(c) PROVE Driven'
    BY <1>9, FlippedCallbackDrives
<1>10. ASSUME NEW c \in Crtcs, CursorPassedCallback(c) PROVE Driven'
    BY <1>10, CursorPassedDrives
<1>11. ASSUME NEW c \in Crtcs, AnswerFrame(c) PROVE Driven'
    BY <1>11, AnswerFrameDrives
<1>12. CASE EventDispatch
    BY <1>12, EventDispatchDrives
<1>13. CASE RebuildViews
    BY <1>13, RebuildDrives
<1>14. CASE PowerOn
    BY <1>14, PowerOnDrives
<1>15. CASE PowerOff
    BY <1>15, PowerOffDrives
<1>16. CASE Resume
    BY <1>16, ResumeDrives
<1> QED BY <1>1, <1>2, <1>3, <1>4, <1>5, <1>6, <1>7, <1>8, <1>9, <1>10, <1>11, <1>12, <1>13,
           <1>14, <1>15, <1>16 DEF Next

(* An update held back has a flip or its timer coming, whichever ioctl     *)
(* fails on the way: ensure_deadline_timer_armed, update_ready,            *)
(* schedule_process and the discarding by mode sets leave none without.    *)
(* For one CRTC, or a thread without real-time priority: with more CRTCs   *)
(* the failure of one may take away the timers of the others.              *)
THEOREM KmsPendingIsDriven ==
    ASSUME HighPriority => \A a, b \in Crtcs : a = b
    PROVE  Spec => []PendingIsDriven
<1> DEFINE Inv == dev.sync_cursor_primary \/ Driven
<1>1. Init => Inv
    BY InitDrives
<1>2. KmsInv /\ Inv /\ [Next]_vars => Inv'
    BY StepKeepsDriven, FlagKept DEF Alone
<1>3. Inv => PendingIsDriven
    BY DEF Driven, Drives, Driving, PendingIsDriven
<1> QED BY <1>1, <1>2, <1>3, KmsInvariant, PTL DEF Spec
=============================================================================
