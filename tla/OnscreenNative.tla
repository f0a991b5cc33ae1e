---------------------------- MODULE OnscreenNative ----------------------------
(***************************************************************************)
(* The frames of one view on their way to the screen                       *)
(* (src/backends/native/meta-onscreen-native.c): a frame is drawn, waits   *)
(* as next_frame while another is posted to KMS, may be superseded, and is *)
(* completed once KMS answers. Each completion takes the oldest            *)
(* CoglFrameInfo and tells the frame clock, which draws another frame as   *)
(* long as fewer than two are under way (module FrameClock).               *)
(*                                                                         *)
(* KMS (module KmsImplDevice) is the environment: it has at most the       *)
(* update of posted_frame and answers it once. Everything here runs on the *)
(* main thread, so a callback or a frame is one step.                      *)
(***************************************************************************)
EXTENDS Integers, Sequences

CONSTANTS
    MaxFrames,     \* bound on frames drawn
    MaxGammas,     \* bound on gamma changes
    FirstCounter,  \* frames swapped before the first one modelled
    Worlds         \* what may happen, see world

ASSUME OnscreenAssumption ==
    /\ {MaxFrames, MaxGammas, FirstCounter} \subseteq Nat
    /\ Worlds \subseteq SUBSET {"undamaged", "gamma", "power", "refused", "swap"}

NoFrame == [id |-> 0, buffer |-> FALSE, scanout |-> FALSE, update |-> FALSE, gamma |-> 0]

NoUpdate == [id |-> 0, gamma |-> 0, listeners |-> <<>>]

VARIABLES
    o,          \* the MetaOnscreenNative
    kms,        \* the update KMS has to answer, or NoUpdate
    clock,      \* frames the frame clock has dispatched and not seen complete
    hw,         \* the gamma the kernel has
    wanted,     \* the gamma that was asked for
    power_save, \* the mode is not META_POWER_SAVE_ON
    drawn,      \* frames drawn so far
    world       \* what may happen: frames without damage, changes
                \* of gamma and of the power save mode, updates KMS refuses,
                \* front buffers that cannot be locked

vars == <<o, kms, clock, hw, wanted, power_save, drawn, world>>

(* A step computes the onscreen, the update in KMS and the clock together. *)
State == [o |-> o, kms |-> kms, clock |-> clock]

Becomes(s) == o' = s.o /\ kms' = s.kms /\ clock' = s.clock /\ world' = world

-----------------------------------------------------------------------------
(* Notifying the clock of a frame it does not know is a warning there.     *)
notify_clock(s) ==
    IF s.clock > 0 THEN [s EXCEPT !.clock = @ - 1]
                   ELSE [s EXCEPT !.o.warnings = @ \cup {"not dispatched"}]

(* meta_onscreen_native_notify_frame_complete *)
notify_frame_complete(s) ==
    IF s.o.infos = <<>> THEN s
    ELSE notify_clock([s EXCEPT !.o.infos = Tail(@)])

(* Dropping the last reference to a frame that still holds its update.     *)
release(s, f) ==
    IF f.update THEN [s EXCEPT !.o.warnings = @ \cup {"released with update"}] ELSE s

clear_superseded_frame_quietly(s) == \* mutant: the frame is not completed
    [s EXCEPT !.o.superseded = NoFrame]
clear_superseded_frame(s) ==
    IF s.o.superseded = NoFrame THEN s
    ELSE notify_frame_complete(release([s EXCEPT !.o.superseded = NoFrame],
                                       s.o.superseded))

promote_posted_frame(s) ==
    LET f == s.o.posted IN
    IF f = NoFrame THEN s
    ELSE [s EXCEPT !.o.posted = NoFrame,
                   !.o.presented = IF f.buffer THEN f.id ELSE @]

clear_posted_fb(s) == [s EXCEPT !.o.posted = NoFrame]

assign_next_frame(s, f) ==
    IF s.o.next = NoFrame THEN [s EXCEPT !.o.next = f]
    ELSE [clear_superseded_frame(s) EXCEPT !.o.superseded = s.o.next, !.o.next = f]

(* post_nonprimary_plane_update, with the listeners the update has already *)
post_nonprimary_plane_update(s, f, listeners) ==
    [s EXCEPT !.kms = [id |-> f.id, gamma |-> f.gamma,
                       listeners |-> Append(listeners, "finish_frame")],
              !.o.infos = Append(@, [id |-> f.id, counter |-> s.o.counter]),
              !.o.posted = [f EXCEPT !.update = FALSE]]

(* maybe_post_next_frame: the frame's update gets the result listener      *)
(* before it turns out whether there is a buffer to flip to.               *)
maybe_post_next_frame(s) ==
    LET f == s.o.next
        listeners == <<IF f.scanout THEN "scanout" ELSE "swap_buffer">>
        t == clear_superseded_frame([s EXCEPT !.o.next = NoFrame])
    IN IF f = NoFrame \/ s.o.posted # NoFrame THEN s
       ELSE IF power_save THEN [s EXCEPT !.o.dummy_flip = TRUE]
       ELSE IF ~f.buffer THEN post_nonprimary_plane_update(t, f, listeners)
       ELSE [t EXCEPT !.kms = [id |-> f.id, gamma |-> f.gamma, listeners |-> listeners],
                      !.o.posted = [f EXCEPT !.update = FALSE]]

-----------------------------------------------------------------------------
(* meta_onscreen_native_prepare_frame, which power saving skips: a changed *)
(* gamma goes into the update of this frame.                               *)
prepare_frame_again(s, f) == \* mutant: the frame it goes with is not noted
    IF ~s.o.gamma.invalidated \/ power_save THEN [s |-> s, f |-> f]
    ELSE [s |-> [s EXCEPT !.o.gamma.invalidated = FALSE],
          f |-> [f EXCEPT !.update = TRUE, !.gamma = wanted]]
prepare_frame(s, f) ==
    IF ~s.o.gamma.invalidated \/ power_save THEN [s |-> s, f |-> f]
    ELSE [s |-> [s EXCEPT !.o.gamma = [invalidated |-> FALSE,
                                       target |-> s.o.counter]],
          f |-> [f EXCEPT !.update = TRUE, !.gamma = wanted]]

(* cogl_onscreen_swap_buffers_with_damage, or cogl_onscreen_direct_scanout *)
push_frame_info(s, f) ==
    [s EXCEPT !.o.infos = Append(@, [id |-> f.id, counter |-> s.o.counter])]

swap_buffers(s, f) ==
    LET t == maybe_post_next_frame(assign_next_frame(push_frame_info(s, f), f))
    IN [t EXCEPT !.o.counter = @ + 1]

(* swap_failed: the oldest frame is completed, and the result IDLE has the *)
(* clock notified of this one; its update, if any, is still there when it  *)
(* is released.                                                            *)
swap_failed(s, f) ==
    LET t == notify_clock(release(notify_frame_complete(push_frame_info(s, f)), f))
    IN [t EXCEPT !.o.counter = @ + 1]

(* meta_onscreen_native_finish_frame, for a frame that was not drawn; an   *)
(* IDLE result has the clock notified at once.                             *)
finish_frame(s, f) ==
    LET busy == s.o.posted # NoFrame
        n == s.o.next
    IN IF ~f.update /\ (~s.o.needs_flush \/ busy) THEN notify_clock(s)
       ELSE IF busy /\ n = NoFrame THEN assign_next_frame(s, f)
       ELSE IF busy
       THEN notify_clock([s EXCEPT !.o.next.update = TRUE,
                            !.o.next.gamma = IF f.gamma # 0 THEN f.gamma ELSE n.gamma])
       ELSE [post_nonprimary_plane_update(s, f, <<>>) EXCEPT !.o.needs_flush = FALSE]

-----------------------------------------------------------------------------
Init ==
    /\ o = [presented |-> 0, posted |-> NoFrame, superseded |-> NoFrame,
            next |-> NoFrame, infos |-> <<>>, counter |-> FirstCounter,
            gamma |-> [invalidated |-> TRUE, target |-> 0],
            needs_flush |-> FALSE, dummy_flip |-> FALSE, warnings |-> {}]
    /\ kms = NoUpdate
    /\ clock = 0
    /\ hw = 0 /\ wanted = 1
    /\ power_save = FALSE
    /\ drawn = 0
    /\ world \in Worlds

(* The clock dispatches one frame more.                                    *)
Dispatch(f) ==
    /\ clock < 2
    /\ drawn < MaxFrames
    /\ f.id = drawn + 1
    /\ drawn' = drawn + 1
    /\ UNCHANGED <<hw, wanted, power_save>>

Dispatched == [State EXCEPT !.clock = @ + 1]

(* Something was damaged: the view is drawn, or a client's buffer is       *)
(* scanned out; variable refresh may put something into the update.        *)
Redraw ==
    \E scanout, vrr \in BOOLEAN :
        LET f == [NoFrame EXCEPT !.id = drawn + 1, !.buffer = TRUE,
                                 !.scanout = scanout, !.update = vrr]
            p == prepare_frame(Dispatched, f)
        IN /\ Dispatch(f)
           /\ Becomes(swap_buffers(p.s, p.f))

RedrawFails ==
    LET f == [NoFrame EXCEPT !.id = drawn + 1]
        p == prepare_frame(Dispatched, f)
    IN /\ "swap" \in world
       /\ Dispatch(f)
       /\ Becomes(swap_failed(p.s, p.f))

(* Nothing was damaged.                                                    *)
NoRedraw ==
    LET f == [NoFrame EXCEPT !.id = drawn + 1]
        p == prepare_frame(Dispatched, f)
    IN /\ "undamaged" \in world
       /\ Dispatch(f)
       /\ Becomes(finish_frame(p.s, p.f))

(* The KMS thread asks for a flush of the cursor.                          *)
NeedsFlush ==
    /\ "undamaged" \in world
    /\ ~o.needs_flush
    /\ o' = [o EXCEPT !.needs_flush = TRUE]
    /\ UNCHANGED <<kms, clock, hw, wanted, power_save, drawn, world>>

on_gamma_lut_changed ==
    /\ "gamma" \in world /\ wanted <= MaxGammas
    /\ wanted' = wanted + 1
    /\ o' = [o EXCEPT !.gamma.invalidated = TRUE]
    /\ UNCHANGED <<kms, clock, hw, power_save, drawn, world>>

-----------------------------------------------------------------------------
(* What KMS answers.                                                       *)
Answered == [State EXCEPT !.kms = NoUpdate]

HwGamma == IF kms.gamma # 0 THEN kms.gamma ELSE hw

FrameCounter == Head(o.infos).counter

(* notify_view_crtc_presented: the page flip, or the mode set in its place *)
notify_view_crtc_presented_unposted == \* mutant: next_frame is not posted
    /\ kms # NoUpdate
    /\ hw' = HwGamma
    /\ IF o.infos = <<>> THEN Becomes(Answered)
       ELSE LET s == IF FrameCounter >= o.gamma.target
                     THEN [Answered EXCEPT !.o.gamma.target = 0] ELSE Answered
            IN Becomes(promote_posted_frame(notify_frame_complete(s)))
    /\ UNCHANGED <<wanted, power_save, drawn>>
notify_view_crtc_presented ==
    /\ kms # NoUpdate
    /\ hw' = HwGamma
    /\ IF o.infos = <<>> THEN Becomes(Answered)
       ELSE LET s == IF FrameCounter >= o.gamma.target
                     THEN [Answered EXCEPT !.o.gamma.target = 0] ELSE Answered
            IN Becomes(maybe_post_next_frame(
                         promote_posted_frame(notify_frame_complete(s))))
    /\ UNCHANGED <<wanted, power_save, drawn>>

(* page_flip_feedback_ready: the update made no page flip of its own       *)
page_flip_feedback_ready ==
    /\ kms # NoUpdate
    /\ hw' = HwGamma
    /\ Becomes(maybe_post_next_frame(
                 promote_posted_frame(notify_frame_complete(Answered))))
    /\ UNCHANGED <<wanted, power_save, drawn>>

(* page_flip_feedback_discarded: whether the kernel took the gamma before  *)
(* the flip was given up is not known.                                     *)
page_flip_feedback_discarded ==
    /\ kms # NoUpdate
    /\ hw' \in {hw, HwGamma}
    /\ LET again == /\ o.gamma.target # 0
                    /\ o.infos # <<>>
                    /\ FrameCounter >= o.gamma.target
           s == IF again THEN [Answered EXCEPT !.o.gamma = [invalidated |-> TRUE,
                                                            target |-> 0]]
                         ELSE Answered
       IN Becomes(maybe_post_next_frame(clear_posted_fb(notify_frame_complete(s))))
    /\ UNCHANGED <<wanted, power_save, drawn>>

(* One result listener told of an error; nothing posts the next frame. An  *)
(* update has one listener, or two, which are told in their order.         *)
result_feedback(s, listener) ==
    IF listener = "finish_frame" /\ s.o.infos = <<>>
    THEN [s EXCEPT !.o.warnings = @ \cup {"no frame info"}]
    ELSE clear_posted_fb(notify_frame_complete(s))

results_feedback(s, listeners) ==
    LET t == result_feedback(s, listeners[1]) IN
    IF Len(listeners) = 1 THEN t ELSE result_feedback(t, listeners[2])

UpdateFailed ==
    /\ "refused" \in world
    /\ kms # NoUpdate
    /\ Becomes(results_feedback(Answered, kms.listeners))
    /\ UNCHANGED <<hw, wanted, power_save, drawn>>

(* The timer of meta_renderer_native_queue_power_save_page_flip.           *)
dummy_power_save_page_flip_idle == \* mutant: what is superseded stays
    /\ o.dummy_flip
    /\ Becomes(maybe_post_next_frame([State EXCEPT !.o.dummy_flip = FALSE]))
    /\ UNCHANGED <<hw, wanted, power_save, drawn>>
dummy_power_save_page_flip ==
    /\ o.dummy_flip
    /\ Becomes(maybe_post_next_frame(
                 clear_superseded_frame([State EXCEPT !.o.dummy_flip = FALSE])))
    /\ UNCHANGED <<hw, wanted, power_save, drawn>>

(* The next frame carries the gamma again. *)
meta_onscreen_native_invalidate(onscreen) == [onscreen EXCEPT !.gamma.invalidated = TRUE]

(* on_power_save_mode_changed: KMS then gives up the flips it had (any     *)
(* time later), and when the mode is ON again the whole stage is drawn     *)
(* anew (MetaStage), with meta_onscreen_native_invalidate unless a hotplug *)
(* turned it on.                                                           *)
PowerSave ==
    /\ "power" \in world
    /\ power_save' = ~power_save
    /\ \E reason \in {"mode change", "hotplug"} :
         o' = IF power_save /\ reason = "mode change"
              THEN meta_onscreen_native_invalidate(o) ELSE o
    /\ UNCHANGED <<kms, clock, hw, wanted, drawn, world>>

KmsAnswers ==
    \/ notify_view_crtc_presented
    \/ page_flip_feedback_ready
    \/ page_flip_feedback_discarded
    \/ UpdateFailed

Next ==
    \/ Redraw
    \/ RedrawFails
    \/ NoRedraw
    \/ NeedsFlush
    \/ on_gamma_lut_changed
    \/ KmsAnswers
    \/ dummy_power_save_page_flip
    \/ PowerSave

Spec == Init /\ [][Next]_vars

(* KMS answers every update (module KmsImplDevice) and timers fire.        *)
FairSpec ==
    /\ Spec
    /\ WF_vars(KmsAnswers)
    /\ WF_vars(dummy_power_save_page_flip)

-----------------------------------------------------------------------------
(* Frame infos are taken when a frame with a buffer is handed over, and    *)
(* when one without is posted.                                             *)
Only(f, informed) == IF informed THEN <<f>> ELSE <<>>

Informed ==
    Only(o.posted, o.posted # NoFrame) \o Only(o.superseded, o.superseded.buffer)
      \o Only(o.next, o.next.buffer)

(* Frames that were handed over and have not been given a frame info yet.  *)
Uninformed ==
    Only(o.superseded, o.superseded # NoFrame /\ ~o.superseded.buffer)
      \o Only(o.next, o.next # NoFrame /\ ~o.next.buffer)

(* Frames without damage take their infos late. Where they meet power      *)
(* saving, refused updates or failed swaps, answers may miss their frames. *)
Tame == "undamaged" \in world => world \subseteq {"undamaged", "gamma"}

TypeOK ==
    LET Frames == [id : 0..MaxFrames, buffer : BOOLEAN, scanout : BOOLEAN,
                   update : BOOLEAN, gamma : 0..MaxGammas + 1]
    IN /\ {o.posted, o.superseded, o.next} \subseteq Frames
       /\ o.infos \in Seq([id : 1..MaxFrames, counter : Nat])
       /\ o.presented \in 0..MaxFrames
       /\ clock \in 0..2
       /\ hw \in 0..MaxGammas + 1 /\ wanted \in 1..MaxGammas + 1

(* Every completion is of the frame it is meant for: the frame infos are   *)
(* those of the posted, the superseded and the next frame, in this order,  *)
(* and the clock knows of these frames and no other. A swap that fails     *)
(* completes the oldest frame in place of its own.                         *)
InfosInOrder ==
    "swap" \notin world =>
    /\ [i \in DOMAIN o.infos |-> o.infos[i].id] = [i \in DOMAIN Informed |-> Informed[i].id]
    /\ clock = Len(Informed) + Len(Uninformed)

(* However frames fail, there are as many frame infos as there are frames  *)
(* for which one was taken: no answer will find the queue empty.           *)
InfosCounted == Len(o.infos) = Len(Informed)

(* The frame infos match the frames in flight, in number and order.        *)
InfosAgree == TypeOK /\ (Tame => InfosCounted /\ InfosInOrder)

(* A view does not freeze: a posted frame is one KMS still has to answer,  *)
(* since only its answer makes room for the next.                          *)
PostedIsDriven == o.posted # NoFrame => kms.id = o.posted.id

(* A drawn frame is not left behind: it waits for the posted frame, or for *)
(* the timer that stands in for page flips while power is saved. After an  *)
(* update was refused it waits for the next frame that is drawn.           *)
NextIsDriven == "refused" \notin world /\ o.next # NoFrame => o.posted # NoFrame \/ o.dummy_flip

(* Neither the posted nor the waiting frame is left where it is.           *)
FramesAreDriven == Tame => PostedIsDriven /\ NextIsDriven

(* The gamma that was asked for last reaches the kernel: it is there, or   *)
(* the frame that will be posted or that KMS has carries it, or the next   *)
(* frame drawn will.                                                       *)
GammaKept ==
    hw = wanted \/ o.gamma.invalidated \/ wanted \in {o.next.gamma, kms.gamma}

(* As long as every frame is drawn and none fails, no gamma is lost, but   *)
(* for that of the very first frame: a target of 0 means that there is     *)
(* none (meta-onscreen-native.c:380).                                      *)
GammaNotLost == world = {"gamma"} /\ FirstCounter > 0 => GammaKept

(* The clock's frame() is never completed twice (g_warn_if_reached in      *)
(* clutter_frame_clock_notify_ready).                                      *)
NoSpuriousNotify == "not dispatched" \notin o.warnings

(* "The feedback callback was called, but there was no frame info"         *)
FeedbackHasInfo == "no frame info" \notin o.warnings

(* g_return_if_fail (!frame_native->kms_update), meta-frame-native.c       *)
ReleasedWithoutUpdate == "released with update" \notin o.warnings

(* Whatever KMS answers and whether or not power is saved, the clock gets  *)
(* to draw again.                                                          *)
ClockNotStuck == []<>(clock < 2)
==============================================================================
