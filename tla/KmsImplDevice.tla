---------------------------- MODULE KmsImplDevice ----------------------------
(***************************************************************************)
(* MetaKmsImplDevice with its atomic backend: how the KMS thread turns the *)
(* updates onscreens post into atomic commits, one page flip at a time per *)
(* CRTC, latched as late as a deadline timer allows so that the cursor     *)
(* plane is up to date                                                     *)
(* (src/backends/native/meta-kms-impl-device.c, ...-atomic.c,              *)
(* meta-kms-cursor-manager.c, and how meta-onscreen-native.c and           *)
(* meta-renderer-native.c post to them).                                   *)
(*                                                                         *)
(* What the thread and the kernel know is the record dev, so that the      *)
(* functions that call one another compose as operators from records to    *)
(* records.  The outcome of an ioctl is a parameter: ok (the commit        *)
(* passed) and dl (what determining the deadline returned).                *)
(*                                                                         *)
(* An update is the set of what it carries; {} is a NULL update.           *)
(*   "frame"   the listeners of the frame its onscreen has posted          *)
(*   "orphan"  the listeners of a frame whose view has been rebuilt since  *)
(*   "plane"   assignments or properties to commit                         *)
(*   "vrr"     a change of the variable refresh rate property              *)
(* Merging two updates is their union.                                     *)
(***************************************************************************)
EXTENDS Integers

CONSTANTS
    Crtcs,
    VrrCapable,         \* the CRTCs whose monitor has a variable refresh rate
    HighPriority,       \* the KMS thread got real-time or high priority
    SyncCursorPrimary   \* whether META_DEBUG_PAINT_SYNC_CURSOR_PRIMARY is set:
                        \* the values to be considered

ASSUME DeviceAssumption ==
    /\ VrrCapable \subseteq Crtcs
    /\ HighPriority \in BOOLEAN
    /\ SyncCursorPrimary \subseteq BOOLEAN

VARIABLES
    dev,          \* see DeviceType
    master,       \* the session holds DRM master
    posted,       \* onscreen->posted_frame: none, queued for the mode set, or posted
    mode_views,   \* renderer_native->pending_mode_set_views
    mode_set,     \* renderer_native->pending_mode_set
    fresh,        \* views never painted: their first frame redraws all and swaps
    power         \* META_POWER_SAVE_ON

mainVars == <<posted, mode_views, mode_set, fresh>>
vars == <<dev, master, mainVars, power>>
-----------------------------------------------------------------------------
Items == {"frame", "orphan", "plane", "vrr"}
Null == {}
IsEmpty(u) == u \cap {"plane", "vrr"} = {}

CrtcFrame ==
    [exists : BOOLEAN,
     await_flush : BOOLEAN,
     pending : SUBSET Items,
     submitted : SUBSET Items,     \* waits for its sync file
     pending_page_flip : BOOLEAN,
     source : BOOLEAN,             \* deadline.source and its timerfd exist
     armed : BOOLEAN,              \* deadline.armed
     timer_set : BOOLEAN]          \* the timerfd will expire

NewCrtcFrame == [exists |-> FALSE, await_flush |-> FALSE, pending |-> Null,
                 submitted |-> Null, pending_page_flip |-> FALSE,
                 source |-> FALSE, armed |-> FALSE, timer_set |-> FALSE]

DeviceType ==
    [sync_cursor_primary : BOOLEAN,      \* never changes
     timer_state : {"ENABLED", "INHIBITED", "DISABLED"},
     frame : [Crtcs -> CrtcFrame],
     active : SUBSET Crtcs,              \* with a valid mode, as predicted
     vrr : SUBSET Crtcs,                 \* vrr.enabled, as predicted
     listeners : [Crtcs -> SUBSET {"impl", "frame", "orphan"}],  \* page_flip_datas
     kernel : [Crtcs -> {"idle", "flipping"}],
     events : SUBSET Crtcs,              \* flip events to be read from the device
     urgent : BOOLEAN,                   \* ... that are there before the next poll
     callbacks : SUBSET ({"flipped", "cursor_passed"} \X Crtcs),  \* for the KMS thread
     answers : [Crtcs -> Nat],           \* flips and failures for the main thread
     needs_flush : SUBSET Crtcs,         \* needs_flush_crtcs
     cursor_invalidated : SUBSET Crtcs,
     cursor_stale : SUBSET Crtcs,        \* history: shown where it no longer is
     busy : BOOLEAN]                     \* history: committed while a flip was pending

TypeOK ==
    /\ dev \in DeviceType
    /\ master \in BOOLEAN
    /\ posted \in [Crtcs -> {"none", "queued", "posted"}]
    /\ mode_views \subseteq Crtcs
    /\ mode_set \in BOOLEAN
    /\ fresh \subseteq Crtcs
    /\ power \in BOOLEAN

DeadlineResults == {"ok", "error"} \cup (IF master THEN {} ELSE {"denied"})
-----------------------------------------------------------------------------
(* Result feedback: a listener is told of the failure of its frame. *)
Fail(d, c, u) == IF "frame" \in u THEN [d EXCEPT !.answers[c] = @ + 1] ELSE d

is_using_deadline_timer(d) == d.timer_state = "ENABLED" /\ HighPriority

disarm_crtc_frame_deadline_timer(d, c) ==
    IF d.frame[c].source
    THEN [d EXCEPT !.frame[c].armed = FALSE, !.frame[c].timer_set = FALSE]
    ELSE d

arm_crtc_frame_deadline_timer(d, c) ==
    IF d.frame[c].source
    THEN [d EXCEPT !.frame[c].armed = TRUE, !.frame[c].timer_set = TRUE]
    ELSE d

(* ensure_deadline_timer_armed: what it returns, and what it does. *)
DeadlineArmed(d, c, dl) == d.frame[c].armed \/ (c \in d.active /\ dl = "ok")

ensure_deadline_timer_armed(d, c, dl) ==
    IF d.frame[c].armed \/ c \notin d.active THEN d
    ELSE CASE dl = "ok"     -> arm_crtc_frame_deadline_timer(d, c)
           [] dl = "denied" -> [d EXCEPT !.timer_state = "INHIBITED"]
           [] dl = "error"  -> [d EXCEPT !.timer_state = "DISABLED"]

ensure_crtc_frame(d, c) ==
    LET f == d.frame[c]
        using == is_using_deadline_timer(d)
    IN  [d EXCEPT !.frame[c] =
            [f EXCEPT !.exists = TRUE,
                      !.await_flush = IF f.exists THEN @ ELSE c \notin d.active,
                      !.source = using,
                      !.timer_set = @ /\ using]]
-----------------------------------------------------------------------------
(* Commits. *)

(* The kernel takes a non-blocking commit only from the master, on a lit    *)
(* CRTC that has no flip pending; it may refuse it for reasons of its own.  *)
CanCommit(d, c) == master /\ c \in d.active /\ d.kernel[c] = "idle"

PredictVrr(d, c, u) ==
    IF "vrr" \notin u THEN d.vrr
    ELSE IF c \in d.vrr THEN d.vrr \ {c} ELSE d.vrr \cup {c}

Pass(d, c, u, cursor) ==
    [d EXCEPT !.kernel[c] = "flipping",
              !.listeners[c] = @ \cup {"impl"} \cup (u \cap {"frame", "orphan"}),
              !.frame[c].pending_page_flip = TRUE,
              !.callbacks = IF cursor THEN @ \cup {<<"cursor_passed", c>>} ELSE @,
              !.cursor_stale = IF cursor THEN @ \ {c} ELSE @,
              !.vrr = PredictVrr(d, c, u)]

(* process_update of the atomic backend failed. *)
Refuse(d, c, u) ==
    Fail([d EXCEPT !.frame[c].pending_page_flip = FALSE,
                   !.busy = @ \/ (master /\ d.kernel[c] = "flipping"),
                   !.vrr = PredictVrr(d, c, u)], c, u)

(* do_process for one latched CRTC.  The update filter is the cursor        *)
(* manager's: an invalidated cursor joins every update, or makes one.       *)
do_process(d, c, u, ok) ==
    LET cursor == c \in d.cursor_invalidated
        merged == u \cup d.frame[c].pending
        stolen == [d EXCEPT !.frame[c].pending = Null]
    IN  IF IsEmpty(u) /\ ~cursor THEN Fail(d, c, u)
        ELSE IF ok /\ CanCommit(d, c) THEN Pass(stolen, c, merged, cursor)
        ELSE Refuse(stolen, c, merged)

Passed(before, after, c) == before.kernel[c] # after.kernel[c]

do_process_update(d, c, u, ok) ==
    LET held == d.frame[c].pending
        d1 == IF held = Null THEN d
              ELSE disarm_crtc_frame_deadline_timer(
                       [d EXCEPT !.frame[c].pending = Null], c)
        d2 == [d1 EXCEPT !.needs_flush = @ \ {c}]
        d3 == do_process(d2, c, u \cup held, ok)
    IN  IF Passed(d2, d3, c) THEN disarm_crtc_frame_deadline_timer(d3, c) ELSE d3

queue_update(d, c, u) == [d EXCEPT !.frame[c].pending = @ \cup u]

(* Variant: a pending page flip does not hold the update back. *)
update_ready_ignores_flip(d, c, ok, dl) ==
    do_process_update([d EXCEPT !.frame[c].submitted = Null], c,
                      d.frame[c].submitted, ok)

(* meta_kms_impl_device_update_ready: the submitted update can be used. *)
update_ready(d, c, ok, dl) ==
    LET f == d.frame[c]
        u == f.submitted
        d1 == [d EXCEPT !.frame[c].submitted = Null]
        want_deadline_timer == /\ c \notin d.vrr
                               /\ ~f.await_flush
                               /\ is_using_deadline_timer(d)
        d2 == queue_update(d1, c, u)
        d3 == ensure_deadline_timer_armed(d2, c, dl)
    IN  IF f.pending_page_flip THEN d2
        ELSE IF ~want_deadline_timer THEN do_process_update(d1, c, u, ok)
        ELSE IF DeadlineArmed(d2, c, dl) THEN d3
        ELSE do_process_update(d3, c, Null, ok)

(* ready: there is no sync file, or it is signalled. *)
handle_update(d, c, u, ready, ok, dl) ==
    LET d1 == ensure_crtc_frame(d, c)
        d2 == [d1 EXCEPT !.frame[c].await_flush = FALSE,
                         !.frame[c].submitted = u]
    IN  IF d1.frame[c].submitted # Null THEN Fail(d1, c, u)
        ELSE IF is_using_deadline_timer(d2) /\ ~ready THEN d2
        ELSE update_ready(d2, c, ok, dl)

set_needs_flush(d, c) == [d EXCEPT !.needs_flush = @ \cup {c}]

(* Variant: a held update is not processed when no deadline is known. *)
schedule_process_keeps(d, c, ok, dl) ==
    LET d1 == ensure_crtc_frame(d, c)
        f == d1.frame[c]
        d2 == ensure_deadline_timer_armed(d1, c, dl)
    IN  IF f.await_flush THEN d1
        ELSE IF ~is_using_deadline_timer(d1) THEN set_needs_flush(d1, c)
        ELSE IF f.pending_page_flip THEN d1
        ELSE IF DeadlineArmed(d1, c, dl) THEN d2
        ELSE set_needs_flush(d2, c)

schedule_process(d, c, ok, dl) ==
    LET d1 == ensure_crtc_frame(d, c)
        f == d1.frame[c]
        d2 == ensure_deadline_timer_armed(d1, c, dl)
    IN  IF f.await_flush THEN d1
        ELSE IF ~is_using_deadline_timer(d1) THEN set_needs_flush(d1, c)
        ELSE IF f.pending_page_flip THEN d1
        ELSE IF DeadlineArmed(d1, c, dl) THEN d2
        ELSE set_needs_flush(IF f.pending # Null
                             THEN do_process_update(d2, c, Null, ok)
                             ELSE d2, c)

(* A flip of the latched CRTC is done: the next update may go. *)
notify_crtc_frame_ready(d, c, ok, dl) ==
    LET d1 == [d EXCEPT !.frame[c].pending_page_flip = FALSE] IN
    IF d1.frame[c].pending = Null \/ d1.frame[c].await_flush THEN d1
    ELSE schedule_process(d1, c, ok, dl)

(* Variant: only the pending update is discarded. *)
disarm_all_frame_sources_pending_only(d) ==
    [d EXCEPT
        !.frame = [c \in Crtcs |->
            [d.frame[c] EXCEPT !.await_flush = FALSE,
                               !.pending_page_flip = FALSE,
                               !.armed = @ /\ ~d.frame[c].source,
                               !.timer_set = FALSE,
                               !.pending = Null,
                               !.submitted = Null]],
        !.answers = [c \in Crtcs |->
            d.answers[c] + (IF "frame" \in d.frame[c].pending THEN 1 ELSE 0)]]

disarm_all_frame_sources(d) ==
    [d EXCEPT
        !.frame = [c \in Crtcs |->
            [d.frame[c] EXCEPT !.await_flush = FALSE,
                               !.pending_page_flip = FALSE,
                               !.armed = @ /\ ~d.frame[c].source,
                               !.timer_set = FALSE,
                               !.pending = Null,
                               !.submitted = Null]],
        !.answers = [c \in Crtcs |->
            d.answers[c] + (IF "frame" \in d.frame[c].pending THEN 1 ELSE 0)
                         + (IF "frame" \in d.frame[c].submitted THEN 1 ELSE 0)]]

(* A blocking commit waits for the flips before it, then completes its own: *)
(* their events are readable when it returns.                               *)
BlockingCommit(d, S) ==
    [d EXCEPT !.kernel = [c \in Crtcs |-> "idle"],
              !.events = @ \cup S \cup {c \in Crtcs : d.kernel[c] # "idle"}]

(* The master is refused one only when no flip is in flight (assumed). *)
MayBeRefused(d) == ~master \/ \A c \in Crtcs : d.kernel[c] = "idle"

(* process_mode_set_update for the frames queued on the CRTCs S. *)
process_mode_set_update(d, S, ok) ==
    LET d1 == [disarm_all_frame_sources(d) EXCEPT !.active = @ \cup S]
        cursors == S \cap d.cursor_invalidated
    IN  IF ok /\ master
        THEN [BlockingCommit(d1, S) EXCEPT
                 !.listeners = [c \in Crtcs |-> IF c \in S THEN @[c] \cup {"frame"} ELSE @[c]],
                 !.callbacks = @ \cup ({"cursor_passed"} \X cursors),
                 !.cursor_stale = @ \ cursors]
        ELSE [d1 EXCEPT
                 !.answers = [c \in Crtcs |-> IF c \in S THEN @[c] + 1 ELSE @[c]]]
-----------------------------------------------------------------------------
Init ==
    /\ \E sync \in SyncCursorPrimary :
       dev = [sync_cursor_primary |-> sync,
              timer_state |-> "ENABLED",
              frame |-> [c \in Crtcs |-> NewCrtcFrame],
              active |-> {}, vrr |-> {},
              listeners |-> [c \in Crtcs |-> {}],
              kernel |-> [c \in Crtcs |-> "idle"],
              events |-> {}, urgent |-> FALSE, callbacks |-> {},
              answers |-> [c \in Crtcs |-> 0],
              needs_flush |-> {}, cursor_invalidated |-> Crtcs,
              cursor_stale |-> {}, busy |-> FALSE]
    /\ master = TRUE
    /\ posted = [c \in Crtcs |-> "none"]
    /\ mode_views = Crtcs
    /\ mode_set = TRUE
    /\ fresh = Crtcs
    /\ power = TRUE

(* Variant: tasks are no less urgent than callbacks. *)
TasksRunAnyTime == TRUE

(* The thread's main loop runs one task an iteration, and only when there   *)
(* are neither callbacks (G_PRIORITY_HIGH + 1) nor events that were there   *)
(* when it polled (G_PRIORITY_HIGH).  An event that arrives later may be    *)
(* overtaken by one dispatch.                                               *)
TasksRun == ~dev.urgent /\ dev.callbacks = {}

Polled(d) == [d EXCEPT !.urgent = d.events # {}]

(* maybe_post_next_frame: queue the frame for the mode set, set the modes   *)
(* with the last of them, or post it by itself.                             *)
PostFrame(c, change) ==
    /\ TasksRun
    /\ power
    /\ posted[c] = "none"
    /\ mode_views' = mode_views \ {c}
    /\ fresh' = fresh \ {c}
    /\ IF mode_views' # {}
       THEN /\ posted' = [posted EXCEPT ![c] = "queued"]
            /\ UNCHANGED <<dev, mode_set>>
       ELSE IF mode_set
       THEN /\ posted' = [e \in Crtcs |-> IF e = c \/ posted[e] = "queued"
                                          THEN "posted" ELSE posted[e]]
            /\ mode_set' = FALSE
            /\ \E ok \in BOOLEAN :
                  /\ ok \/ MayBeRefused(dev)
                  /\ dev' = Polled(process_mode_set_update(
                             dev, {e \in Crtcs : e = c \/ posted[e] = "queued"}, ok))
       ELSE /\ posted' = [posted EXCEPT ![c] = "posted"]
            /\ \E ready, ok \in BOOLEAN, dl \in DeadlineResults :
                  dev' = Polled(handle_update(dev, c, {"frame", "plane"} \cup change,
                                              ready, ok, dl))
            /\ UNCHANGED mode_set
    /\ UNCHANGED <<master, power>>

(* meta_onscreen_native_finish_frame: a frame without a swap carries        *)
(* properties, or only makes the KMS thread flush its cursor.               *)
FinishFrame(c) ==
    /\ TasksRun
    /\ posted[c] = "none"
    /\ c \in fresh => ~power
    /\ \E u \in {{"frame"}, {"frame", "plane"}} :
          /\ u = {"frame"} => c \in dev.needs_flush
          /\ \E ok \in BOOLEAN, dl \in DeadlineResults :
                dev' = Polled(handle_update([dev EXCEPT !.needs_flush = @ \ {c}],
                                            c, u, TRUE, ok, dl))
    /\ posted' = [posted EXCEPT ![c] = "posted"]
    /\ UNCHANGED <<master, mode_views, mode_set, fresh, power>>

(* The sync file of a submitted update is signalled. *)
SyncFileReady(c) ==
    /\ ~dev.urgent
    /\ dev.frame[c].submitted # Null
    /\ \E ok \in BOOLEAN, dl \in DeadlineResults : dev' = update_ready(dev, c, ok, dl)
    /\ UNCHANGED <<master, mainVars, power>>

crtc_frame_deadline_dispatch(d, c, ok) ==
    disarm_crtc_frame_deadline_timer(
        do_process([d EXCEPT !.frame[c].pending = Null], c, d.frame[c].pending, ok), c)

DeadlineDispatch(c) ==
    /\ ~dev.urgent
    /\ dev.frame[c].timer_set
    /\ \E ok \in BOOLEAN : dev' = crtc_frame_deadline_dispatch(dev, c, ok)
    /\ UNCHANGED <<master, mainVars, power>>

(* meta_onscreen_native_before_redraw, with the debug flag only. *)
AwaitFlush(c) ==
    /\ dev.sync_cursor_primary
    /\ TasksRun
    /\ LET d == [ensure_crtc_frame(dev, c) EXCEPT !.frame[c].await_flush = TRUE]
       IN  dev' = Polled(IF d.frame[c].armed
                         THEN disarm_crtc_frame_deadline_timer(d, c) ELSE d)
    /\ UNCHANGED <<master, mainVars, power>>

(* The pointer moved (a task of the input thread), or its sprite changed. *)
CursorChanged(c) ==
    /\ TasksRun
    /\ \E ok \in BOOLEAN, dl \in DeadlineResults :
          dev' = Polled(schedule_process(
                     [dev EXCEPT !.cursor_invalidated = @ \cup {c},
                                 !.cursor_stale = @ \cup {c}], c, ok, dl))
    /\ UNCHANGED <<master, mainVars, power>>

KernelFlip(c) ==
    /\ dev.kernel[c] # "idle"
    /\ dev' = [dev EXCEPT !.kernel[c] = "idle", !.events = @ \cup {c}]
    /\ UNCHANGED <<master, mainVars, power>>

(* Variant: the page flip data keeps its listeners after the flip. *)
EventDispatchKeepsListeners ==
    /\ dev.events # {}
    /\ LET heard(l) == {c \in dev.events : l \in dev.listeners[c]} IN
       dev' = [dev EXCEPT
                  !.events = {},
                  !.urgent = FALSE,
                  !.callbacks = @ \cup ({"flipped"} \X heard("impl")),
                  !.answers = [c \in Crtcs |-> IF c \in heard("frame") THEN @[c] + 1
                                                                       ELSE @[c]]]
    /\ UNCHANGED <<master, mainVars, power>>

(* kms_event_dispatch_in_impl and atomic_page_flip_handler: the listeners'  *)
(* callbacks are queued, the thread's own as well as the main thread's.     *)
EventDispatch ==
    /\ dev.events # {}
    /\ LET heard(l) == {c \in dev.events : l \in dev.listeners[c]} IN
       dev' = [dev EXCEPT
                  !.events = {},
                  !.urgent = FALSE,
                  !.listeners = [c \in Crtcs |-> IF c \in dev.events THEN {} ELSE @[c]],
                  !.callbacks = @ \cup ({"flipped"} \X heard("impl")),
                  !.answers = [c \in Crtcs |-> IF c \in heard("frame") THEN @[c] + 1
                                                                       ELSE @[c]]]
    /\ UNCHANGED <<master, mainVars, power>>

FlippedCallback(c) ==
    /\ ~dev.urgent
    /\ <<"flipped", c>> \in dev.callbacks
    /\ \E ok \in BOOLEAN, dl \in DeadlineResults :
          dev' = notify_crtc_frame_ready(
                     [dev EXCEPT !.callbacks = @ \ {<<"flipped", c>>}], c, ok, dl)
    /\ UNCHANGED <<master, mainVars, power>>

(* cursor_result_feedback *)
CursorPassedCallback(c) ==
    /\ ~dev.urgent
    /\ <<"cursor_passed", c>> \in dev.callbacks
    /\ dev' = [dev EXCEPT !.callbacks = @ \ {<<"cursor_passed", c>>},
                          !.cursor_invalidated = @ \ {c}]
    /\ UNCHANGED <<master, mainVars, power>>

(* A flip or a failure reaches the onscreen, which lets go of its frame. *)
AnswerFrame(c) ==
    /\ dev.answers[c] > 0
    /\ dev' = [dev EXCEPT !.answers[c] = @ - 1]
    /\ posted' = [posted EXCEPT ![c] = "none"]
    /\ UNCHANGED <<master, mode_views, mode_set, fresh, power>>

Orphan(u) == IF "frame" \in u THEN (u \ {"frame"}) \cup {"orphan"} ELSE u

(* meta_renderer_native_queue_modes_reset, whose last task gives the cursor *)
(* manager new CRTC states.                                                 *)
QueueModesReset ==
    /\ TasksRun
    /\ mode_views' = Crtcs
    /\ mode_set' = TRUE

(* A hotplug: views and onscreens are replaced. *)
RebuildViews ==
    /\ QueueModesReset
    /\ posted' = [c \in Crtcs |-> "none"]
    /\ fresh' = Crtcs
    /\ dev' = Polled([dev EXCEPT
                  !.frame = [c \in Crtcs |-> [dev.frame[c] EXCEPT !.pending = Orphan(@),
                                                                  !.submitted = Orphan(@)]],
                  !.listeners = [c \in Crtcs |-> Orphan(dev.listeners[c])],
                  !.answers = [c \in Crtcs |-> 0],
                  !.cursor_invalidated = Crtcs])
    /\ UNCHANGED <<master, power>>

PowerOn ==
    /\ ~power
    /\ QueueModesReset
    /\ power' = TRUE
    /\ dev' = Polled([dev EXCEPT !.cursor_invalidated = Crtcs])
    /\ UNCHANGED <<master, posted, fresh>>

(* meta_kms_impl_device_disable *)
PowerOff ==
    /\ TasksRun
    /\ power
    /\ power' = FALSE
    /\ LET d == [disarm_all_frame_sources(dev) EXCEPT !.active = {}] IN
       \/ master /\ dev' = Polled(BlockingCommit(d, {}))
       \/ MayBeRefused(dev) /\ dev' = Polled(d)
    /\ UNCHANGED <<master, mainVars>>

(* The session is switched away from, and back once the other one has set   *)
(* its modes: by then the flips and the rendering in flight are done.       *)
Pause ==
    /\ master
    /\ master' = FALSE
    /\ UNCHANGED <<dev, mainVars, power>>

Resume ==
    /\ ~master
    /\ TasksRun
    /\ \A c \in Crtcs : dev.kernel[c] = "idle" /\ dev.frame[c].submitted = Null
    /\ dev.events = {}
    /\ master' = TRUE
    /\ dev' = [dev EXCEPT !.timer_state = IF @ = "INHIBITED" THEN "ENABLED" ELSE @]
    /\ UNCHANGED <<mainVars, power>>

Next ==
    \/ \E c \in Crtcs :
          \/ \E change \in SUBSET {"vrr"} :
                (change # {} => c \in VrrCapable) /\ PostFrame(c, change)
          \/ FinishFrame(c)
          \/ SyncFileReady(c)
          \/ DeadlineDispatch(c)
          \/ AwaitFlush(c)
          \/ CursorChanged(c)
          \/ KernelFlip(c)
          \/ FlippedCallback(c)
          \/ CursorPassedCallback(c)
          \/ AnswerFrame(c)
    \/ EventDispatch
    \/ RebuildViews
    \/ PowerOn
    \/ PowerOff
    \/ Pause
    \/ Resume

Spec == Init /\ [][Next]_vars

(* The kernel completes flips, the thread's main loop runs what is ready,   *)
(* rendering ends, deadlines pass and the main thread takes its callbacks.  *)
(* Events put the sources one priority below them off for an iteration, and *)
(* the next one dispatches those of them that are ready before any task:    *)
(* events that keep coming cannot starve them, hence strong fairness.       *)
Fairness ==
    /\ WF_vars(EventDispatch)
    /\ \A c \in Crtcs :
          /\ WF_vars(KernelFlip(c))
          /\ SF_vars(FlippedCallback(c))
          /\ SF_vars(CursorPassedCallback(c))
          /\ SF_vars(SyncFileReady(c))
          /\ SF_vars(DeadlineDispatch(c))
          /\ WF_vars(AnswerFrame(c))

FairSpec == Spec /\ Fairness
-----------------------------------------------------------------------------
(***************************************************************************)
(* Properties.                                                             *)
(***************************************************************************)

(* The places a posted frame may be: an update that waits for its sync     *)
(* file, one that waits for its deadline or a flip, the listeners of a     *)
(* flip in flight, the mode set update, or an answer on its way.           *)
Held(b) == IF b THEN 1 ELSE 0

Places(c) == Held("frame" \in dev.frame[c].submitted)
           + Held("frame" \in dev.frame[c].pending)
           + Held("frame" \in dev.listeners[c])
           + Held(posted[c] = "queued")
           + dev.answers[c]

(* A posted frame is in exactly one of them and an onscreen without one in *)
(* none, so that it is answered neither twice (which would complete the    *)
(* next frame too early) nor never (which would freeze its frame clock).   *)
HeldOnce == \A c \in Crtcs : Places(c) = Held(posted[c] # "none")

(* No update is committed while a flip it has to wait for is pending, so   *)
(* the kernel never refuses one with EBUSY: pending_page_flip is never     *)
(* cleared by the late callback of a flip from before a mode set.          *)
NoBusyCommit == ~dev.busy

(* An update held back for a flip or a deadline has one coming, even when  *)
(* the deadline cannot be determined (the g_warning_once of                *)
(* meta_kms_impl_device_schedule_process is not reached).  With it         *)
(* update_ready never goes on with an update it has just merged and freed. *)
(* With the debug flag, await_flush takes the timer away on purpose.       *)
PendingIsDriven ==
    \A c \in Crtcs : dev.frame[c].pending # Null /\ ~dev.sync_cursor_primary =>
        \/ dev.frame[c].pending_page_flip
        \/ dev.frame[c].timer_set

(* A cursor change is still known to the cursor manager as long as it is   *)
(* not on the screen: the result of an earlier commit does not wipe it out.*)
CursorNotLost ==
    \A c \in dev.cursor_stale :
        c \in dev.cursor_invalidated /\ <<"cursor_passed", c>> \notin dev.callbacks

(* pending_page_flip says whether the kernel owes the thread a flip, from  *)
(* the commit until its callback has run.                                  *)
FlipKnown ==
    \A c \in Crtcs :
        dev.frame[c].pending_page_flip =>
            "impl" \in dev.listeners[c] \/ <<"flipped", c>> \in dev.callbacks

(* What the thread believes of page flips is so, and it commits by it.     *)
FlipsAgree == TypeOK /\ FlipKnown /\ NoBusyCommit

(* The safety of each CRTC, which the timer state, the event queue and the *)
(* mode set it shares with the others could disturb.                       *)
SafeTogether == HeldOnce /\ FlipsAgree /\ CursorNotLost

(* The views a mode set still waits for can provide their frames.          *)
ModeSetNotBlocked == \A c \in mode_views : posted[c] # "queued"

(* What the onscreens are promised. *)
Delivery == INSTANCE UpdateDelivery WITH
                waiting <- {c \in Crtcs : posted[c] # "none"},
                answers <- dev.answers

(* The KMS thread answers every posted frame, by a flip or by a failure,   *)
(* once, and never answers an onscreen that has posted none: what a frame  *)
(* clock's own bookkeeping of frames in flight takes for granted.          *)
DeliversOnce == Delivery!Spec

(* ... and without the debug flag it does answer each, whatever fails on   *)
(* the way: no frame clock waits for ever.                                 *)
DeliversEventually ==
    ~dev.sync_cursor_primary =>
        \A c \in Crtcs : posted[c] # "none" ~> posted[c] = "none"
=============================================================================
