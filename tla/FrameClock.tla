----------------------------- MODULE FrameClock -----------------------------
(***************************************************************************)
(* ClutterFrameClock: the per-output scheduler that decides when a stage   *)
(* view is repainted and how many frames may be in flight                  *)
(* (clutter/clutter/clutter-frame-clock.c).                                *)
(*                                                                         *)
(* The scheduling fields of struct _ClutterFrameClock are the record clock *)
(* so that the functions that call one another (maybe_reschedule_update -> *)
(* schedule_update_later -> schedule_update) compose as operators from     *)
(* records to records.  The Frame pool and its four pointers are variables *)
(* of their own.                                                           *)
(*                                                                         *)
(* Time is discrete, one unit a refresh cycle.  What the three             *)
(* calculate_next_* functions return is a choice (Guesses), because it     *)
(* depends on measurements this module does not carry.                     *)
(***************************************************************************)
EXTENDS Integers, FiniteSets

CONSTANTS
    Timelines,       \* animations that may be attached to the clock
    MaxTime,         \* bound: the last tick of the modelled wall clock
    MaxInhibit,      \* bound: nesting depth of inhibit ()
    MaxDeferred,     \* bound: future times pending at once
    InitiallyMapped  \* FALSE: the stage is shown only some time after the view exists

ASSUME ClockAssumption ==
    /\ MaxTime \in Nat \ {0}
    /\ MaxInhibit \in Nat
    /\ MaxDeferred \in Nat
    /\ InitiallyMapped \in BOOLEAN

VARIABLES
    clock,                   \* the scheduling fields, see ClockType
    use_count,               \* frame_pool[i].use_count
    prev_dispatch,           \* the four Frame pointers into the pool
    next_presentation,
    next_next_presentation,
    prev_presentation,
    dispatching,             \* TRUE while clutter_frame_clock_dispatch runs the listener
    stage_mapped,            \* the stage is realized and mapped
    now,                     \* g_get_monotonic_time ()
    owed,                    \* history: frames begun and not yet completed
    requested,               \* history: a mapped stage asked for an update since the last dispatch
    requested_now            \* history: ... with schedule_update_now

frameVars == <<use_count, prev_dispatch, next_presentation,
               next_next_presentation, prev_presentation>>
vars == <<clock, frameVars, dispatching, stage_mapped, now, owed, requested,
          requested_now>>
-----------------------------------------------------------------------------
(* ClutterFrameClockState *)
Scheduled == {"SCHEDULED", "SCHEDULED_NOW", "SCHEDULED_LATER"}
OneAndScheduled == {"DISPATCHED_ONE_AND_SCHEDULED",
                    "DISPATCHED_ONE_AND_SCHEDULED_NOW",
                    "DISPATCHED_ONE_AND_SCHEDULED_LATER"}
Unscheduled == {"INIT", "IDLE", "DISPATCHED_ONE", "DISPATCHED_TWO"}
HasSchedule == Scheduled \cup OneAndScheduled
ClockState == Unscheduled \cup HasSchedule

Now == {"SCHEDULED_NOW", "DISPATCHED_ONE_AND_SCHEDULED_NOW"}
Later == {"SCHEDULED_LATER", "DISPATCHED_ONE_AND_SCHEDULED_LATER"}

(* The state of a clock with one frame in flight and the given schedule. *)
OneAnd(s) == CASE s = "SCHEDULED"     -> "DISPATCHED_ONE_AND_SCHEDULED"
               [] s = "SCHEDULED_NOW" -> "DISPATCHED_ONE_AND_SCHEDULED_NOW"
               [] OTHER               -> "DISPATCHED_ONE_AND_SCHEDULED_LATER"

(* What is left of a state when its schedule is dropped. *)
WithoutSchedule(s) == CASE s \in Scheduled       -> "IDLE"
                        [] s \in OneAndScheduled -> "DISPATCHED_ONE"
                        [] OTHER                 -> s

(* Variant: one completion takes both frames out of flight. *)
AfterCompletionOfBoth(s) ==
    CASE s \in {"DISPATCHED_ONE", "DISPATCHED_TWO"} -> "IDLE"
      [] s = "DISPATCHED_ONE_AND_SCHEDULED"       -> "SCHEDULED"
      [] s = "DISPATCHED_ONE_AND_SCHEDULED_NOW"   -> "SCHEDULED_NOW"
      [] s = "DISPATCHED_ONE_AND_SCHEDULED_LATER" -> "SCHEDULED_LATER"

(* The state once the oldest frame in flight is completed. *)
AfterCompletion(s) ==
    CASE s = "DISPATCHED_ONE"                     -> "IDLE"
      [] s = "DISPATCHED_ONE_AND_SCHEDULED"       -> "SCHEDULED"
      [] s = "DISPATCHED_ONE_AND_SCHEDULED_NOW"   -> "SCHEDULED_NOW"
      [] s = "DISPATCHED_ONE_AND_SCHEDULED_LATER" -> "SCHEDULED_LATER"
      [] s = "DISPATCHED_TWO"                     -> "DISPATCHED_ONE"

(* The state once a frame is begun. *)
AfterDispatch(s) == IF s \in OneAndScheduled THEN "DISPATCHED_TWO"
                                             ELSE "DISPATCHED_ONE"

(* Frames the state says are in flight. *)
InFlight(s) == CASE s \in {"INIT", "IDLE"} \cup Scheduled         -> 0
                 [] s \in {"DISPATCHED_ONE"} \cup OneAndScheduled -> 1
                 [] OTHER                                         -> 2

Mode == {"FIXED", "VARIABLE", "PASSIVE"}
Unarmed == -1                   \* g_source_set_ready_time (source, -1)

FramePool == 1 .. 3
NoFrame == 0

ClockType ==
    [state : ClockState,
     mode : Mode,
     inhibit_count : 0 .. MaxInhibit,
     pending_reschedule : BOOLEAN,
     pending_reschedule_now : BOOLEAN,
     ready_time : Int,                \* of the GSource; Unarmed also when there is none
     next_presentation_time : Nat,    \* 0: !is_next_presentation_time_valid
     deferred_times : SUBSET (Nat \ {0}),  \* the sorted queue, as the set of its targets
     timelines : SUBSET Timelines,
     slow : BOOLEAN,                  \* updates take a cycle or more, or were never measured
     driver_asked : BOOLEAN]          \* the passive clock's driver owes a dispatch

(* What calculate_next_update_time_us, calculate_next_variable_update_time_us *)
(* and calculate_next_variable_update_timeout_us may return: when to update,  *)
(* for which presentation (0 when there are no measurements), and how much    *)
(* before a future target the update has to begin.                            *)
Guesses == [update : {now, now + 1},
            presentation : {0, now + 1, now + 2},
            lead : {0, 1}]

TypeOK ==
    /\ clock \in ClockType
    /\ use_count \in [FramePool -> Nat]
    /\ prev_dispatch \in FramePool \cup {NoFrame}
    /\ next_presentation \in FramePool \cup {NoFrame}
    /\ next_next_presentation \in FramePool \cup {NoFrame}
    /\ prev_presentation \in FramePool \cup {NoFrame}
    /\ dispatching \in BOOLEAN
    /\ stage_mapped \in BOOLEAN
    /\ now \in 0 .. MaxTime
    /\ owed \in Nat
    /\ requested \in BOOLEAN
    /\ requested_now \in BOOLEAN
-----------------------------------------------------------------------------
(* Scheduling. *)

want_triple_buffering(c) == c.mode # "PASSIVE" /\ c.slow

AskDriver(c) == [c EXCEPT !.driver_asked = TRUE]

Pend(c) == [c EXCEPT !.pending_reschedule = TRUE]
PendNow(c) == [c EXCEPT !.pending_reschedule = TRUE,
                        !.pending_reschedule_now = TRUE]

(* The clock may leave its state for one with a schedule. *)
CanSchedule(c) == \/ c.state \in {"INIT", "IDLE"} \cup HasSchedule
                  \/ c.state = "DISPATCHED_ONE" /\ want_triple_buffering(c)

WithSchedule(s, kind) == IF InFlight(s) = 0 THEN kind ELSE OneAnd(kind)

(* Variant: the inhibition is not looked at. *)
schedule_update_now_uninhibited(c, g) ==
    LET d == [c EXCEPT !.state = WithSchedule(c.state, "SCHEDULED_NOW")] IN
    CASE c.state \in Now -> c
      [] ~CanSchedule(c) -> PendNow(c)
      [] CanSchedule(c) /\ c.state \notin Now -> [d EXCEPT !.ready_time = now]

schedule_update_now(c, g) ==
    LET d == [c EXCEPT !.state = WithSchedule(c.state, "SCHEDULED_NOW")] IN
    IF c.inhibit_count > 0 THEN PendNow(c)
    ELSE IF c.state \in Now THEN c
    ELSE IF ~CanSchedule(c) THEN PendNow(c)
    ELSE CASE c.mode = "FIXED"    -> [d EXCEPT !.ready_time = now,
                                               !.next_presentation_time = 0]
           [] c.mode = "VARIABLE" -> [d EXCEPT !.ready_time = g.update,
                                               !.next_presentation_time = g.presentation]
           [] c.mode = "PASSIVE"  -> AskDriver(d)

(* Variant: a request is forgotten while two frames are in flight. *)
schedule_update_forgets(c, g) ==
    LET d == [c EXCEPT !.state = WithSchedule(c.state, "SCHEDULED")] IN
    IF c.inhibit_count > 0 THEN Pend(c)
    ELSE IF c.mode = "PASSIVE" THEN AskDriver(c)
    ELSE IF c.state \in HasSchedule \/ ~CanSchedule(c) THEN c
    ELSE [d EXCEPT !.ready_time = g.update]

schedule_update(c, g) ==
    LET d == [c EXCEPT !.state = WithSchedule(c.state, "SCHEDULED")] IN
    IF c.inhibit_count > 0 THEN Pend(c)
    ELSE IF c.mode = "PASSIVE" THEN AskDriver(c)
    ELSE IF c.state \in HasSchedule THEN c
    ELSE IF ~CanSchedule(c) THEN Pend(c)
    ELSE IF c.state = "INIT" THEN [d EXCEPT !.ready_time = now]
    ELSE [d EXCEPT !.ready_time = g.update,
                   !.next_presentation_time = IF c.mode = "FIXED" THEN g.presentation ELSE 0]

schedule_update_later(c, target, g) ==
    IF c.inhibit_count > 0 THEN Pend(c)
    ELSE IF c.mode = "PASSIVE" THEN AskDriver(c)
    ELSE IF c.state \in HasSchedule \ Later THEN c
    ELSE IF ~CanSchedule(c) THEN PendNow(c)
    ELSE IF g.presentation >= target THEN schedule_update(c, g)
    ELSE [c EXCEPT !.ready_time = target - g.lead,
                   !.pending_reschedule = TRUE,
                   !.state = WithSchedule(c.state, "SCHEDULED_LATER")]

(* clean_deferred_times: drop the targets the frame just shown has reached. *)
ReachedTimes(c) ==
    LET current == IF c.next_presentation_time # 0 THEN c.next_presentation_time ELSE now
    IN  {t \in c.deferred_times : t <= current}

(* Variant: only timelines make the clock continue. *)
maybe_reschedule_update_timelines_only(c, g) ==
    IF c.timelines # {} THEN schedule_update(c, g) ELSE c

maybe_reschedule_update(c, g) ==
    LET d == [c EXCEPT !.deferred_times = @ \ ReachedTimes(c)] IN
    IF c.pending_reschedule \/ c.timelines # {}
    THEN IF c.pending_reschedule_now
         THEN schedule_update_now([c EXCEPT !.pending_reschedule = FALSE,
                                            !.pending_reschedule_now = FALSE], g)
         ELSE schedule_update([c EXCEPT !.pending_reschedule = FALSE], g)
    ELSE IF d.deferred_times # {}
    THEN LET head == CHOOSE t \in d.deferred_times : \A u \in d.deferred_times : t <= u
         IN  schedule_update_later(d, head, g)
    ELSE IF ReachedTimes(c) # {} THEN schedule_update(d, g)
    ELSE d

(* Variant: an immediate schedule is remembered only if nothing is in flight. *)
DropScheduleForgetsNow(c) ==
    [c EXCEPT !.state = WithoutSchedule(c.state),
              !.pending_reschedule = @ \/ c.state \notin Unscheduled,
              !.pending_reschedule_now = @ \/ c.state = "SCHEDULED_NOW"]

(* inhibit and set_mode drop the schedule and remember it. *)
DropSchedule(c) ==
    [c EXCEPT !.state = WithoutSchedule(c.state),
              !.pending_reschedule = @ \/ c.state \notin Unscheduled,
              !.pending_reschedule_now = @ \/ c.state \in Now]
-----------------------------------------------------------------------------
(* The frame pool. *)

unref_frame(u, f) == IF f = NoFrame THEN u ELSE [u EXCEPT ![f] = @ - 1]

FreeFrames(u) == {f \in FramePool : u[f] = 0}

(* Variant: prev_dispatch is given back only after the new frame is taken. *)
PoolAtDispatchUnreleased(u) == u

(* The old prev_dispatch is given back before a frame is taken. *)
PoolAtDispatch(u) == unref_frame(u, prev_dispatch)

new_frame(u) == CHOOSE f \in FreeFrames(u) : \A h \in FreeFrames(u) : f <= h
-----------------------------------------------------------------------------
Init ==
    /\ clock = [state |-> "INIT", mode |-> "FIXED", inhibit_count |-> 0,
                pending_reschedule |-> FALSE, pending_reschedule_now |-> FALSE,
                ready_time |-> Unarmed, next_presentation_time |-> 0,
                deferred_times |-> {}, timelines |-> {}, slow |-> TRUE,
                driver_asked |-> FALSE]
    /\ use_count = [f \in FramePool |-> 0]
    /\ prev_dispatch = NoFrame
    /\ next_presentation = NoFrame
    /\ next_next_presentation = NoFrame
    /\ prev_presentation = NoFrame
    /\ dispatching = FALSE
    /\ stage_mapped = InitiallyMapped
    /\ now = 0
    /\ owed = 0
    /\ requested = FALSE
    /\ requested_now = FALSE

ScheduleUpdate ==
    /\ \E g \in Guesses : clock' = schedule_update(clock, g)
    /\ requested' = stage_mapped
    /\ UNCHANGED <<frameVars, dispatching, stage_mapped, now, owed, requested_now>>

ScheduleUpdateNow ==
    /\ \E g \in Guesses : clock' = schedule_update_now(clock, g)
    /\ requested' = stage_mapped
    /\ requested_now' = stage_mapped
    /\ UNCHANGED <<frameVars, dispatching, stage_mapped, now, owed>>

AddTimeline(t) ==
    /\ t \notin clock.timelines
    /\ LET c == [clock EXCEPT !.timelines = @ \cup {t}] IN
       IF clock.timelines = {}
       THEN /\ \E g \in Guesses : clock' = schedule_update(c, g)
            /\ requested' = stage_mapped
       ELSE clock' = c /\ UNCHANGED requested
    /\ UNCHANGED <<frameVars, dispatching, stage_mapped, now, owed, requested_now>>

RemoveTimeline(t) ==
    /\ t \in clock.timelines
    /\ clock' = [clock EXCEPT !.timelines = @ \ {t}]
    /\ UNCHANGED <<frameVars, dispatching, stage_mapped, now, owed, requested,
                   requested_now>>

AddFutureTime(when) ==
    /\ Cardinality(clock.deferred_times \cup {when}) <= MaxDeferred
    /\ \E g \in Guesses :
          clock' = maybe_reschedule_update(
                       [clock EXCEPT !.deferred_times = @ \cup {when}], g)
    /\ UNCHANGED <<frameVars, dispatching, stage_mapped, now, owed, requested,
                   requested_now>>

(* Variant: the source stays armed. *)
InhibitLeavesArmed ==
    /\ clock.inhibit_count < MaxInhibit
    /\ clock' = DropSchedule([clock EXCEPT !.inhibit_count = @ + 1])
    /\ UNCHANGED <<frameVars, dispatching, stage_mapped, now, owed, requested,
                   requested_now>>

Inhibit ==
    /\ clock.inhibit_count < MaxInhibit
    /\ LET c == [clock EXCEPT !.inhibit_count = @ + 1] IN
       clock' = IF c.inhibit_count = 1
                THEN [DropSchedule(c) EXCEPT !.ready_time = Unarmed]
                ELSE c
    /\ UNCHANGED <<frameVars, dispatching, stage_mapped, now, owed, requested,
                   requested_now>>

(* Variant: without the g_return_if_fail (inhibit_count > 0). *)
UninhibitUnchecked ==
    /\ clock' = [clock EXCEPT !.inhibit_count = @ - 1]
    /\ UNCHANGED <<frameVars, dispatching, stage_mapped, now, owed, requested,
                   requested_now>>

Uninhibit ==
    /\ clock.inhibit_count > 0
    /\ LET c == [clock EXCEPT !.inhibit_count = @ - 1] IN
       IF c.inhibit_count = 0
       THEN \E g \in Guesses : clock' = maybe_reschedule_update(c, g)
       ELSE clock' = c
    /\ UNCHANGED <<frameVars, dispatching, stage_mapped, now, owed, requested,
                   requested_now>>

(* Only maybe_update_frame_sync calls it, from within a dispatch. *)
SetMode(m) ==
    /\ dispatching
    /\ clock.mode # "PASSIVE"
    /\ m # clock.mode
    /\ \E g \in Guesses :
          clock' = maybe_reschedule_update(DropSchedule([clock EXCEPT !.mode = m]), g)
    /\ UNCHANGED <<frameVars, dispatching, stage_mapped, now, owed, requested,
                   requested_now>>

(* The view of a virtual monitor is handed to its PipeWire consumer. *)
SetPassive ==
    /\ ~dispatching
    /\ clock.mode = "FIXED"
    /\ clock' = [clock EXCEPT !.mode = "PASSIVE",
                              !.next_presentation_time = 0,
                              !.ready_time = Unarmed]
    /\ UNCHANGED <<frameVars, dispatching, stage_mapped, now, owed, requested,
                   requested_now>>

(* clutter_frame_clock_dispatch up to the listener's callbacks.  The GSource *)
(* calls it when due, a passive clock's driver whenever it wants a frame.    *)
(* In DISPATCHED_ONE and DISPATCHED_TWO it returns at once: no step.         *)
SourceDue(c) == /\ c.ready_time # Unarmed
                /\ c.ready_time <= now \/ now = MaxTime

Dispatch ==
    /\ ~dispatching
    /\ clock.mode = "PASSIVE" \/ SourceDue(clock)
    /\ clock.state \notin {"DISPATCHED_ONE", "DISPATCHED_TWO"}
    /\ clock' = [clock EXCEPT !.state = AfterDispatch(@),
                              !.ready_time = Unarmed,
                              !.driver_asked = FALSE]
    /\ LET u == PoolAtDispatch(use_count)
           f == new_frame(u)
       IN  /\ use_count' = [u EXCEPT ![f] = 2]
           /\ prev_dispatch' = f
           /\ IF next_presentation = NoFrame
              THEN next_presentation' = f /\ UNCHANGED next_next_presentation
              ELSE next_next_presentation' = f /\ UNCHANGED next_presentation
    /\ UNCHANGED prev_presentation
    /\ dispatching' = TRUE
    /\ owed' = owed + 1
    /\ requested' = FALSE
    /\ requested_now' = FALSE
    /\ UNCHANGED <<stage_mapped, now>>

(* A frame in flight was shown: the four pointers move up by one. *)
PresentFrame ==
    /\ use_count' = unref_frame(use_count, prev_presentation)
    /\ prev_presentation' = next_presentation
    /\ next_presentation' = next_next_presentation
    /\ next_next_presentation' = NoFrame
    /\ UNCHANGED prev_dispatch

(* The newest frame in flight is given back without having been shown. *)
ReadyFrame ==
    /\ IF next_next_presentation # NoFrame
       THEN /\ use_count' = unref_frame(use_count, next_next_presentation)
            /\ next_next_presentation' = NoFrame
            /\ UNCHANGED next_presentation
       ELSE /\ use_count' = unref_frame(use_count, next_presentation)
            /\ next_presentation' = NoFrame
            /\ UNCHANGED next_next_presentation
    /\ UNCHANGED <<prev_dispatch, prev_presentation>>

(* The listener completes frames it owes, possibly from within the dispatch. *)
CanComplete == owed > 0 /\ (dispatching => stage_mapped)

NotifyPresented ==
    /\ CanComplete
    /\ next_presentation # NoFrame
    /\ PresentFrame
    /\ \E g \in Guesses, slow \in BOOLEAN :
          clock' = IF InFlight(clock.state) = 0 THEN clock
                   ELSE maybe_reschedule_update(
                            [clock EXCEPT !.state = AfterCompletion(@),
                                          !.slow = slow], g)
    /\ owed' = owed - 1
    /\ UNCHANGED <<dispatching, stage_mapped, now, requested, requested_now>>

notify_ready ==
    /\ ReadyFrame
    /\ \E g \in Guesses :
          clock' = IF InFlight(clock.state) = 0 THEN clock
                   ELSE maybe_reschedule_update(
                            [clock EXCEPT !.state = AfterCompletion(@)], g)
    /\ owed' = owed - 1

NotifyReady ==
    /\ CanComplete
    /\ notify_ready
    /\ UNCHANGED <<dispatching, stage_mapped, now, requested, requested_now>>

(* The rest of clutter_frame_clock_dispatch, once the listener has answered. *)
FramePending ==
    /\ dispatching
    /\ stage_mapped
    /\ dispatching' = FALSE
    /\ UNCHANGED <<clock, frameVars, stage_mapped, now, owed, requested, requested_now>>

FrameIdle ==
    /\ dispatching
    /\ stage_mapped
    /\ owed > 0
    /\ notify_ready
    /\ dispatching' = FALSE
    /\ UNCHANGED <<stage_mapped, now, requested, requested_now>>

FrameIgnored ==
    /\ dispatching
    /\ ~stage_mapped
    /\ use_count' = unref_frame(use_count, next_presentation)
    /\ next_presentation' = NoFrame
    /\ \E g \in Guesses :
          clock' = maybe_reschedule_update([clock EXCEPT !.state = "IDLE"], g)
    /\ owed' = owed - 1
    /\ dispatching' = FALSE
    /\ UNCHANGED <<prev_dispatch, next_next_presentation, prev_presentation,
                   stage_mapped, now, requested, requested_now>>

(* clutter_actor_show (stage): the compositor never hides it again. *)
MapStage ==
    /\ ~dispatching
    /\ ~stage_mapped
    /\ stage_mapped' = TRUE
    /\ UNCHANGED <<clock, frameVars, dispatching, now, owed, requested, requested_now>>

Tick ==
    /\ now < MaxTime
    /\ now' = now + 1
    /\ UNCHANGED <<clock, frameVars, dispatching, stage_mapped, owed, requested,
                   requested_now>>

Next ==
    \/ ScheduleUpdate
    \/ ScheduleUpdateNow
    \/ \E t \in Timelines : AddTimeline(t) \/ RemoveTimeline(t)
    \/ \E when \in 1 .. MaxTime : AddFutureTime(when)
    \/ Inhibit
    \/ Uninhibit
    \/ \E m \in {"FIXED", "VARIABLE"} : SetMode(m)
    \/ SetPassive
    \/ Dispatch
    \/ NotifyPresented
    \/ NotifyReady
    \/ FramePending
    \/ FrameIdle
    \/ FrameIgnored
    \/ MapStage
    \/ Tick

Spec == Init /\ [][Next]_vars

(* Time passes, a due source is dispatched, the listener returns and the    *)
(* display completes what it owes (a page flip, a dummy flip or a discard). *)
Fairness ==
    /\ WF_vars(Tick)
    /\ WF_vars(Dispatch)
    /\ WF_vars(NotifyPresented \/ NotifyReady)
    /\ WF_vars(FramePending \/ FrameIdle \/ FrameIgnored)

FairSpec == Spec /\ Fairness
-----------------------------------------------------------------------------
(***************************************************************************)
(* Properties.                                                             *)
(***************************************************************************)

(* The frames the listener still owes, the state's idea of how many are in *)
(* flight and the presentation pointers always agree, so no completion     *)
(* finds next_presentation NULL or reaches the g_warn_if_reached of the    *)
(* state switches in notify_presented and notify_ready.                    *)
FlightAccounting ==
    /\ owed = InFlight(clock.state)
    /\ next_presentation # NoFrame <=> owed >= 1
    /\ next_next_presentation # NoFrame <=> owed = 2

(* Every Frame's use_count is the number of pointers that hold it. *)
Holds(pointer, f) == IF pointer = f THEN 1 ELSE 0

PoolAccounting ==
    \A f \in FramePool :
        use_count[f] = Holds(prev_dispatch, f) + Holds(next_presentation, f)
                     + Holds(next_next_presentation, f) + Holds(prev_presentation, f)

(* Three Frames are enough for four pointers: whenever a frame may begin,  *)
(* clutter_frame_clock_new_frame finds a free one and its                  *)
(* g_assert_not_reached is not reached.                                    *)
PoolNeverExhausted ==
    clock.state \notin {"DISPATCHED_ONE", "DISPATCHED_TWO"} =>
        FreeFrames(PoolAtDispatch(use_count)) # {}

(* The source is never armed in a state whose dispatch returns without     *)
(* disarming it, which would spin the main loop.                           *)
NoBusyLoop ==
    clock.ready_time # Unarmed =>
        clock.state \notin {"DISPATCHED_ONE", "DISPATCHED_TWO"}

(* Whatever wants a frame - a request, a future time, a running timeline - *)
(* has something that will bring one about: an armed source, or a frame in *)
(* flight or an inhibition whose end calls maybe_reschedule_update, which  *)
(* then finds pending_reschedule set.                                      *)
NoLostWakeup ==
    clock.mode # "PASSIVE" =>
        /\ clock.state \notin Unscheduled => clock.ready_time # Unarmed
        /\ requested /\ clock.ready_time = Unarmed => clock.pending_reschedule
        /\ requested \/ clock.deferred_times # {} \/ clock.timelines # {} =>
              \/ clock.ready_time # Unarmed
              \/ clock.inhibit_count > 0
              \/ owed > 0

(* An update asked for with schedule_update_now stays an immediate one     *)
(* through inhibitions, mode changes and completions until it is begun.    *)
NowNotDowngraded ==
    requested_now => \/ clock.state \in Now
                     \/ clock.pending_reschedule /\ clock.pending_reschedule_now

(* While a renderer is paused the clock holds no schedule and no armed     *)
(* source, whatever is asked of it.                                        *)
InhibitedIsQuiet ==
    clock.inhibit_count > 0 /\ clock.mode # "PASSIVE" =>
        clock.ready_time = Unarmed /\ clock.state \in Unscheduled

(* A request on an active clock leads to a frame, unless the clock is      *)
(* inhibited or handed to a driver first.                                  *)
RequestsAreServed ==
    requested ~> \/ ~requested
                 \/ clock.inhibit_count > 0
                 \/ clock.mode = "PASSIVE"

(* clutter_stage_schedule_update's documentation: a redraw "at the next    *)
(* optimal timestamp", that is within a cycle.                             *)
ScheduleIsPrompt ==
    requested /\ clock.ready_time # Unarmed => clock.ready_time <= now + 1

(* A transaction with a time constraint is applied "just before the        *)
(* appropriate frame clock tick": an idle clock with future times is armed *)
(* no later than for the earliest of them.                                 *)
FutureTimesHonoured ==
    clock.ready_time # Unarmed /\ owed = 0 =>
        \A t \in clock.deferred_times : clock.ready_time <= t \/ clock.ready_time <= now + 1

(* The g_warn_if_fail of clutter_frame_clock_dispatch: only a passive      *)
(* clock is dispatched in INIT or IDLE.                                    *)
DispatchedOnlyWhenScheduled ==
    clock.mode # "PASSIVE" /\ clock.ready_time # Unarmed =>
        clock.state \notin {"INIT", "IDLE"}
=============================================================================
