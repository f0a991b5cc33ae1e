-------------------------- MODULE FrameClockProofs --------------------------
(***************************************************************************)
(* What FrameClock promises for every value of its constants.              *)
(***************************************************************************)
EXTENDS FrameClock, WellFoundedInduction, TLAPS

(* A scheduling operator: it keeps the record's type and moves no frame in *)
(* or out of flight, nor touches what it has no business with.             *)
Keeps(c, d) == /\ d \in ClockType
               /\ InFlight(d.state) = InFlight(c.state)
               /\ d.mode = c.mode
               /\ d.inhibit_count = c.inhibit_count
               /\ d.slow = c.slow
               /\ d.timelines = c.timelines

(* The ready time of a source that is not armed. *)
LEMMA UnarmedIsTime == Unarmed \in Int
BY DEF Unarmed

(* A state with a schedule is a state, with as many frames in flight as before. *)
LEMMA WithScheduleFlight ==
    ASSUME NEW s \in ClockState, NEW kind \in Scheduled, s # "DISPATCHED_TWO"
    PROVE  /\ WithSchedule(s, kind) \in ClockState
           /\ InFlight(WithSchedule(s, kind)) = InFlight(s)
BY DEF WithSchedule, InFlight, OneAnd, ClockState, HasSchedule, Scheduled, OneAndScheduled,
       Unscheduled

(* schedule_update_now only changes the schedule of the clock. *)
LEMMA ScheduleNowKeeps ==
    ASSUME NEW c \in ClockType, NEW g \in Guesses, now \in 0 .. MaxTime
    PROVE  Keeps(c, schedule_update_now(c, g))
<1> DEFINE d == [c EXCEPT !.state = WithSchedule(c.state, "SCHEDULED_NOW")]
<1>1. Keeps(c, c) /\ Keeps(c, PendNow(c))
  BY DEF Keeps, ClockType, PendNow
<1>2. CASE c.inhibit_count > 0 \/ c.state \in Now \/ ~CanSchedule(c)
  BY <1>1, <1>2 DEF schedule_update_now, ClockType
<1>3. CASE c.inhibit_count = 0 /\ c.state \notin Now /\ CanSchedule(c)
  <2>1. c.state # "DISPATCHED_TWO" /\ c.state \in ClockState
    BY <1>3 DEF CanSchedule, HasSchedule, Scheduled, OneAndScheduled, ClockType
  <2>2. /\ WithSchedule(c.state, "SCHEDULED_NOW") \in ClockState
        /\ InFlight(WithSchedule(c.state, "SCHEDULED_NOW")) = InFlight(c.state)
    BY <2>1, WithScheduleFlight DEF Scheduled
  <2>3. Keeps(c, d)
    BY <2>2 DEF Keeps, ClockType
  <2>4. g.update \in Int /\ g.presentation \in Nat /\ now \in Int
    BY ClockAssumption DEF Guesses
  <2> DEFINE fixed == [d EXCEPT !.ready_time = now, !.next_presentation_time = 0]
             variable == [d EXCEPT !.ready_time = g.update,
                                   !.next_presentation_time = g.presentation]
  <2>5. Keeps(c, fixed) /\ Keeps(c, variable) /\ Keeps(c, AskDriver(d))
    BY <2>3, <2>4 DEF Keeps, ClockType, AskDriver
  <2>6. schedule_update_now(c, g) \in {fixed, variable, AskDriver(d)}
    BY <1>3 DEF schedule_update_now, ClockType, Mode
  <2> QED BY <2>5, <2>6
<1> QED BY <1>2, <1>3 DEF ClockType

(* So does schedule_update. *)
LEMMA ScheduleKeeps ==
    ASSUME NEW c \in ClockType, NEW g \in Guesses, now \in 0 .. MaxTime
    PROVE  Keeps(c, schedule_update(c, g))
<1> DEFINE d == [c EXCEPT !.state = WithSchedule(c.state, "SCHEDULED")]
           init == [d EXCEPT !.ready_time = now]
           next(p) == [d EXCEPT !.ready_time = g.update, !.next_presentation_time = p]
<1>1. Keeps(c, c) /\ Keeps(c, Pend(c)) /\ Keeps(c, AskDriver(c))
  BY DEF Keeps, ClockType, Pend, AskDriver
<1>2. CASE CanSchedule(c)
  <2>1. c.state # "DISPATCHED_TWO" /\ c.state \in ClockState
    BY <1>2 DEF CanSchedule, HasSchedule, Scheduled, OneAndScheduled, ClockType
  <2>2. /\ WithSchedule(c.state, "SCHEDULED") \in ClockState
        /\ InFlight(WithSchedule(c.state, "SCHEDULED")) = InFlight(c.state)
    BY <2>1, WithScheduleFlight DEF Scheduled
  <2>3. Keeps(c, d)
    BY <2>2 DEF Keeps, ClockType
  <2>4. g.update \in Int /\ g.presentation \in Nat /\ now \in Int
    BY ClockAssumption DEF Guesses
  <2>5. Keeps(c, init) /\ Keeps(c, next(g.presentation)) /\ Keeps(c, next(0))
    BY <2>3, <2>4 DEF Keeps, ClockType
  <2>6. schedule_update(c, g) \in {c, Pend(c), AskDriver(c), init,
                                   next(g.presentation), next(0)}
    BY <1>2 DEF schedule_update, ClockType, Mode
  <2> QED BY <1>1, <2>5, <2>6
<1>3. CASE ~CanSchedule(c)
  <2>1. schedule_update(c, g) \in {c, Pend(c), AskDriver(c)}
    BY <1>3 DEF schedule_update, ClockType, Mode
  <2> QED BY <1>1, <2>1
<1> QED BY <1>2, <1>3

(* And schedule_update_later, for a target in the future. *)
LEMMA ScheduleLaterKeeps ==
    ASSUME NEW c \in ClockType, NEW g \in Guesses, now \in 0 .. MaxTime,
           NEW target \in Nat \ {0}
    PROVE  Keeps(c, schedule_update_later(c, target, g))
<1> DEFINE later == [c EXCEPT !.ready_time = target - g.lead,
                              !.pending_reschedule = TRUE,
                              !.state = WithSchedule(c.state, "SCHEDULED_LATER")]
<1>1. Keeps(c, c) /\ Keeps(c, Pend(c)) /\ Keeps(c, PendNow(c)) /\ Keeps(c, AskDriver(c))
  BY DEF Keeps, ClockType, Pend, PendNow, AskDriver
<1>2. Keeps(c, schedule_update(c, g))
  BY ScheduleKeeps
<1>3. CASE CanSchedule(c)
  <2>1. c.state # "DISPATCHED_TWO" /\ c.state \in ClockState
    BY <1>3 DEF CanSchedule, HasSchedule, Scheduled, OneAndScheduled, ClockType
  <2>2. /\ WithSchedule(c.state, "SCHEDULED_LATER") \in ClockState
        /\ InFlight(WithSchedule(c.state, "SCHEDULED_LATER")) = InFlight(c.state)
    BY <2>1, WithScheduleFlight DEF Scheduled
  <2>3. target - g.lead \in Int
    BY DEF Guesses
  <2>4. Keeps(c, later)
    BY <2>2, <2>3 DEF Keeps, ClockType
  <2>5. schedule_update_later(c, target, g) \in
          {c, Pend(c), AskDriver(c), schedule_update(c, g), later}
    BY <1>3 DEF schedule_update_later, ClockType, Mode
  <2> QED BY <1>1, <1>2, <2>4, <2>5
<1>4. CASE ~CanSchedule(c)
  <2>1. c.state \notin HasSchedule \ Later
    BY <1>4 DEF CanSchedule
  <2>2. schedule_update_later(c, target, g) \in {Pend(c), AskDriver(c), PendNow(c)}
    BY <1>4, <2>1 DEF schedule_update_later, ClockType, Mode
  <2> QED BY <1>1, <2>2
<1> QED BY <1>3, <1>4

(* A queue of future times that is not empty has a head. *)
LEMMA SmallestTime ==
    ASSUME NEW T, T \subseteq Nat, T # {}
    PROVE  \E t \in T : \A u \in T : t <= u
<1> DEFINE R == OpToRel(<, Nat)
<1>1. PICK t \in T : \A u \in T : ~ (<<u, t>> \in R)
  BY NatLessThanWellFounded, WFMin
<1>2. \A u \in T : ~ (u < t)
  BY <1>1 DEF OpToRel
<1> QED BY <1>2

(* maybe_reschedule_update composes them; it is what ends every completion, *)
(* inhibition and mode change.                                              *)
LEMMA RescheduleKeeps ==
    ASSUME NEW c \in ClockType, NEW g \in Guesses, now \in 0 .. MaxTime
    PROVE  Keeps(c, maybe_reschedule_update(c, g))
<1> DEFINE d == [c EXCEPT !.deferred_times = @ \ ReachedTimes(c)]
           e == [c EXCEPT !.pending_reschedule = FALSE]
           f == [c EXCEPT !.pending_reschedule = FALSE, !.pending_reschedule_now = FALSE]
           head == CHOOSE t \in d.deferred_times : \A u \in d.deferred_times : t <= u
<1>1. d \in ClockType /\ e \in ClockType /\ f \in ClockType
  BY DEF ClockType
<1>2. Keeps(c, d) /\ Keeps(c, e) /\ Keeps(c, f)
  BY <1>1 DEF Keeps, ClockType
<1>3. /\ Keeps(d, schedule_update(d, g))
      /\ Keeps(e, schedule_update(e, g))
      /\ Keeps(f, schedule_update_now(f, g))
  BY <1>1, ScheduleKeeps, ScheduleNowKeeps
<1>4. /\ Keeps(c, schedule_update(d, g))
      /\ Keeps(c, schedule_update(e, g))
      /\ Keeps(c, schedule_update_now(f, g))
  BY <1>2, <1>3 DEF Keeps
<1>5. CASE c.pending_reschedule \/ c.timelines # {}
  BY <1>4, <1>5 DEF maybe_reschedule_update
<1>6. CASE ~(c.pending_reschedule \/ c.timelines # {}) /\ d.deferred_times = {}
  BY <1>2, <1>4, <1>6 DEF maybe_reschedule_update
<1>7. CASE ~(c.pending_reschedule \/ c.timelines # {}) /\ d.deferred_times # {}
  <2>1. d.deferred_times \subseteq Nat \ {0}
    BY <1>1 DEF ClockType
  <2>2. PICK t \in d.deferred_times : \A u \in d.deferred_times : t <= u
    BY <1>7, <2>1, SmallestTime
  <2>3. head \in Nat \ {0}
    BY <2>1, <2>2
  <2>4. Keeps(c, schedule_update_later(d, head, g))
    <3>1. Keeps(d, schedule_update_later(d, head, g))
      BY <1>1, <2>3, ScheduleLaterKeeps
    <3> QED BY <1>2, <3>1 DEF Keeps
  <2> QED BY <1>7, <2>4 DEF maybe_reschedule_update
<1> QED BY <1>5, <1>6, <1>7
(* Before the stage is mapped no frame outlives its dispatch, which is why *)
(* an ignored frame is never one of two.                                   *)
UnmappedFlight == ~stage_mapped => owed = IF dispatching THEN 1 ELSE 0

FlightInv == TypeOK /\ FlightAccounting /\ PoolAccounting /\ UnmappedFlight

(* The frames and the history variables a step of the scheduler leaves alone. *)
SchedulerStep ==
    /\ clock' \in ClockType
    /\ InFlight(clock'.state) = InFlight(clock.state)
    /\ requested' \in BOOLEAN
    /\ requested_now' \in BOOLEAN
    /\ UNCHANGED <<use_count, prev_dispatch, next_presentation,
                   next_next_presentation, prev_presentation, dispatching,
                   stage_mapped, now, owed>>

(* A step that only touches the schedule disturbs no frame. *)
LEMMA SchedulerStepSafe == FlightInv /\ SchedulerStep => FlightInv'
BY DEF FlightInv, SchedulerStep, TypeOK, FlightAccounting, PoolAccounting,
       UnmappedFlight, Holds

(* Completing a frame takes exactly one out of flight. *)
LEMMA CompletionFlight ==
    ASSUME NEW s \in ClockState, InFlight(s) > 0
    PROVE  /\ AfterCompletion(s) \in ClockState
           /\ InFlight(AfterCompletion(s)) = InFlight(s) - 1
BY DEF AfterCompletion, InFlight, ClockState, HasSchedule, Scheduled, OneAndScheduled,
       Unscheduled

(* Beginning a frame puts exactly one more in flight. *)
LEMMA DispatchFlight ==
    ASSUME NEW s \in ClockState, s \notin {"DISPATCHED_ONE", "DISPATCHED_TWO"}
    PROVE  /\ AfterDispatch(s) \in ClockState
           /\ InFlight(AfterDispatch(s)) = InFlight(s) + 1
           /\ InFlight(s) \in {0, 1}
BY DEF AfterDispatch, InFlight, ClockState, HasSchedule, Scheduled, OneAndScheduled,
       Unscheduled

(* Dropping the schedule moves no frame. *)
LEMMA DropKeeps ==
    ASSUME NEW c \in ClockType
    PROVE  Keeps(c, DropSchedule(c))
<1>1. /\ WithoutSchedule(c.state) \in ClockState
      /\ InFlight(WithoutSchedule(c.state)) = InFlight(c.state)
  BY DEF WithoutSchedule, InFlight, ClockState, HasSchedule, Scheduled, OneAndScheduled,
         Unscheduled, ClockType
<1> QED BY <1>1 DEF DropSchedule, Keeps, ClockType

(* A frame is free whenever one may begin: two pointers at most hold the   *)
(* pool once prev_dispatch has been given back.                            *)
LEMMA FreeFrame ==
    ASSUME FlightInv, clock.state \notin {"DISPATCHED_ONE", "DISPATCHED_TWO"}
    PROVE  /\ PoolAtDispatch(use_count) \in [FramePool -> Nat]
           /\ \A f \in FramePool :
                 PoolAtDispatch(use_count)[f] =
                    Holds(next_presentation, f) + Holds(prev_presentation, f)
           /\ FreeFrames(PoolAtDispatch(use_count)) # {}
           /\ new_frame(PoolAtDispatch(use_count)) \in FreeFrames(PoolAtDispatch(use_count))
<1> DEFINE u == PoolAtDispatch(use_count)
<1>1. next_next_presentation = NoFrame
  BY DispatchFlight DEF FlightInv, FlightAccounting, TypeOK, ClockType
<1>2. u \in [FramePool -> Nat]
  BY DEF PoolAtDispatch, unref_frame, FlightInv, TypeOK, PoolAccounting, Holds, FramePool, NoFrame
<1>3. \A f \in FramePool : u[f] = Holds(next_presentation, f) + Holds(prev_presentation, f)
  BY <1>1 DEF PoolAtDispatch, unref_frame, FlightInv, TypeOK, PoolAccounting, Holds, FramePool, NoFrame
<1>4. FreeFrames(u) # {}
  BY <1>3 DEF FreeFrames, Holds, FramePool
<1>5. FreeFrames(u) \subseteq Nat
  BY DEF FreeFrames, FramePool
<1>6. PICK f \in FreeFrames(u) : \A h \in FreeFrames(u) : f <= h
  BY <1>4, <1>5, SmallestTime
<1>7. new_frame(u) \in FreeFrames(u)
  BY <1>6 DEF new_frame
<1> QED BY <1>2, <1>3, <1>4, <1>7
(* The pool after a frame was taken for the dispatch. *)
LEMMA DispatchSafe == FlightInv /\ Dispatch => FlightInv'
<1> SUFFICES ASSUME FlightInv, Dispatch PROVE FlightInv'
  OBVIOUS
<1> DEFINE u == PoolAtDispatch(use_count)
           f == new_frame(u)
<1>1. clock.state \in ClockState /\ clock.state \notin {"DISPATCHED_ONE", "DISPATCHED_TWO"}
  BY DEF FlightInv, TypeOK, ClockType, Dispatch
<1>2. /\ u \in [FramePool -> Nat]
      /\ \A h \in FramePool : u[h] = Holds(next_presentation, h) + Holds(prev_presentation, h)
      /\ f \in FreeFrames(u)
  BY <1>1, FreeFrame
<1>3. f \in FramePool /\ u[f] = 0
  BY <1>2 DEF FreeFrames
<1>4. /\ AfterDispatch(clock.state) \in ClockState
      /\ InFlight(AfterDispatch(clock.state)) = InFlight(clock.state) + 1
      /\ InFlight(clock.state) \in {0, 1}
  BY <1>1, DispatchFlight
<1>5. clock' \in ClockType /\ clock'.state = AfterDispatch(clock.state)
  <2>1. clock' = [clock EXCEPT !.state = AfterDispatch(clock.state),
                               !.ready_time = Unarmed, !.driver_asked = FALSE]
    BY DEF Dispatch
  <2>2. clock \in ClockType
    BY DEF FlightInv, TypeOK
  <2> QED BY <1>4, <2>1, <2>2, UnarmedIsTime DEF ClockType
<1>6. next_next_presentation = NoFrame
  BY <1>4 DEF FlightInv, FlightAccounting
<1>7. /\ use_count' = [u EXCEPT ![f] = 2]
      /\ prev_dispatch' = f
      /\ prev_presentation' = prev_presentation
      /\ \/ /\ next_presentation = NoFrame /\ next_presentation' = f
            /\ next_next_presentation' = next_next_presentation
         \/ /\ next_presentation # NoFrame /\ next_presentation' = next_presentation
            /\ next_next_presentation' = f
  BY DEF Dispatch
<1>8. TypeOK'
  <2>1. use_count' \in [FramePool -> Nat]
    BY <1>2, <1>3, <1>7
  <2>2. /\ owed \in Nat /\ owed' = owed + 1
        /\ dispatching' = TRUE /\ requested' = FALSE /\ requested_now' = FALSE
        /\ stage_mapped' = stage_mapped /\ now' = now
    BY DEF Dispatch, FlightInv, TypeOK
  <2>3. owed' \in Nat
    BY <2>2
  <2> QED BY <1>3, <1>5, <1>7, <2>1, <2>2, <2>3 DEF FlightInv, TypeOK
<1>9. FlightAccounting'
  BY <1>3, <1>4, <1>5, <1>6, <1>7 DEF Dispatch, FlightInv, FlightAccounting, TypeOK, FramePool, NoFrame
<1>10. PoolAccounting'
  BY <1>2, <1>3, <1>6, <1>7 DEF FlightInv, TypeOK, PoolAccounting, Holds, FramePool, NoFrame
<1>11. UnmappedFlight'
  BY DEF Dispatch, FlightInv, UnmappedFlight, TypeOK
<1> QED BY <1>8, <1>9, <1>10, <1>11 DEF FlightInv

(* The clock record after a completion, whatever was measured meanwhile. *)
LEMMA CompletedClock ==
    ASSUME FlightInv, owed > 0, NEW slow \in BOOLEAN, NEW g \in Guesses
    PROVE  LET d == maybe_reschedule_update([clock EXCEPT !.state = AfterCompletion(@),
                                                          !.slow = slow], g)
           IN  d \in ClockType /\ InFlight(d.state) = owed - 1
<1> DEFINE c == [clock EXCEPT !.state = AfterCompletion(@), !.slow = slow]
<1>1. clock \in ClockType /\ clock.state \in ClockState /\ InFlight(clock.state) = owed
  BY DEF FlightInv, FlightAccounting, TypeOK, ClockType
<1>2. /\ AfterCompletion(clock.state) \in ClockState
      /\ InFlight(AfterCompletion(clock.state)) = owed - 1
  BY <1>1, CompletionFlight
<1>3. c \in ClockType /\ InFlight(c.state) = owed - 1
  BY <1>1, <1>2 DEF ClockType
<1>4. now \in 0 .. MaxTime
  BY DEF FlightInv, TypeOK
<1>5. Keeps(c, maybe_reschedule_update(c, g))
  BY <1>3, <1>4, RescheduleKeeps
<1> QED BY <1>3, <1>5 DEF Keeps

(* A presented frame moves the pointers up by one. *)
LEMMA PresentedSafe == FlightInv /\ NotifyPresented => FlightInv'
<1> SUFFICES ASSUME FlightInv, NotifyPresented PROVE FlightInv'
  OBVIOUS
<1>1. owed > 0 /\ owed \in Nat /\ InFlight(clock.state) = owed
  BY DEF NotifyPresented, CanComplete, FlightInv, TypeOK, FlightAccounting
<1>2. PICK g \in Guesses, slow \in BOOLEAN :
        clock' = maybe_reschedule_update([clock EXCEPT !.state = AfterCompletion(@),
                                                       !.slow = slow], g)
  <2>1. InFlight(clock.state) # 0
    BY <1>1
  <2>2. \E g \in Guesses, slow \in BOOLEAN :
          clock' = IF InFlight(clock.state) = 0 THEN clock
                   ELSE maybe_reschedule_update(
                            [clock EXCEPT !.state = AfterCompletion(@),
                                          !.slow = slow], g)
    BY Zenon DEF NotifyPresented
  <2> QED BY <2>1, <2>2, Zenon
<1>3. clock' \in ClockType /\ InFlight(clock'.state) = owed - 1
  BY <1>1, <1>2, CompletedClock
<1>4. owed' = owed - 1 /\ owed' \in Nat
  BY <1>1 DEF NotifyPresented
<1>5. TypeOK'
  BY <1>3, <1>4 DEF NotifyPresented, PresentFrame, unref_frame, FlightInv, TypeOK,
     PoolAccounting, Holds, FramePool, NoFrame
<1>6. FlightAccounting'
  <2>1. owed \in {1, 2}
    BY <1>1 DEF InFlight, FlightInv, FlightAccounting
  <2> QED BY <1>3, <1>4, <2>1 DEF NotifyPresented, PresentFrame, FlightInv, FlightAccounting
<1>7. PoolAccounting'
  BY DEF NotifyPresented, PresentFrame, unref_frame, FlightInv, TypeOK, PoolAccounting,
     Holds, FramePool, NoFrame
<1>8. UnmappedFlight'
  BY <1>1 DEF NotifyPresented, CanComplete, FlightInv, UnmappedFlight, TypeOK
<1> QED BY <1>5, <1>6, <1>7, <1>8 DEF FlightInv

(* A frame that is ready again without having been presented leaves the    *)
(* newest pointer empty.                                                   *)
LEMMA ReadySafe ==
    ASSUME FlightInv, owed > 0, notify_ready, stage_mapped, stage_mapped' = stage_mapped,
           now' = now, dispatching' \in BOOLEAN, requested' = requested,
           requested_now' = requested_now
    PROVE  FlightInv'
<1>1. owed \in Nat /\ InFlight(clock.state) = owed
  BY DEF FlightInv, TypeOK, FlightAccounting
<1>2. PICK g \in Guesses :
        clock' = maybe_reschedule_update([clock EXCEPT !.state = AfterCompletion(@)], g)
  BY <1>1 DEF notify_ready
<1>3. [clock EXCEPT !.state = AfterCompletion(@)] =
        [clock EXCEPT !.state = AfterCompletion(@), !.slow = clock.slow]
  BY DEF FlightInv, TypeOK, ClockType
<1>4. clock.slow \in BOOLEAN
  BY DEF FlightInv, TypeOK, ClockType
<1>5. clock' \in ClockType /\ InFlight(clock'.state) = owed - 1
  BY <1>2, <1>3, <1>4, CompletedClock
<1>6. owed' = owed - 1 /\ owed' \in Nat
  BY <1>1 DEF notify_ready
<1>7. TypeOK'
  BY <1>5, <1>6 DEF notify_ready, ReadyFrame, unref_frame, FlightInv, TypeOK,
     PoolAccounting, Holds, FramePool, NoFrame
<1>8. FlightAccounting'
  <2>1. owed \in {1, 2}
    BY <1>1 DEF InFlight, FlightInv, FlightAccounting
  <2> QED BY <1>5, <1>6, <2>1 DEF notify_ready, ReadyFrame, FlightInv, FlightAccounting
<1>9. PoolAccounting'
  BY DEF notify_ready, ReadyFrame, unref_frame, FlightInv, TypeOK, PoolAccounting,
     Holds, FramePool, NoFrame
<1>10. UnmappedFlight'
  BY DEF UnmappedFlight
<1> QED BY <1>7, <1>8, <1>9, <1>10 DEF FlightInv

(* An ignored frame is the only one there is. *)
LEMMA IgnoredSafe == FlightInv /\ FrameIgnored => FlightInv'
<1> SUFFICES ASSUME FlightInv, FrameIgnored PROVE FlightInv'
  OBVIOUS
<1>1. owed = 1 /\ next_next_presentation = NoFrame /\ next_presentation # NoFrame
  BY DEF FlightInv, FrameIgnored, UnmappedFlight, FlightAccounting
<1>2. PICK g \in Guesses :
        clock' = maybe_reschedule_update([clock EXCEPT !.state = "IDLE"], g)
  BY DEF FrameIgnored
<1>3. [clock EXCEPT !.state = "IDLE"] \in ClockType
  BY DEF FlightInv, TypeOK, ClockType, ClockState, Unscheduled
<1>4. Keeps([clock EXCEPT !.state = "IDLE"], clock')
  BY <1>2, <1>3, RescheduleKeeps DEF FlightInv, TypeOK
<1>5. clock' \in ClockType /\ InFlight(clock'.state) = 0
  <2>1. [clock EXCEPT !.state = "IDLE"].state = "IDLE"
    BY DEF FlightInv, TypeOK, ClockType
  <2>2. InFlight("IDLE") = 0
    BY DEF InFlight, Scheduled, OneAndScheduled
  <2> QED BY <1>4, <2>1, <2>2 DEF Keeps
<1>6. owed' = 0
  BY <1>1 DEF FrameIgnored
<1>7. TypeOK'
  <2>1. use_count' \in [FramePool -> Nat]
    BY <1>1 DEF FrameIgnored, unref_frame, FlightInv, TypeOK, PoolAccounting, Holds,
       FramePool, NoFrame
  <2>2. /\ prev_dispatch' = prev_dispatch /\ prev_presentation' = prev_presentation
        /\ next_presentation' = NoFrame /\ next_next_presentation' = next_next_presentation
        /\ dispatching' = FALSE /\ UNCHANGED <<stage_mapped, now, requested, requested_now>>
    BY DEF FrameIgnored
  <2> QED BY <1>5, <1>6, <2>1, <2>2 DEF FlightInv, TypeOK
<1>8. FlightAccounting'
  BY <1>1, <1>5, <1>6 DEF FrameIgnored, FlightAccounting
<1>9. PoolAccounting'
  BY DEF FrameIgnored, unref_frame, FlightInv, TypeOK, PoolAccounting, Holds,
     FramePool, NoFrame
<1>10. UnmappedFlight'
  BY <1>6 DEF FrameIgnored, UnmappedFlight
<1> QED BY <1>7, <1>8, <1>9, <1>10 DEF FlightInv

(* Every step keeps the frames, the pointers and the state in agreement. *)
LEMMA FlightStep == FlightInv /\ [Next]_vars => FlightInv'
<1> SUFFICES ASSUME FlightInv, [Next]_vars PROVE FlightInv'
  OBVIOUS
<1>t. clock \in ClockType /\ now \in 0 .. MaxTime
  BY DEF FlightInv, TypeOK
<1>1. CASE ScheduleUpdate
  <2>1. SchedulerStep
    BY <1>1, <1>t, ScheduleKeeps
       DEF ScheduleUpdate, SchedulerStep, Keeps, frameVars, FlightInv, TypeOK
  <2> QED BY <2>1, SchedulerStepSafe
<1>2. CASE ScheduleUpdateNow
  <2>1. SchedulerStep
    BY <1>2, <1>t, ScheduleNowKeeps
       DEF ScheduleUpdateNow, SchedulerStep, Keeps, frameVars, FlightInv, TypeOK
  <2> QED BY <2>1, SchedulerStepSafe
<1>3. ASSUME NEW t \in Timelines, AddTimeline(t) PROVE FlightInv'
  <2> DEFINE c == [clock EXCEPT !.timelines = @ \cup {t}]
  <2>1. c \in ClockType /\ c.state = clock.state
    BY <1>t DEF ClockType
  <2>2. \A g \in Guesses : Keeps(c, schedule_update(c, g))
    BY <1>t, <2>1, ScheduleKeeps
  <2>3. clock' = c \/ \E g \in Guesses : clock' = schedule_update(c, g)
    BY <1>3 DEF AddTimeline
  <2>4. clock' \in ClockType /\ InFlight(clock'.state) = InFlight(clock.state)
    BY <2>1, <2>2, <2>3 DEF Keeps
  <2>5. SchedulerStep
    BY <1>3, <2>4 DEF AddTimeline, SchedulerStep, frameVars, FlightInv, TypeOK
  <2> QED BY <2>5, SchedulerStepSafe
<1>4. ASSUME NEW t \in Timelines, RemoveTimeline(t) PROVE FlightInv'
  <2>1. clock' \in ClockType /\ clock'.state = clock.state
    BY <1>4, <1>t DEF RemoveTimeline, ClockType
  <2>2. SchedulerStep
    BY <1>4, <2>1 DEF RemoveTimeline, SchedulerStep, frameVars, FlightInv, TypeOK
  <2> QED BY <2>2, SchedulerStepSafe
<1>5. ASSUME NEW when \in 1 .. MaxTime, AddFutureTime(when) PROVE FlightInv'
  <2> DEFINE c == [clock EXCEPT !.deferred_times = @ \cup {when}]
  <2>1. c \in ClockType /\ c.state = clock.state
    BY <1>t, ClockAssumption DEF ClockType
  <2>2. \A g \in Guesses : Keeps(c, maybe_reschedule_update(c, g))
    BY <1>t, <2>1, RescheduleKeeps
  <2>3. clock' \in ClockType /\ InFlight(clock'.state) = InFlight(clock.state)
    BY <1>5, <2>1, <2>2 DEF AddFutureTime, Keeps
  <2>4. SchedulerStep
    BY <1>5, <2>3 DEF AddFutureTime, SchedulerStep, frameVars, FlightInv, TypeOK
  <2> QED BY <2>4, SchedulerStepSafe
<1>6. CASE Inhibit
  <2> DEFINE c == [clock EXCEPT !.inhibit_count = @ + 1]
  <2>1. c \in ClockType /\ c.state = clock.state
    BY <1>6, <1>t, ClockAssumption DEF ClockType, Inhibit
  <2>2. Keeps(c, DropSchedule(c))
    BY <2>1, DropKeeps
  <2>3. Keeps(c, [DropSchedule(c) EXCEPT !.ready_time = Unarmed])
    BY <2>2 DEF Keeps, ClockType, Unarmed
  <2>4. clock' \in {c, [DropSchedule(c) EXCEPT !.ready_time = Unarmed]}
    BY <1>6 DEF Inhibit
  <2>5. clock' \in ClockType /\ InFlight(clock'.state) = InFlight(clock.state)
    BY <2>1, <2>3, <2>4 DEF Keeps
  <2>6. SchedulerStep
    BY <1>6, <2>5 DEF Inhibit, SchedulerStep, frameVars, FlightInv, TypeOK
  <2> QED BY <2>6, SchedulerStepSafe
<1>7. CASE Uninhibit
  <2> DEFINE c == [clock EXCEPT !.inhibit_count = @ - 1]
  <2>1. c \in ClockType /\ c.state = clock.state
    BY <1>7, <1>t, ClockAssumption DEF ClockType, Uninhibit
  <2>2. \A g \in Guesses : Keeps(c, maybe_reschedule_update(c, g))
    BY <1>t, <2>1, RescheduleKeeps
  <2>3. clock' = c \/ \E g \in Guesses : clock' = maybe_reschedule_update(c, g)
    BY <1>7 DEF Uninhibit
  <2>4. clock' \in ClockType /\ InFlight(clock'.state) = InFlight(clock.state)
    BY <2>1, <2>2, <2>3 DEF Keeps
  <2>5. SchedulerStep
    BY <1>7, <2>4 DEF Uninhibit, SchedulerStep, frameVars, FlightInv, TypeOK
  <2> QED BY <2>5, SchedulerStepSafe
<1>8. ASSUME NEW m \in {"FIXED", "VARIABLE"}, SetMode(m) PROVE FlightInv'
  <2> DEFINE c == [clock EXCEPT !.mode = m]
             d == DropSchedule(c)
  <2>1. c \in ClockType /\ c.state = clock.state
    BY <1>t DEF ClockType, Mode
  <2>2. Keeps(c, d)
    BY <2>1, DropKeeps
  <2>3. \A g \in Guesses : Keeps(d, maybe_reschedule_update(d, g))
    BY <1>t, <2>2, RescheduleKeeps DEF Keeps
  <2>4. clock' \in ClockType /\ InFlight(clock'.state) = InFlight(clock.state)
    BY <1>8, <2>1, <2>2, <2>3 DEF SetMode, Keeps
  <2>5. SchedulerStep
    BY <1>8, <2>4 DEF SetMode, SchedulerStep, frameVars, FlightInv, TypeOK
  <2> QED BY <2>5, SchedulerStepSafe
<1>9. CASE SetPassive
  <2>1. clock' \in ClockType /\ clock'.state = clock.state
    BY <1>9, <1>t, UnarmedIsTime DEF SetPassive, ClockType, Mode
  <2>2. SchedulerStep
    BY <1>9, <2>1 DEF SetPassive, SchedulerStep, frameVars, FlightInv, TypeOK
  <2> QED BY <2>2, SchedulerStepSafe
<1>10. CASE Dispatch
  BY <1>10, DispatchSafe
<1>11. CASE NotifyPresented
  BY <1>11, PresentedSafe
<1>12. CASE NotifyReady
  <2>1. stage_mapped
    BY <1>12 DEF NotifyReady, CanComplete, FlightInv, UnmappedFlight, TypeOK
  <2>2. dispatching' \in BOOLEAN /\ owed > 0
    BY <1>12 DEF NotifyReady, CanComplete, FlightInv, TypeOK
  <2> QED BY <1>12, <2>1, <2>2, ReadySafe DEF NotifyReady
<1>13. CASE FramePending
  <2>1. UnmappedFlight'
    BY <1>13 DEF FramePending, UnmappedFlight
  <2> QED BY <1>13, <2>1 DEF FramePending, frameVars, FlightInv, TypeOK, FlightAccounting,
             PoolAccounting, Holds
<1>14. CASE FrameIdle
  BY <1>14, ReadySafe DEF FrameIdle
<1>15. CASE FrameIgnored
  BY <1>15, IgnoredSafe
<1>16. CASE MapStage
  BY <1>16 DEF MapStage, frameVars, FlightInv, TypeOK, FlightAccounting,
     PoolAccounting, UnmappedFlight, Holds
<1>17. CASE Tick
  BY <1>17, ClockAssumption DEF Tick, frameVars, FlightInv, TypeOK, FlightAccounting,
     PoolAccounting, UnmappedFlight, Holds
<1>18. CASE UNCHANGED vars
  BY <1>18 DEF vars, frameVars, FlightInv, TypeOK, FlightAccounting,
     PoolAccounting, UnmappedFlight, Holds
<1> QED
  BY <1>1, <1>2, <1>3, <1>4, <1>5, <1>6, <1>7, <1>8, <1>9, <1>10, <1>11, <1>12, <1>13,
     <1>14, <1>15, <1>16, <1>17, <1>18 DEF Next

(* The clock begins with nothing in flight and an empty pool. *)
LEMMA FlightInit == Init => FlightInv
<1> SUFFICES ASSUME Init PROVE FlightInv
  OBVIOUS
<1>1. clock \in ClockType
  BY ClockAssumption, UnarmedIsTime
     DEF Init, ClockType, ClockState, Unscheduled, Mode
<1>2. InFlight(clock.state) = 0
  BY DEF Init, InFlight, Scheduled, OneAndScheduled
<1>3. TypeOK
  <2>1. stage_mapped \in BOOLEAN
    BY ClockAssumption, Zenon DEF Init
  <2>2. now \in 0 .. MaxTime /\ owed \in Nat /\ use_count \in [FramePool -> Nat]
    BY ClockAssumption DEF Init
  <2>3. /\ prev_dispatch = NoFrame /\ next_presentation = NoFrame
        /\ next_next_presentation = NoFrame /\ prev_presentation = NoFrame
        /\ dispatching = FALSE /\ requested = FALSE /\ requested_now = FALSE
    BY DEF Init
  <2> QED BY <1>1, <2>1, <2>2, <2>3 DEF TypeOK
<1>4. FlightAccounting /\ PoolAccounting /\ UnmappedFlight
  BY <1>2 DEF Init, FlightAccounting, PoolAccounting, UnmappedFlight, Holds, FramePool, NoFrame
<1> QED BY <1>3, <1>4 DEF FlightInv

(* FlightInv is an invariant. *)
LEMMA FlightInvariant == Spec => []FlightInv
<1> QED BY FlightInit, FlightStep, PTL DEF Spec

(* The type invariant of the frame clock, for any number of timelines, any *)
(* nesting of inhibitions and any horizon.                                 *)
THEOREM ClockTypeCorrect == Spec => []TypeOK
<1>1. FlightInv => TypeOK
  BY DEF FlightInv
<1> QED BY <1>1, FlightInvariant, PTL

(* The completions owed by the display, the state of the clock and its     *)
(* presentation pointers never disagree.                                   *)
THEOREM ClockFlightCorrect == Spec => []FlightAccounting
<1>1. FlightInv => FlightAccounting
  BY DEF FlightInv
<1> QED BY <1>1, FlightInvariant, PTL

(* clutter_frame_clock_new_frame never runs out of its three frames and    *)
(* every use_count is the number of pointers to the frame.                 *)
THEOREM ClockPoolCorrect == Spec => [](PoolAccounting /\ PoolNeverExhausted)
<1>1. FlightInv => PoolAccounting /\ PoolNeverExhausted
  BY FreeFrame DEF FlightInv, PoolNeverExhausted
<1> QED BY <1>1, FlightInvariant, PTL
-----------------------------------------------------------------------------
(***************************************************************************)
(* The schedule.                                                           *)
(***************************************************************************)

Armed(c) == c.ready_time # Unarmed
Active(c) == c.mode # "PASSIVE"

(* The schedule and the source agree.  An ignored frame may leave the      *)
(* source armed in IDLE, so an armed source does not imply a schedule.     *)
SourceAgrees(c) ==
    /\ Active(c) /\ c.state \in HasSchedule => Armed(c)
    /\ Armed(c) => Active(c)
    /\ c.state \in OneAndScheduled => c.slow
    /\ c.inhibit_count > 0 /\ Active(c) => ~Armed(c) /\ c.state \in Unscheduled

Sound(c) == SourceAgrees(c) /\ (Armed(c) => c.state \notin {"DISPATCHED_ONE", "DISPATCHED_TWO"})

(* While set_mode runs, the source of a schedule that has been dropped     *)
(* remains armed; pending_reschedule then brings the schedule back.        *)
Reschedulable(c) ==
    /\ SourceAgrees(c)
    /\ Armed(c) => \/ c.state \notin {"DISPATCHED_ONE", "DISPATCHED_TWO"}
                   \/ c.state = "DISPATCHED_ONE" /\ want_triple_buffering(c)

(* Something asked for a frame. *)
Wanted(c) == c.pending_reschedule \/ c.timelines # {} \/ c.deferred_times # {}

(* An immediate schedule, or one to come. *)
Immediate(c) == c.state \in Now \/ (c.pending_reschedule /\ c.pending_reschedule_now)

(* A scheduling operator serves whoever asked: it leaves a schedule or     *)
(* remembers to make one, and takes none away.                             *)
Serves(c, d) ==
    /\ Reschedulable(c) => Sound(d)
    /\ Active(c) => d.state \in HasSchedule \/ d.pending_reschedule
    /\ Active(c) /\ CanSchedule(c) /\ c.inhibit_count = 0 => d.state \in HasSchedule
    /\ c.state \in HasSchedule => d.state \in HasSchedule
    /\ Immediate(c) => Immediate(d)
    /\ Armed(c) => Armed(d)
    /\ d.deferred_times = c.deferred_times

(* The states a clock has a schedule in, and those it has none in. *)
LEMMA WithScheduleState ==
    ASSUME NEW s \in ClockState, NEW kind \in Scheduled, s # "DISPATCHED_TWO"
    PROVE  /\ WithSchedule(s, kind) \in HasSchedule
           /\ WithSchedule(s, kind) \in OneAndScheduled <=> s \in OneAndScheduled \cup {"DISPATCHED_ONE"}
           /\ kind = "SCHEDULED_NOW" => WithSchedule(s, kind) \in Now
BY DEF WithSchedule, InFlight, OneAnd, ClockState, HasSchedule, Scheduled, OneAndScheduled,
       Unscheduled, Now

(* A clock that only remembers the request. *)
LEMMA PendServes ==
    ASSUME NEW c \in ClockType, c.inhibit_count > 0 \/ ~CanSchedule(c)
    PROVE  /\ Serves(c, Pend(c)) /\ Serves(c, PendNow(c)) /\ Immediate(PendNow(c))
<1>1. /\ Pend(c) \in ClockType /\ PendNow(c) \in ClockType
      /\ Pend(c).pending_reschedule /\ PendNow(c).pending_reschedule /\ PendNow(c).pending_reschedule_now
      /\ \A d \in {Pend(c), PendNow(c)} :
           /\ d.state = c.state /\ d.mode = c.mode /\ d.inhibit_count = c.inhibit_count
           /\ d.slow = c.slow /\ d.ready_time = c.ready_time /\ d.deferred_times = c.deferred_times
           /\ c.pending_reschedule_now => d.pending_reschedule_now
  BY DEF Pend, PendNow, ClockType
<1>2. Reschedulable(c) => Sound(c)
  <2>1. CASE c.inhibit_count > 0
    BY <2>1 DEF Reschedulable, Sound, SourceAgrees
  <2>2. CASE ~CanSchedule(c)
    BY <2>2 DEF Reschedulable, Sound, SourceAgrees, CanSchedule
  <2> QED BY <2>1, <2>2
<1>3. CanSchedule(c) => c.inhibit_count # 0
  BY DEF ClockType
<1>4. ASSUME NEW d \in {Pend(c), PendNow(c)} PROVE Serves(c, d)
  <2>1. d.pending_reschedule
    BY <1>1
  <2>2. Sound(c) => Sound(d)
    BY <1>1 DEF Sound, SourceAgrees, Armed, Active
  <2> QED BY <1>1, <1>2, <1>3, <2>1, <2>2 DEF Serves, Immediate, Armed
<1> QED BY <1>1, <1>4 DEF Immediate

(* A clock that is scheduled already, and need not be again. *)
LEMMA ScheduledServes ==
    ASSUME NEW c \in ClockType, c.state \in HasSchedule
    PROVE  Serves(c, c)
<1>1. Reschedulable(c) => Sound(c)
  BY DEF Reschedulable, Sound, SourceAgrees, HasSchedule, Scheduled, OneAndScheduled
<1> QED BY <1>1 DEF Serves

(* A clock that is given a schedule and whose source is armed for it. *)
LEMMA ArmedServes ==
    ASSUME NEW c \in ClockType, CanSchedule(c), c.inhibit_count = 0, Active(c),
           NEW kind \in Scheduled, NEW d \in ClockType,
           d.state = WithSchedule(c.state, kind), d.mode = c.mode,
           d.inhibit_count = c.inhibit_count, d.slow = c.slow, Armed(d),
           d.deferred_times = c.deferred_times,
           Immediate(c) => Immediate(d)
    PROVE  Serves(c, d)
<1>1. c.state # "DISPATCHED_TWO" /\ c.state \in ClockState
  BY DEF CanSchedule, HasSchedule, Scheduled, OneAndScheduled, ClockType
<1>2. /\ d.state \in HasSchedule
      /\ d.state \in OneAndScheduled <=> c.state \in OneAndScheduled \cup {"DISPATCHED_ONE"}
  BY <1>1, WithScheduleState
<1>3. d.state \notin {"DISPATCHED_ONE", "DISPATCHED_TWO"}
  BY <1>2 DEF HasSchedule, Scheduled, OneAndScheduled
<1>4. c.state = "DISPATCHED_ONE" => c.slow
  BY DEF CanSchedule, want_triple_buffering, HasSchedule, Scheduled, OneAndScheduled
<1>5. Reschedulable(c) => Sound(d)
  BY <1>2, <1>3, <1>4 DEF Reschedulable, Sound, SourceAgrees, Active
<1> QED BY <1>2, <1>5 DEF Serves, Armed

(* A passive clock asks its driver. *)
LEMMA DriverServes ==
    ASSUME NEW c \in ClockType, ~Active(c)
    PROVE  Serves(c, AskDriver(c))
<1>1. /\ AskDriver(c).state = c.state /\ AskDriver(c).mode = c.mode
      /\ AskDriver(c).inhibit_count = c.inhibit_count
      /\ AskDriver(c).slow = c.slow /\ AskDriver(c).ready_time = c.ready_time
      /\ AskDriver(c).deferred_times = c.deferred_times
      /\ AskDriver(c).pending_reschedule = c.pending_reschedule
      /\ AskDriver(c).pending_reschedule_now = c.pending_reschedule_now
  BY DEF AskDriver, ClockType
<1>2. Reschedulable(c) => Sound(AskDriver(c))
  BY <1>1 DEF Reschedulable, Sound, SourceAgrees, Armed, Active
<1> QED BY <1>1, <1>2 DEF Serves, Immediate, Armed

(* What may be guessed is a time to come. *)
LEMMA GuessesAreTimes ==
    ASSUME NEW g \in Guesses, now \in 0 .. MaxTime
    PROVE  /\ g.update \in Nat /\ g.presentation \in Nat /\ now \in Nat
           /\ g.lead \in {0, 1}
           /\ g.update # Unarmed /\ now # Unarmed
           /\ \A target \in Nat \ {0} : target - g.lead \in Int /\ target - g.lead # Unarmed
BY ClockAssumption DEF Guesses, Unarmed

(* schedule_update_now serves, immediately. *)
LEMMA ScheduleNowServes ==
    ASSUME NEW c \in ClockType, NEW g \in Guesses, now \in 0 .. MaxTime
    PROVE  /\ Serves(c, schedule_update_now(c, g))
           /\ Immediate(schedule_update_now(c, g))
<1> DEFINE s == schedule_update_now(c, g)
           d == [c EXCEPT !.state = WithSchedule(c.state, "SCHEDULED_NOW")]
<1>1. CASE c.inhibit_count > 0 \/ (c.state \notin Now /\ ~CanSchedule(c))
  <2>1. s = PendNow(c)
    BY <1>1 DEF schedule_update_now
  <2> QED BY <1>1, <2>1, PendServes
<1>2. CASE ~(c.inhibit_count > 0) /\ c.state \in Now
  <2>1. s = c
    BY <1>2 DEF schedule_update_now
  <2>2. c.state \in HasSchedule
    BY <1>2 DEF Now, HasSchedule, Scheduled, OneAndScheduled
  <2> QED BY <1>2, <2>1, <2>2, ScheduledServes DEF Immediate
<1>3. CASE ~(c.inhibit_count > 0) /\ c.state \notin Now /\ CanSchedule(c)
  <2>1. c.state # "DISPATCHED_TWO" /\ c.state \in ClockState /\ c.inhibit_count = 0
    BY <1>3 DEF CanSchedule, HasSchedule, Scheduled, OneAndScheduled, ClockType
  <2>2. "SCHEDULED_NOW" \in Scheduled
    BY DEF Scheduled
  <2>3. /\ WithSchedule(c.state, "SCHEDULED_NOW") \in HasSchedule
        /\ WithSchedule(c.state, "SCHEDULED_NOW") \in ClockState
        /\ WithSchedule(c.state, "SCHEDULED_NOW") \in OneAndScheduled
             <=> c.state \in OneAndScheduled \cup {"DISPATCHED_ONE"}
        /\ WithSchedule(c.state, "SCHEDULED_NOW") \in Now
    BY <2>1, <2>2, WithScheduleState, WithScheduleFlight
  <2>4. /\ s.state = WithSchedule(c.state, "SCHEDULED_NOW")
        /\ s.mode = c.mode /\ s.inhibit_count = c.inhibit_count /\ s.slow = c.slow
        /\ s.deferred_times = c.deferred_times
        /\ Active(c) => s.ready_time \in {now, g.update}
        /\ ~Active(c) => s.ready_time = c.ready_time
    BY <1>3, <2>3 DEF schedule_update_now, ClockType, Mode, AskDriver, Active
  <2>5. s \in ClockType
    BY ScheduleNowKeeps DEF Keeps
  <2>6. Immediate(s)
    BY <2>3, <2>4 DEF Immediate
  <2>7. CASE Active(c)
    <3>1. Armed(s)
      BY <2>4, <2>7, GuessesAreTimes DEF Armed
    <3> HIDE DEF s
    <3> QED BY <1>3, <2>1, <2>2, <2>4, <2>5, <2>6, <2>7, <3>1, ArmedServes DEF s
  <2>8. CASE ~Active(c)
    <3>1. c.state = "DISPATCHED_ONE" => FALSE
      BY <1>3, <2>8 DEF CanSchedule, want_triple_buffering, Active, HasSchedule, Scheduled, OneAndScheduled
    <3>2. Reschedulable(c) => Sound(s)
      BY <2>3, <2>4, <2>8, <3>1 DEF Reschedulable, Sound, SourceAgrees, Armed, Active
    <3> QED BY <2>3, <2>4, <2>6, <2>8, <3>2 DEF Serves, Armed
  <2> QED BY <2>6, <2>7, <2>8
<1> QED BY <1>1, <1>2, <1>3

(* So does schedule_update. *)
LEMMA ScheduleServes ==
    ASSUME NEW c \in ClockType, NEW g \in Guesses, now \in 0 .. MaxTime
    PROVE  Serves(c, schedule_update(c, g))
<1> DEFINE s == schedule_update(c, g)
<1>1. CASE c.inhibit_count > 0
  BY <1>1, PendServes DEF schedule_update
<1>2. CASE ~(c.inhibit_count > 0) /\ ~Active(c)
  BY <1>2, DriverServes DEF schedule_update, Active
<1>3. CASE ~(c.inhibit_count > 0) /\ Active(c) /\ c.state \in HasSchedule
  BY <1>3, ScheduledServes DEF schedule_update, Active
<1>4. CASE ~(c.inhibit_count > 0) /\ Active(c) /\ c.state \notin HasSchedule /\ ~CanSchedule(c)
  BY <1>4, PendServes DEF schedule_update, Active
<1>5. CASE ~(c.inhibit_count > 0) /\ Active(c) /\ c.state \notin HasSchedule /\ CanSchedule(c)
  <2>1. c.state # "DISPATCHED_TWO" /\ c.state \in ClockState /\ c.inhibit_count = 0
    BY <1>5 DEF CanSchedule, HasSchedule, Scheduled, OneAndScheduled, ClockType
  <2>2. "SCHEDULED" \in Scheduled
    BY DEF Scheduled
  <2>3. s \in ClockType
    BY ScheduleKeeps DEF Keeps
  <2>4. /\ s.state = WithSchedule(c.state, "SCHEDULED")
        /\ s.mode = c.mode /\ s.inhibit_count = c.inhibit_count /\ s.slow = c.slow
        /\ s.deferred_times = c.deferred_times
        /\ s.pending_reschedule = c.pending_reschedule
        /\ s.pending_reschedule_now = c.pending_reschedule_now
        /\ s.ready_time \in {now, g.update}
    BY <1>5 DEF schedule_update, ClockType, Mode, Active
  <2>5. Armed(s)
    BY <2>4, GuessesAreTimes DEF Armed
  <2>6. Immediate(c) => Immediate(s)
    BY <1>5, <2>4 DEF Immediate, Now, HasSchedule, Scheduled, OneAndScheduled
  <2> HIDE DEF s
  <2> QED BY <1>5, <2>1, <2>2, <2>3, <2>4, <2>5, <2>6, ArmedServes DEF s
<1> QED BY <1>1, <1>2, <1>3, <1>4, <1>5

(* And schedule_update_later. *)
LEMMA ScheduleLaterServes ==
    ASSUME NEW c \in ClockType, NEW g \in Guesses, now \in 0 .. MaxTime,
           NEW target \in Nat \ {0}
    PROVE  Serves(c, schedule_update_later(c, target, g))
<1> DEFINE s == schedule_update_later(c, target, g)
<1>1. CASE c.inhibit_count > 0
  BY <1>1, PendServes DEF schedule_update_later
<1>2. CASE ~(c.inhibit_count > 0) /\ ~Active(c)
  BY <1>2, DriverServes DEF schedule_update_later, Active
<1>3. CASE ~(c.inhibit_count > 0) /\ Active(c) /\ c.state \in HasSchedule \ Later
  BY <1>3, ScheduledServes DEF schedule_update_later, Active
<1>4. CASE ~(c.inhibit_count > 0) /\ Active(c) /\ c.state \notin HasSchedule \ Later /\ ~CanSchedule(c)
  BY <1>4, PendServes DEF schedule_update_later, Active
<1>5. CASE ~(c.inhibit_count > 0) /\ Active(c) /\ c.state \notin HasSchedule \ Later /\ CanSchedule(c)
  <2>1. CASE g.presentation >= target
    <3>1. s = schedule_update(c, g)
      BY <1>5, <2>1 DEF schedule_update_later, Active
    <3> QED BY <3>1, ScheduleServes
  <2>2. CASE ~(g.presentation >= target)
    <3>1. c.state # "DISPATCHED_TWO" /\ c.state \in ClockState /\ c.inhibit_count = 0
      BY <1>5 DEF CanSchedule, HasSchedule, Scheduled, OneAndScheduled, ClockType
    <3>2. "SCHEDULED_LATER" \in Scheduled
      BY DEF Scheduled
    <3>3. s \in ClockType
      BY ScheduleLaterKeeps DEF Keeps
    <3>4. s = [c EXCEPT !.ready_time = target - g.lead,
                        !.pending_reschedule = TRUE,
                        !.state = WithSchedule(c.state, "SCHEDULED_LATER")]
      BY <1>5, <2>2 DEF schedule_update_later, Active
    <3>5. /\ s.state = WithSchedule(c.state, "SCHEDULED_LATER")
          /\ s.mode = c.mode /\ s.inhibit_count = c.inhibit_count /\ s.slow = c.slow
          /\ s.deferred_times = c.deferred_times
          /\ s.pending_reschedule
          /\ s.pending_reschedule_now = c.pending_reschedule_now
          /\ s.ready_time = target - g.lead
      BY <3>4 DEF ClockType
    <3>6. Armed(s)
      BY <3>5, GuessesAreTimes DEF Armed
    <3>7. Immediate(c) => Immediate(s)
      BY <1>5, <3>5 DEF Immediate, Now, Later, HasSchedule, Scheduled, OneAndScheduled
    <3> HIDE DEF s
    <3> QED BY <1>5, <3>1, <3>2, <3>3, <3>5, <3>6, <3>7, ArmedServes DEF s
  <2> QED BY <2>1, <2>2
<1> QED BY <1>1, <1>2, <1>3, <1>4, <1>5

(* maybe_reschedule_update takes up what was remembered: on a clock with   *)
(* nothing in flight, a schedule follows if anything is wanted.            *)
Resumes(c, d) ==
    /\ Reschedulable(c) /\ (Sound(c) \/ c.pending_reschedule) => Sound(d)
    /\ Active(c) /\ c.pending_reschedule => d.state \in HasSchedule \/ d.pending_reschedule
    /\ Active(c) /\ InFlight(c.state) = 0 /\ c.inhibit_count = 0 =>
          d.state \in HasSchedule \/ ~Wanted(d)
    /\ c.state \in HasSchedule => d.state \in HasSchedule
    /\ Immediate(c) => Immediate(d)
    /\ Armed(c) => Armed(d)

(* Two clocks that differ in what they remember only. *)
Alike(c, d) == /\ d.state = c.state /\ d.mode = c.mode /\ d.slow = c.slow
               /\ d.inhibit_count = c.inhibit_count /\ d.ready_time = c.ready_time
               /\ d.timelines = c.timelines

(* What two such clocks have in common. *)
SameSchedule(c, x) ==
    /\ Reschedulable(c) => Reschedulable(x)
    /\ Sound(c) => Sound(x)
    /\ Sound(c) => Reschedulable(x)
    /\ Active(x) <=> Active(c)
    /\ Armed(x) <=> Armed(c)
    /\ x.state = c.state /\ x.inhibit_count = c.inhibit_count
    /\ InFlight(c.state) = 0 => CanSchedule(x)

(* A clock with nothing in flight can be scheduled. *)
LEMMA IdleCanSchedule ==
    ASSUME NEW c \in ClockType, InFlight(c.state) = 0
    PROVE  CanSchedule(c)
BY DEF InFlight, CanSchedule, HasSchedule, Scheduled, OneAndScheduled, ClockType, ClockState,
       Unscheduled

(* maybe_reschedule_update resumes. *)
LEMMA RescheduleResumes ==
    ASSUME NEW c \in ClockType, NEW g \in Guesses, now \in 0 .. MaxTime
    PROVE  Resumes(c, maybe_reschedule_update(c, g))
<1> DEFINE d == [c EXCEPT !.deferred_times = @ \ ReachedTimes(c)]
           e == [c EXCEPT !.pending_reschedule = FALSE]
           f == [c EXCEPT !.pending_reschedule = FALSE, !.pending_reschedule_now = FALSE]
           head == CHOOSE t \in d.deferred_times : \A u \in d.deferred_times : t <= u
           r == maybe_reschedule_update(c, g)
<1> SUFFICES Resumes(c, r)
  OBVIOUS
<1>1. d \in ClockType /\ e \in ClockType /\ f \in ClockType
  BY DEF ClockType
<1>2. /\ Alike(c, d) /\ Alike(c, e) /\ Alike(c, f)
      /\ d.pending_reschedule = c.pending_reschedule
      /\ d.pending_reschedule_now = c.pending_reschedule_now
  BY DEF Alike, ClockType
<1>3. ASSUME NEW x \in ClockType, Alike(c, x) PROVE SameSchedule(c, x)
  <2>1. InFlight(c.state) = 0 => CanSchedule(x)
    BY <1>3, IdleCanSchedule DEF Alike
  <2>2. /\ Active(x) <=> Active(c)
        /\ Armed(x) <=> Armed(c)
        /\ x.state = c.state /\ x.inhibit_count = c.inhibit_count /\ x.slow = c.slow
        /\ want_triple_buffering(x) <=> want_triple_buffering(c)
    BY <1>3 DEF Alike, Active, Armed, want_triple_buffering
  <2>3. /\ Reschedulable(c) => Reschedulable(x)
        /\ Sound(c) => Sound(x)
        /\ Sound(c) => Reschedulable(x)
    BY <2>2 DEF Reschedulable, Sound, SourceAgrees
  <2> QED BY <2>1, <2>2, <2>3 DEF SameSchedule
<1>s. SameSchedule(c, d) /\ SameSchedule(c, e) /\ SameSchedule(c, f)
  BY <1>1, <1>2, <1>3
<1>4. CASE c.pending_reschedule \/ c.timelines # {}
  <2>1. CASE c.pending_reschedule_now
    <3>1. r = schedule_update_now(f, g)
      BY <1>4, <2>1 DEF maybe_reschedule_update
    <3>2. Serves(f, r) /\ Immediate(r)
      BY <1>1, <3>1, ScheduleNowServes
    <3> HIDE DEF f, r
    <3> QED BY <1>s, <3>2 DEF Resumes, Serves, SameSchedule
  <2>2. CASE ~c.pending_reschedule_now
    <3>1. r = schedule_update(e, g)
      BY <1>4, <2>2 DEF maybe_reschedule_update
    <3>2. Serves(e, r)
      BY <1>1, <3>1, ScheduleServes
    <3>3. Immediate(c) => Immediate(e)
      BY <1>2, <2>2 DEF Immediate, Alike
    <3> HIDE DEF e, r
    <3> QED BY <1>s, <3>2, <3>3 DEF Resumes, Serves, SameSchedule
  <2> QED BY <2>1, <2>2
<1>5. Immediate(c) => Immediate(d)
  BY <1>2 DEF Immediate, Alike
<1>6. CASE ~(c.pending_reschedule \/ c.timelines # {}) /\ d.deferred_times # {}
  <2>1. d.deferred_times \subseteq Nat \ {0}
    BY <1>1 DEF ClockType
  <2>2. PICK t \in d.deferred_times : \A u \in d.deferred_times : t <= u
    BY <1>6, <2>1, SmallestTime
  <2>3. head \in Nat \ {0}
    BY <2>1, <2>2
  <2>4. r = schedule_update_later(d, head, g)
    BY <1>6 DEF maybe_reschedule_update
  <2>5. Serves(d, r)
    BY <1>1, <2>3, <2>4, ScheduleLaterServes
  <2> HIDE DEF d, r
  <2> QED BY <1>s, <1>5, <1>6, <2>5 DEF Resumes, Serves, SameSchedule
<1>7. CASE /\ ~(c.pending_reschedule \/ c.timelines # {}) /\ d.deferred_times = {}
           /\ ReachedTimes(c) # {}
  <2>1. r = schedule_update(d, g)
    BY <1>7 DEF maybe_reschedule_update
  <2>2. Serves(d, r)
    BY <1>1, <2>1, ScheduleServes
  <2> HIDE DEF d, r
  <2> QED BY <1>s, <1>5, <1>7, <2>2 DEF Resumes, Serves, SameSchedule
<1>8. CASE /\ ~(c.pending_reschedule \/ c.timelines # {}) /\ d.deferred_times = {}
           /\ ReachedTimes(c) = {}
  <2>1. r = d
    BY <1>8 DEF maybe_reschedule_update
  <2>2. ~Wanted(d)
    BY <1>2, <1>8 DEF Wanted, Alike
  <2> HIDE DEF d, r
  <2> QED BY <1>s, <1>5, <1>8, <2>1, <2>2 DEF Resumes, SameSchedule
<1> QED BY <1>4, <1>6, <1>7, <1>8

(* A completion leaves the schedule as it is, and no schedule that the     *)
(* clock may not have.                                                     *)
LEMMA CompletionSchedule ==
    ASSUME NEW s \in ClockState, InFlight(s) > 0
    PROVE  /\ AfterCompletion(s) \in ClockState
           /\ AfterCompletion(s) \in HasSchedule <=> s \in HasSchedule
           /\ AfterCompletion(s) \in Now <=> s \in Now
           /\ AfterCompletion(s) \notin OneAndScheduled
           /\ AfterCompletion(s) = "DISPATCHED_ONE" => s = "DISPATCHED_TWO"
           /\ AfterCompletion(s) # "DISPATCHED_TWO"
           /\ s \in Unscheduled => AfterCompletion(s) \in Unscheduled
BY DEF AfterCompletion, InFlight, ClockState, HasSchedule, Scheduled, OneAndScheduled,
       Unscheduled, Now

(* The invariant of a clock c that frames were asked of, with so many in   *)
(* flight, by a stage that is mapped or not.                               *)
Wakes(c, asked, asked_now, flying, mapped) ==
    /\ Sound(c)
    /\ ~mapped => ~asked /\ ~asked_now
    /\ Active(c) /\ asked => c.pending_reschedule \/ c.state \in HasSchedule
    /\ Active(c) /\ Wanted(c) => Armed(c) \/ c.inhibit_count > 0 \/ flying > 0
    /\ asked_now => Immediate(c)

(* A clock that has been rescheduled wakes. *)
LEMMA ResumesWakes ==
    ASSUME NEW c \in ClockType, NEW d \in ClockType, Keeps(c, d), Resumes(c, d),
           Reschedulable(c), Sound(c) \/ c.pending_reschedule,
           NEW asked, NEW asked_now, NEW flying \in Nat, NEW mapped,
           flying = InFlight(c.state),
           ~mapped => ~asked /\ ~asked_now,
           Active(c) /\ asked => c.pending_reschedule \/ c.state \in HasSchedule,
           asked_now => Immediate(c)
    PROVE  Wakes(d, asked, asked_now, flying, mapped)
<1>1. Sound(d)
  BY DEF Resumes
<1>2. Active(d) <=> Active(c)
  BY DEF Active, Keeps
<1>3. Active(d) /\ asked => d.pending_reschedule \/ d.state \in HasSchedule
  BY <1>2 DEF Resumes
<1>4. ASSUME Active(d), Wanted(d), ~(d.inhibit_count > 0), ~(flying > 0)
      PROVE  Armed(d)
  <2>1. c.inhibit_count = 0 /\ InFlight(c.state) = 0
    BY <1>4 DEF Keeps, ClockType
  <2>2. d.state \in HasSchedule
    BY <1>2, <1>4, <2>1 DEF Resumes
  <2> QED BY <1>1, <1>4, <2>2 DEF Sound, SourceAgrees
<1>5. asked_now => Immediate(d)
  BY DEF Resumes
<1> QED BY <1>1, <1>3, <1>4, <1>5 DEF Wakes

(* So does one that has been scheduled. *)
LEMMA ServesWakes ==
    ASSUME NEW c \in ClockType, NEW d \in ClockType, Keeps(c, d), Serves(c, d), Sound(c),
           NEW asked, NEW asked_now, NEW flying \in Nat, NEW mapped,
           flying = InFlight(c.state),
           ~mapped => ~asked /\ ~asked_now,
           asked_now => Immediate(c) \/ Immediate(d)
    PROVE  Wakes(d, asked, asked_now, flying, mapped)
<1>1. Sound(d)
  BY DEF Serves, Sound, Reschedulable
<1>2. Active(d) <=> Active(c)
  BY DEF Active, Keeps
<1>3. Active(d) => d.pending_reschedule \/ d.state \in HasSchedule
  BY <1>2 DEF Serves
<1>4. ASSUME Active(d), Wanted(d), ~(d.inhibit_count > 0), ~(flying > 0)
      PROVE  Armed(d)
  <2>1. c.inhibit_count = 0 /\ InFlight(c.state) = 0
    BY <1>4 DEF Keeps, ClockType
  <2>2. d.state \in HasSchedule
    BY <1>2, <1>4, <2>1, IdleCanSchedule DEF Serves
  <2> QED BY <1>1, <1>4, <2>2 DEF Sound, SourceAgrees
<1>5. asked_now => Immediate(d)
  BY DEF Serves
<1> QED BY <1>1, <1>3, <1>4, <1>5 DEF Wakes

(* The clock's source brings about every frame that was asked for. *)
WakeInv == Wakes(clock, requested, requested_now, owed, stage_mapped)

(* What is left when a schedule is dropped. *)
LEMMA DroppedSchedule ==
    ASSUME NEW c \in ClockType
    PROVE  /\ DropSchedule(c) \in ClockType
           /\ DropSchedule(c).state = WithoutSchedule(c.state)
           /\ DropSchedule(c).state \in Unscheduled
           /\ c.state \in Unscheduled => DropSchedule(c).state = c.state
           /\ c.state \in OneAndScheduled => DropSchedule(c).state = "DISPATCHED_ONE"
           /\ c.state \in Scheduled => DropSchedule(c).state = "IDLE"
           /\ DropSchedule(c).pending_reschedule <=> c.pending_reschedule \/ c.state \in HasSchedule
           /\ Immediate(c) => Immediate(DropSchedule(c))
           /\ DropSchedule(c).mode = c.mode /\ DropSchedule(c).slow = c.slow
           /\ DropSchedule(c).inhibit_count = c.inhibit_count
           /\ DropSchedule(c).ready_time = c.ready_time
           /\ DropSchedule(c).timelines = c.timelines
           /\ DropSchedule(c).deferred_times = c.deferred_times
<1> DEFINE d == DropSchedule(c)
<1>1. d \in ClockType
  BY DropKeeps DEF Keeps
<1>2. /\ d.state = WithoutSchedule(c.state)
      /\ d.pending_reschedule = (c.pending_reschedule \/ c.state \notin Unscheduled)
      /\ d.pending_reschedule_now = (c.pending_reschedule_now \/ c.state \in Now)
      /\ d.mode = c.mode /\ d.slow = c.slow /\ d.inhibit_count = c.inhibit_count
      /\ d.ready_time = c.ready_time /\ d.timelines = c.timelines
      /\ d.deferred_times = c.deferred_times
  BY DEF DropSchedule, ClockType
<1>3. /\ WithoutSchedule(c.state) \in Unscheduled
      /\ c.state \in Unscheduled => WithoutSchedule(c.state) = c.state
      /\ c.state \in OneAndScheduled => WithoutSchedule(c.state) = "DISPATCHED_ONE"
      /\ c.state \in Scheduled => WithoutSchedule(c.state) = "IDLE"
      /\ c.state \notin Unscheduled <=> c.state \in HasSchedule
      /\ c.state \in Now => c.state \in HasSchedule
  BY DEF WithoutSchedule, Unscheduled, HasSchedule, Scheduled, OneAndScheduled, ClockType,
         ClockState, Now
<1>4. d.pending_reschedule <=> c.pending_reschedule \/ c.state \in HasSchedule
  BY <1>2, <1>3
<1>5. Immediate(c) => Immediate(d)
  BY <1>2, <1>3, <1>4 DEF Immediate
<1> HIDE DEF d
<1> QED BY <1>1, <1>2, <1>3, <1>4, <1>5 DEF d

(* The clock of a completion, rescheduled. *)
LEMMA CompletedWakes ==
    ASSUME FlightInv, WakeInv, owed > 0, NEW slow \in BOOLEAN, NEW g \in Guesses
    PROVE  LET d == maybe_reschedule_update([clock EXCEPT !.state = AfterCompletion(@),
                                                          !.slow = slow], g)
           IN  Wakes(d, requested, requested_now, owed - 1, stage_mapped)
<1> DEFINE c == [clock EXCEPT !.state = AfterCompletion(@), !.slow = slow]
           d == maybe_reschedule_update(c, g)
<1>1. /\ clock \in ClockType /\ clock.state \in ClockState /\ InFlight(clock.state) = owed
      /\ owed \in Nat /\ now \in 0 .. MaxTime
  BY DEF FlightInv, FlightAccounting, TypeOK, ClockType
<1>2. /\ AfterCompletion(clock.state) \in ClockState
      /\ InFlight(AfterCompletion(clock.state)) = owed - 1
      /\ AfterCompletion(clock.state) \in HasSchedule <=> clock.state \in HasSchedule
      /\ AfterCompletion(clock.state) \in Now <=> clock.state \in Now
      /\ AfterCompletion(clock.state) \notin OneAndScheduled
      /\ AfterCompletion(clock.state) = "DISPATCHED_ONE" => clock.state = "DISPATCHED_TWO"
      /\ AfterCompletion(clock.state) # "DISPATCHED_TWO"
      /\ clock.state \in Unscheduled => AfterCompletion(clock.state) \in Unscheduled
  BY <1>1, CompletionFlight, CompletionSchedule
<1>3. /\ c \in ClockType /\ c.state = AfterCompletion(clock.state)
      /\ c.mode = clock.mode /\ c.inhibit_count = clock.inhibit_count
      /\ c.ready_time = clock.ready_time
      /\ c.pending_reschedule = clock.pending_reschedule
      /\ c.pending_reschedule_now = clock.pending_reschedule_now
  BY <1>1, <1>2 DEF ClockType
<1> HIDE DEF c
<1>4. Keeps(c, d) /\ Resumes(c, d) /\ d \in ClockType
  BY <1>1, <1>3, RescheduleKeeps, RescheduleResumes DEF Keeps
<1>5. Sound(c) /\ Reschedulable(c)
  BY <1>2, <1>3 DEF WakeInv, Wakes, Sound, Reschedulable, SourceAgrees, Armed, Active
<1>6. (Active(c) /\ requested) => (c.pending_reschedule \/ c.state \in HasSchedule)
  BY <1>2, <1>3 DEF WakeInv, Wakes, Active
<1>7. requested_now => Immediate(c)
  BY <1>2, <1>3 DEF WakeInv, Wakes, Immediate
<1>8. ~stage_mapped => ~requested /\ ~requested_now
  BY DEF WakeInv, Wakes
<1>9. owed - 1 \in Nat /\ owed - 1 = InFlight(c.state)
  BY <1>1, <1>2, <1>3
<1> HIDE DEF d
<1>10. Wakes(d, requested, requested_now, owed - 1, stage_mapped)
  BY <1>3, <1>4, <1>5, <1>6, <1>7, <1>8, <1>9, ResumesWakes
<1> QED BY <1>10 DEF c, d

(* Every step keeps WakeInv. *)
LEMMA WakeStep == FlightInv /\ WakeInv /\ [Next]_vars => WakeInv'
<1> SUFFICES ASSUME FlightInv, WakeInv, [Next]_vars PROVE WakeInv'
  OBVIOUS
<1>t. /\ clock \in ClockType /\ now \in 0 .. MaxTime /\ owed \in Nat
      /\ InFlight(clock.state) = owed /\ clock.state \in ClockState
      /\ requested \in BOOLEAN /\ requested_now \in BOOLEAN /\ stage_mapped \in BOOLEAN
  BY DEF FlightInv, TypeOK, FlightAccounting, ClockType
<1>w. /\ Sound(clock) /\ Reschedulable(clock)
      /\ ~stage_mapped => ~requested /\ ~requested_now
      /\ Active(clock) /\ requested => clock.pending_reschedule \/ clock.state \in HasSchedule
      /\ Active(clock) /\ Wanted(clock) => Armed(clock) \/ clock.inhibit_count > 0 \/ owed > 0
      /\ requested_now => Immediate(clock)
  BY DEF WakeInv, Wakes, Sound, Reschedulable
<1>1. CASE ScheduleUpdate
  <2>1. PICK g \in Guesses : clock' = schedule_update(clock, g)
    BY <1>1 DEF ScheduleUpdate
  <2>2. Keeps(clock, clock') /\ Serves(clock, clock') /\ clock' \in ClockType
    BY <1>t, <2>1, ScheduleKeeps, ScheduleServes DEF Keeps
  <2>3. requested' = stage_mapped /\ UNCHANGED <<requested_now, owed, stage_mapped>>
    BY <1>1 DEF ScheduleUpdate
  <2>4. Wakes(clock', requested', requested_now, owed, stage_mapped)
    BY <1>t, <1>w, <2>2, <2>3, ServesWakes
  <2> QED BY <2>3, <2>4 DEF WakeInv
<1>2. CASE ScheduleUpdateNow
  <2>1. PICK g \in Guesses : clock' = schedule_update_now(clock, g)
    BY <1>2 DEF ScheduleUpdateNow
  <2>2. /\ Keeps(clock, clock') /\ Serves(clock, clock') /\ clock' \in ClockType
        /\ Immediate(clock')
    BY <1>t, <2>1, ScheduleNowKeeps, ScheduleNowServes DEF Keeps
  <2>3. requested' = stage_mapped /\ requested_now' = stage_mapped /\ UNCHANGED <<owed, stage_mapped>>
    BY <1>2 DEF ScheduleUpdateNow
  <2>4. Wakes(clock', requested', requested_now', owed, stage_mapped)
    BY <1>t, <1>w, <2>2, <2>3, ServesWakes
  <2> QED BY <2>3, <2>4 DEF WakeInv
<1>3. ASSUME NEW t \in Timelines, AddTimeline(t) PROVE WakeInv'
  <2> DEFINE c == [clock EXCEPT !.timelines = @ \cup {t}]
  <2>1. /\ c \in ClockType /\ c.state = clock.state /\ c.mode = clock.mode
        /\ c.slow = clock.slow /\ c.inhibit_count = clock.inhibit_count
        /\ c.ready_time = clock.ready_time
        /\ c.pending_reschedule = clock.pending_reschedule
        /\ c.pending_reschedule_now = clock.pending_reschedule_now
        /\ c.deferred_times = clock.deferred_times
    BY <1>t DEF ClockType
  <2> HIDE DEF c
  <2>2. Sound(c) /\ (requested_now => Immediate(c))
    BY <1>w, <2>1 DEF Sound, SourceAgrees, Armed, Active, Immediate
  <2>3. UNCHANGED <<requested_now, owed, stage_mapped>>
    BY <1>3 DEF AddTimeline
  <2>4. CASE clock.timelines = {}
    <3>1. PICK g \in Guesses : clock' = schedule_update(c, g)
      BY <1>3, <2>4 DEF AddTimeline, c
    <3>2. Keeps(c, clock') /\ Serves(c, clock') /\ clock' \in ClockType
      BY <1>t, <2>1, <3>1, ScheduleKeeps, ScheduleServes DEF Keeps
    <3>3. requested' = stage_mapped
      BY <1>3, <2>4 DEF AddTimeline
    <3>4. Wakes(clock', requested', requested_now, owed, stage_mapped)
      BY <1>t, <1>w, <2>1, <2>2, <3>2, <3>3, ServesWakes
    <3> QED BY <2>3, <3>4 DEF WakeInv
  <2>5. CASE clock.timelines # {}
    <3>1. clock' = c /\ requested' = requested
      BY <1>3, <2>5 DEF AddTimeline, c
    <3>2. Active(clock) => Armed(clock) \/ clock.inhibit_count > 0 \/ owed > 0
      BY <1>w, <2>5 DEF Wanted
    <3>3. Wakes(c, requested, requested_now, owed, stage_mapped)
      BY <1>w, <2>1, <2>2, <3>2 DEF Wakes, Active, Armed
    <3> QED BY <2>3, <3>1, <3>3 DEF WakeInv
  <2> QED BY <2>4, <2>5
<1>4. ASSUME NEW t \in Timelines, RemoveTimeline(t) PROVE WakeInv'
  <2>1. /\ clock' = [clock EXCEPT !.timelines = @ \ {t}]
        /\ UNCHANGED <<requested, requested_now, owed, stage_mapped>>
    BY <1>4 DEF RemoveTimeline
  <2>2. /\ clock'.state = clock.state /\ clock'.mode = clock.mode
        /\ clock'.slow = clock.slow /\ clock'.inhibit_count = clock.inhibit_count
        /\ clock'.ready_time = clock.ready_time
        /\ clock'.pending_reschedule = clock.pending_reschedule
        /\ clock'.pending_reschedule_now = clock.pending_reschedule_now
        /\ clock'.deferred_times = clock.deferred_times
        /\ clock'.timelines # {} => clock.timelines # {}
    BY <1>t, <2>1 DEF ClockType
  <2>3. Wakes(clock', requested, requested_now, owed, stage_mapped)
    BY <1>w, <2>2 DEF Wakes, Sound, SourceAgrees, Armed, Active, Immediate, Wanted
  <2> QED BY <2>1, <2>3 DEF WakeInv
<1>5. ASSUME NEW when \in 1 .. MaxTime, AddFutureTime(when) PROVE WakeInv'
  <2> DEFINE c == [clock EXCEPT !.deferred_times = @ \cup {when}]
  <2>1. /\ c \in ClockType /\ c.state = clock.state /\ c.mode = clock.mode
        /\ c.slow = clock.slow /\ c.inhibit_count = clock.inhibit_count
        /\ c.ready_time = clock.ready_time
        /\ c.pending_reschedule = clock.pending_reschedule
        /\ c.pending_reschedule_now = clock.pending_reschedule_now
    BY <1>t, ClockAssumption DEF ClockType
  <2>2. PICK g \in Guesses : clock' = maybe_reschedule_update(c, g)
    BY <1>5 DEF AddFutureTime
  <2> HIDE DEF c
  <2>3. Keeps(c, clock') /\ Resumes(c, clock') /\ clock' \in ClockType
    BY <1>t, <2>1, <2>2, RescheduleKeeps, RescheduleResumes DEF Keeps
  <2>4. Sound(c) /\ Reschedulable(c) /\ (requested_now => Immediate(c))
        /\ (Active(c) /\ requested => c.pending_reschedule \/ c.state \in HasSchedule)
    BY <1>w, <2>1 DEF Sound, Reschedulable, SourceAgrees, Armed, Active, Immediate
  <2>5. UNCHANGED <<requested, requested_now, owed, stage_mapped>>
    BY <1>5 DEF AddFutureTime
  <2>6. Wakes(clock', requested, requested_now, owed, stage_mapped)
    BY <1>t, <1>w, <2>1, <2>3, <2>4, ResumesWakes
  <2> QED BY <2>5, <2>6 DEF WakeInv
<1>6. CASE Inhibit
  <2> DEFINE c == [clock EXCEPT !.inhibit_count = @ + 1]
             d == DropSchedule(c)
             e == [d EXCEPT !.ready_time = Unarmed]
  <2>1. /\ c \in ClockType /\ c.state = clock.state /\ c.mode = clock.mode
        /\ c.slow = clock.slow /\ c.inhibit_count = clock.inhibit_count + 1
        /\ c.ready_time = clock.ready_time
        /\ c.pending_reschedule = clock.pending_reschedule
        /\ c.pending_reschedule_now = clock.pending_reschedule_now
        /\ clock.inhibit_count \in Nat
    BY <1>6, <1>t, ClockAssumption DEF ClockType, Inhibit
  <2>2. UNCHANGED <<requested, requested_now, owed, stage_mapped>>
    BY <1>6 DEF Inhibit
  <2>3. clock' = IF c.inhibit_count = 1 THEN e ELSE c
    BY <1>6 DEF Inhibit
  <2> HIDE DEF c
  <2>4. requested_now => Immediate(c)
    BY <1>w, <2>1 DEF Immediate
  <2>5. CASE c.inhibit_count = 1
    <3>1. /\ d \in ClockType /\ d.state \in Unscheduled
          /\ d.pending_reschedule <=> c.pending_reschedule \/ c.state \in HasSchedule
          /\ Immediate(c) => Immediate(d)
          /\ d.mode = c.mode /\ d.inhibit_count = 1
      BY <2>1, <2>5, DroppedSchedule
    <3> HIDE DEF d
    <3>2. /\ e.state = d.state /\ e.mode = d.mode /\ e.inhibit_count = d.inhibit_count
          /\ e.pending_reschedule = d.pending_reschedule
          /\ e.pending_reschedule_now = d.pending_reschedule_now
          /\ ~Armed(e)
      BY <3>1 DEF ClockType, Armed
    <3>3. d.state \notin HasSchedule /\ d.state \notin OneAndScheduled
      BY <3>1 DEF Unscheduled, HasSchedule, Scheduled, OneAndScheduled
    <3> HIDE DEF e
    <3>4. Sound(e)
      BY <3>1, <3>2, <3>3 DEF Sound, SourceAgrees
    <3>5. Active(e) /\ requested => e.pending_reschedule
      BY <1>w, <2>1, <3>1, <3>2 DEF Active
    <3>6. requested_now => Immediate(e)
      BY <2>4, <3>1, <3>2 DEF Immediate
    <3>7. e.inhibit_count > 0
      BY <3>1, <3>2
    <3>8. Wakes(e, requested, requested_now, owed, stage_mapped)
      BY <1>w, <3>4, <3>5, <3>6, <3>7 DEF Wakes
    <3> QED BY <2>2, <2>3, <2>5, <3>8 DEF WakeInv
  <2>6. CASE c.inhibit_count # 1
    <3>1. clock.inhibit_count > 0 /\ c.inhibit_count > 0
      BY <2>1, <2>6
    <3>2. Sound(c)
      BY <1>w, <2>1, <3>1 DEF Sound, SourceAgrees, Armed, Active
    <3>3. Active(c) /\ requested => c.pending_reschedule \/ c.state \in HasSchedule
      BY <1>w, <2>1 DEF Active
    <3>4. Wakes(c, requested, requested_now, owed, stage_mapped)
      BY <1>w, <2>4, <3>1, <3>2, <3>3 DEF Wakes
    <3> QED BY <2>2, <2>3, <2>6, <3>4 DEF WakeInv
  <2> QED BY <2>5, <2>6
<1>7. CASE Uninhibit
  <2> DEFINE c == [clock EXCEPT !.inhibit_count = @ - 1]
  <2>1. /\ c \in ClockType /\ c.state = clock.state /\ c.mode = clock.mode
        /\ c.slow = clock.slow /\ c.inhibit_count = clock.inhibit_count - 1
        /\ clock.inhibit_count > 0 /\ clock.inhibit_count \in Nat
        /\ c.ready_time = clock.ready_time
        /\ c.pending_reschedule = clock.pending_reschedule
        /\ c.pending_reschedule_now = clock.pending_reschedule_now
    BY <1>7, <1>t, ClockAssumption DEF ClockType, Uninhibit
  <2>2. UNCHANGED <<requested, requested_now, owed, stage_mapped>>
    BY <1>7 DEF Uninhibit
  <2>3. IF c.inhibit_count = 0
        THEN \E g \in Guesses : clock' = maybe_reschedule_update(c, g)
        ELSE clock' = c
    BY <1>7 DEF Uninhibit
  <2> HIDE DEF c
  <2>4. /\ Sound(c) /\ Reschedulable(c) /\ (requested_now => Immediate(c))
        /\ (Active(c) /\ requested => c.pending_reschedule \/ c.state \in HasSchedule)
    BY <1>w, <2>1 DEF Sound, Reschedulable, SourceAgrees, Armed, Active, Immediate
  <2>5. CASE c.inhibit_count = 0
    <3>1. PICK g \in Guesses : clock' = maybe_reschedule_update(c, g)
      BY <2>3, <2>5
    <3>2. Keeps(c, clock') /\ Resumes(c, clock') /\ clock' \in ClockType
      BY <1>t, <2>1, <3>1, RescheduleKeeps, RescheduleResumes DEF Keeps
    <3>3. Wakes(clock', requested, requested_now, owed, stage_mapped)
      BY <1>t, <1>w, <2>1, <2>4, <3>2, ResumesWakes
    <3> QED BY <2>2, <3>3 DEF WakeInv
  <2>6. CASE c.inhibit_count # 0
    <3>1. c.inhibit_count > 0
      BY <2>1, <2>6
    <3>2. Wakes(c, requested, requested_now, owed, stage_mapped)
      BY <1>w, <2>4, <3>1 DEF Wakes
    <3> QED BY <2>2, <2>3, <2>6, <3>2 DEF WakeInv
  <2> QED BY <2>5, <2>6
<1>8. ASSUME NEW m \in {"FIXED", "VARIABLE"}, SetMode(m) PROVE WakeInv'
  <2> DEFINE c == [clock EXCEPT !.mode = m]
             d == DropSchedule(c)
  <2>1. /\ c \in ClockType /\ c.state = clock.state /\ c.mode = m
        /\ c.slow = clock.slow /\ c.inhibit_count = clock.inhibit_count
        /\ c.ready_time = clock.ready_time
        /\ c.pending_reschedule = clock.pending_reschedule
        /\ c.pending_reschedule_now = clock.pending_reschedule_now
    BY <1>t DEF ClockType, Mode
  <2>2. PICK g \in Guesses : clock' = maybe_reschedule_update(d, g)
    BY <1>8 DEF SetMode
  <2>3. Active(clock) /\ UNCHANGED <<requested, requested_now, owed, stage_mapped>>
    BY <1>8 DEF SetMode, Active
  <2> HIDE DEF c
  <2>4. /\ d \in ClockType /\ d.state \in Unscheduled
        /\ c.state \in Unscheduled => d.state = c.state
        /\ c.state \in OneAndScheduled => d.state = "DISPATCHED_ONE"
        /\ c.state \in Scheduled => d.state = "IDLE"
        /\ d.pending_reschedule <=> c.pending_reschedule \/ c.state \in HasSchedule
        /\ Immediate(c) => Immediate(d)
        /\ d.mode = c.mode /\ d.inhibit_count = c.inhibit_count /\ d.slow = c.slow
        /\ d.ready_time = c.ready_time
    BY <2>1, DroppedSchedule
  <2>5. Keeps(c, d)
    BY <2>1, DropKeeps
  <2> HIDE DEF d
  <2>6. Keeps(d, clock') /\ Resumes(d, clock') /\ clock' \in ClockType
    BY <1>t, <2>2, <2>4, RescheduleKeeps, RescheduleResumes DEF Keeps
  <2>7. InFlight(d.state) = owed
    BY <1>t, <2>1, <2>5 DEF Keeps
  <2>8. c.state \in Unscheduled \/ c.state \in OneAndScheduled \/ c.state \in Scheduled
    BY <1>t, <2>1 DEF ClockState, HasSchedule
  <2>9. SourceAgrees(d)
    <3>1. d.state \notin HasSchedule /\ d.state \notin OneAndScheduled
      BY <2>4 DEF Unscheduled, HasSchedule, Scheduled, OneAndScheduled
    <3>2. d.mode # "PASSIVE"
      BY <2>1, <2>4
    <3>3. d.inhibit_count > 0 => ~Armed(d)
      BY <1>w, <2>1, <2>3, <2>4 DEF Sound, SourceAgrees, Armed
    <3> QED BY <2>4, <3>1, <3>2, <3>3 DEF SourceAgrees, Active
  <2>10. c.state \in OneAndScheduled => want_triple_buffering(d) /\ d.pending_reschedule
    BY <1>w, <2>1, <2>4 DEF Sound, SourceAgrees, want_triple_buffering, HasSchedule
  <2>11. c.state \notin OneAndScheduled /\ Armed(d) => d.state \notin {"DISPATCHED_ONE", "DISPATCHED_TWO"}
    BY <1>w, <2>1, <2>4, <2>8 DEF Sound, Armed
  <2>12. Reschedulable(d) /\ (Sound(d) \/ d.pending_reschedule)
    <3>1. CASE c.state \in OneAndScheduled
      BY <2>4, <2>9, <2>10, <3>1 DEF Reschedulable
    <3>2. CASE c.state \notin OneAndScheduled
      BY <2>9, <2>11, <3>2 DEF Reschedulable, Sound
    <3> QED BY <3>1, <3>2
  <2>13. /\ requested => d.pending_reschedule
         /\ requested_now => Immediate(d)
    BY <1>w, <2>1, <2>3, <2>4 DEF Immediate
  <2>14. Wakes(clock', requested, requested_now, owed, stage_mapped)
    BY <1>t, <1>w, <2>4, <2>6, <2>7, <2>12, <2>13, ResumesWakes
  <2> QED BY <2>3, <2>14 DEF WakeInv
<1>9. CASE SetPassive
  <2>1. /\ clock' = [clock EXCEPT !.mode = "PASSIVE", !.next_presentation_time = 0,
                                  !.ready_time = Unarmed]
        /\ UNCHANGED <<requested, requested_now, owed, stage_mapped>>
    BY <1>9 DEF SetPassive
  <2>2. /\ clock'.state = clock.state /\ clock'.slow = clock.slow
        /\ ~Active(clock') /\ ~Armed(clock')
        /\ clock'.pending_reschedule = clock.pending_reschedule
        /\ clock'.pending_reschedule_now = clock.pending_reschedule_now
    BY <1>t, <2>1 DEF ClockType, Active, Armed
  <2>3. Wakes(clock', requested, requested_now, owed, stage_mapped)
    BY <1>w, <2>2 DEF Wakes, Sound, SourceAgrees, Immediate
  <2> QED BY <2>1, <2>3 DEF WakeInv
<1>10. CASE Dispatch
  <2>1. /\ clock' = [clock EXCEPT !.state = AfterDispatch(clock.state), !.ready_time = Unarmed,
                                  !.driver_asked = FALSE]
        /\ requested' = FALSE /\ requested_now' = FALSE /\ owed' = owed + 1
    BY <1>10 DEF Dispatch
  <2>2. clock'.state = AfterDispatch(clock.state) /\ ~Armed(clock')
    BY <1>t, <2>1 DEF ClockType, Armed
  <2>3. AfterDispatch(clock.state) \in {"DISPATCHED_ONE", "DISPATCHED_TWO"}
    BY DEF AfterDispatch
  <2>4. clock'.state \in Unscheduled /\ clock'.state \notin HasSchedule /\ clock'.state \notin OneAndScheduled
    BY <2>2, <2>3 DEF Unscheduled, HasSchedule, Scheduled, OneAndScheduled
  <2>5. Sound(clock')
    BY <2>2, <2>4 DEF Sound, SourceAgrees
  <2>6. owed' > 0
    BY <1>t, <2>1
  <2> QED BY <2>1, <2>5, <2>6 DEF WakeInv, Wakes
<1>11. CASE NotifyPresented
  <2>1. owed > 0
    BY <1>11 DEF NotifyPresented, CanComplete
  <2>2. InFlight(clock.state) # 0
    BY <1>t, <2>1
  <2>3. \E g \in Guesses, slow \in BOOLEAN :
          clock' = IF InFlight(clock.state) = 0 THEN clock
                   ELSE maybe_reschedule_update(
                            [clock EXCEPT !.state = AfterCompletion(@),
                                          !.slow = slow], g)
    BY <1>11, Zenon DEF NotifyPresented
  <2>4. PICK g \in Guesses, slow \in BOOLEAN :
          clock' = maybe_reschedule_update([clock EXCEPT !.state = AfterCompletion(@),
                                                         !.slow = slow], g)
    BY <2>2, <2>3, Zenon
  <2>5. Wakes(clock', requested, requested_now, owed - 1, stage_mapped)
    BY <2>1, <2>4, CompletedWakes
  <2>6. owed' = owed - 1 /\ UNCHANGED <<requested, requested_now, stage_mapped>>
    BY <1>11 DEF NotifyPresented
  <2> QED BY <2>5, <2>6 DEF WakeInv
<1>12. CASE NotifyReady \/ FrameIdle
  <2>1. owed > 0 /\ notify_ready /\ UNCHANGED <<requested, requested_now, stage_mapped>>
    BY <1>12 DEF NotifyReady, FrameIdle, CanComplete
  <2>2. PICK g \in Guesses :
          clock' = maybe_reschedule_update([clock EXCEPT !.state = AfterCompletion(@)], g)
    BY <1>t, <2>1 DEF notify_ready
  <2>3. /\ [clock EXCEPT !.state = AfterCompletion(@)] =
             [clock EXCEPT !.state = AfterCompletion(@), !.slow = clock.slow]
        /\ clock.slow \in BOOLEAN
    BY <1>t DEF ClockType
  <2>4. Wakes(clock', requested, requested_now, owed - 1, stage_mapped)
    BY <2>1, <2>2, <2>3, CompletedWakes
  <2>5. owed' = owed - 1
    BY <2>1 DEF notify_ready
  <2> QED BY <2>1, <2>4, <2>5 DEF WakeInv
<1>13. CASE FrameIgnored
  <2> DEFINE c == [clock EXCEPT !.state = "IDLE"]
  <2>1. /\ ~stage_mapped /\ owed = 1
        /\ owed' = owed - 1 /\ UNCHANGED <<requested, requested_now, stage_mapped>>
    BY <1>13 DEF FrameIgnored, FlightInv, UnmappedFlight
  <2>2. PICK g \in Guesses : clock' = maybe_reschedule_update(c, g)
    BY <1>13 DEF FrameIgnored
  <2>3. /\ c \in ClockType /\ c.state = "IDLE" /\ c.mode = clock.mode
        /\ c.inhibit_count = clock.inhibit_count /\ c.ready_time = clock.ready_time
    BY <1>t DEF ClockType, ClockState, Unscheduled
  <2> HIDE DEF c
  <2>4. Keeps(c, clock') /\ Resumes(c, clock') /\ clock' \in ClockType
    BY <1>t, <2>2, <2>3, RescheduleKeeps, RescheduleResumes DEF Keeps
  <2>5. /\ c.state \notin HasSchedule /\ c.state \notin OneAndScheduled /\ c.state \in Unscheduled
        /\ InFlight(c.state) = 0
    BY <2>3 DEF HasSchedule, Scheduled, OneAndScheduled, Unscheduled, InFlight
  <2>6. Sound(c) /\ Reschedulable(c)
    BY <1>w, <2>3, <2>5 DEF Sound, Reschedulable, SourceAgrees, Armed, Active
  <2>7. owed' \in Nat /\ owed' = InFlight(c.state)
    BY <2>1, <2>5
  <2>8. Wakes(clock', requested, requested_now, owed', stage_mapped)
    BY <1>w, <2>1, <2>3, <2>4, <2>6, <2>7, ResumesWakes
  <2> QED BY <2>1, <2>8 DEF WakeInv
<1>14. CASE FramePending \/ MapStage \/ Tick \/ UNCHANGED vars
  <2>1. UNCHANGED <<clock, requested, requested_now, owed>> /\ (stage_mapped => stage_mapped')
    BY <1>14 DEF FramePending, MapStage, Tick, vars
  <2> QED BY <2>1 DEF WakeInv, Wakes
<1> QED
  BY <1>1, <1>2, <1>3, <1>4, <1>5, <1>6, <1>7, <1>8, <1>9, <1>10, <1>11, <1>12, <1>13,
     <1>14 DEF Next

(* WakeInv is an invariant. *)
LEMMA WakeInvariant == Spec => [](FlightInv /\ WakeInv)
<1>1. Init => WakeInv
  BY DEF Init, WakeInv, Wakes, Sound, SourceAgrees, Active, Armed, Wanted, HasSchedule,
         Scheduled, OneAndScheduled, Unscheduled
<1> QED BY <1>1, FlightInit, FlightStep, WakeStep, PTL DEF Spec

(* The source is never armed while a dispatch would return without         *)
(* disarming it: the main loop does not spin.                              *)
THEOREM ClockNoBusyLoop == Spec => []NoBusyLoop
<1>1. WakeInv => NoBusyLoop
  BY DEF WakeInv, Wakes, Sound, Armed, NoBusyLoop
<1> QED BY <1>1, WakeInvariant, PTL

(* Whatever wants a frame of an active clock has an armed source, an       *)
(* inhibition or a frame in flight that will bring it about.               *)
THEOREM ClockNoLostWakeup == Spec => []NoLostWakeup
<1>1. FlightInv /\ WakeInv => NoLostWakeup
  <2> SUFFICES ASSUME FlightInv, WakeInv, clock.mode # "PASSIVE" PROVE NoLostWakeup
    BY DEF NoLostWakeup
  <2>1. Active(clock) /\ Sound(clock)
    BY DEF Active, WakeInv, Wakes
  <2>2. clock.state \notin Unscheduled => clock.state \in HasSchedule
    BY DEF FlightInv, TypeOK, ClockType, ClockState
  <2>3. clock.state \in HasSchedule => clock.ready_time # Unarmed
    BY <2>1 DEF Sound, SourceAgrees, Armed
  <2>4. requested => clock.pending_reschedule \/ clock.state \in HasSchedule
    BY <2>1 DEF WakeInv, Wakes
  <2>5. /\ clock.pending_reschedule \/ clock.timelines # {} \/ clock.deferred_times # {} =>
             clock.ready_time # Unarmed \/ clock.inhibit_count > 0 \/ owed > 0
    BY <2>1 DEF WakeInv, Wakes, Wanted, Armed
  <2> QED BY <2>2, <2>3, <2>4, <2>5 DEF NoLostWakeup
<1> QED BY <1>1, WakeInvariant, PTL

(* An update asked for with schedule_update_now stays an immediate one     *)
(* until it is begun.                                                      *)
THEOREM ClockNowNotDowngraded == Spec => []NowNotDowngraded
<1>1. WakeInv => NowNotDowngraded
  BY DEF WakeInv, Wakes, Immediate, NowNotDowngraded
<1> QED BY <1>1, WakeInvariant, PTL

(* An inhibited clock has no schedule and no armed source. *)
THEOREM ClockInhibitedIsQuiet == Spec => []InhibitedIsQuiet
<1>1. WakeInv => InhibitedIsQuiet
  BY DEF WakeInv, Wakes, Sound, SourceAgrees, Armed, Active, InhibitedIsQuiet
<1> QED BY <1>1, WakeInvariant, PTL
=============================================================================
