# Mutter: a verification project for its display pipeline, commits, stacking and gestures

Mutter is the Wayland compositor and X11 window manager of GNOME.  This
directory keeps TLA+ models of the parts of it whose correctness depends on the
order in which callbacks, timers, threads, clients and hardware events happen, the TLC
configurations that model-check them, and TLAPS proofs of what matters most
about them.

## 1. Inventory

Paths are relative to the repository.  Mutter is one process: the main thread
runs a GLib main loop; the native backend adds a KMS thread (`MetaThread`, a
real-time kernel thread or a user thread) and an input thread.  The path of a
frame goes through five components:

    client --wl_surface.commit--> wayland transactions --damage--> frame clock
       --dispatch--> onscreen (swap buffers) --update--> KMS impl device
       --page flip event--> onscreen --notify_presented--> frame clock

| component | source | state | operations | what is hard |
|---|---|---|---|---|
| frame clock | `clutter/clutter/clutter-frame-clock.c` | a ten-state machine, a GSource, three pooled `Frame`s behind four pointers, pending/now flags, inhibition count, future times | schedule_update (now, later), add_future_time, inhibit, uninhibit, set_mode, set_passive, dispatch, notify_presented, notify_ready | every operation may be called from within dispatch; a request that is neither scheduled nor remembered freezes an output; a pool of 3 for 4 pointers |
| KMS implementation device | `src/backends/native/meta-kms-impl-device.c`, `meta-kms-impl-device-atomic.c` | per CRTC: pending update, submitted update and its sync file source, deadline timer, page flip in flight, await-flush flag | handle_update, update_ready, await_flush, schedule_process, deadline dispatch, process_update (mode set), page flip event, disable, prepare_shutdown | four asynchronous sources (main thread, sync file, timer, kernel) act on one slot; every update must be answered exactly once |
| Wayland transactions | `src/wayland/meta-wayland-transaction.c` | per surface a queue of transactions; per transaction its entries, unready buffer sources, time, dependencies | commit, buffer ready, surface destroyed, apply | an ordering across several surfaces, re-entrancy while applying, a queue that may be blocked by one buffer |
| native onscreen | `src/backends/native/meta-onscreen-native.c` | next, posted, presented, superseded frames; cogl's queue of frame infos | swap_buffers, direct_scanout, finish_frame, page flip feedback, result feedback | each frame must complete exactly once on success, failure, discard and supersession |
| KMS thread | `src/backends/native/meta-thread.c`, `meta-thread-impl.c` | task and callback queues, callback sources per main context, real-time inhibition | post_task, run_task_sync, queue_callback, flush_callbacks, reset_thread_type | cross-thread queues; callbacks flushed re-entrantly; the thread is torn down and restarted in another type |
| KMS cursor manager | `src/backends/native/meta-kms-cursor-manager.c` | per CRTC cursor stage positions and pending updates | position change from the input thread, update filter in the KMS thread | races the input thread with composited frames |
| stage and stage views | `clutter/clutter/clutter-stage.c`, `clutter-stage-view.c` | redraw clip, relayout/redraw flags, pending frame | schedule_update, handle_frame_clock_* | damage recorded while a frame is being painted |
| transitions, timelines | `clutter/clutter/clutter-timeline.c` | elapsed time, direction, repeat count, markers | start, stop, advance, set_frame_clock | numeric edges at the ends |
| gestures and events | `clutter/clutter/clutter-gesture.c`, `clutter-stage.c` | per gesture state, relations, points | handle_event, cancel, recognise | a graph of gestures cancelling one another |
| actors, layout, paint nodes | `clutter/clutter/` | scene graph | allocate, paint, pick | data transformation, little control |
| Cogl | `cogl/` | pipelines, textures, onscreen frame callbacks | GL state management | wrapper over GL |
| Mtk | `mtk/` | regions, rectangles | arithmetic on regions | pure |
| monitor configuration | `src/backends/meta-monitor-manager.c`, `meta-monitor-config-manager.c` | current, previous and temporary configuration, confirmation timeout | apply, confirm, restore, hotplug | timeout races the confirmation |
| seat and input | `src/backends/native/meta-seat-impl.c`, `meta-seat-native.c` | devices, button counts, touch states, repeat timer | libinput dispatch, release on device removal | input thread against main thread |
| screen cast, remote desktop, input capture | `src/backends/meta-screen-cast-*.c`, `meta-remote-desktop-session.c`, `meta-input-capture-session.c` | D-Bus sessions, PipeWire streams, dequeued buffers | start, stop, record frame, enable, release | D-Bus peers vanish at any time |
| DRM lease | `src/backends/native/meta-drm-lease.c`, `src/wayland/meta-wayland-drm-lease.c` | leases, leased connectors | create, revoke | kernel revocation |
| window manager core | `src/core/` (window.c, display.c, workspace.c, stack.c, constraints.c, place.c) | windows, workspaces, focus, stacking | map, move, resize, focus, change workspace | very large state; much of it is policy |
| X11 stacking | `src/core/stack-tracker.c` | the server's stack as last reported, unverified and predicted operations | raise, lower, restack, X events | predictions overtaken by late events |
| X11 windows, sync counters, focus | `src/x11/` | serials, frame counters, frozen state | sync alarm, focus in/out, selection transfer | replies and events out of order |
| Wayland protocols | `src/wayland/` | surfaces, roles, configurations, seats, data devices, popups | one handler per request | configure/ack pairs, client destroys anything at any time |
| compositor | `src/compositor/` | window actors, sync actors, plugins, `meta-later.c` queues | effects, culling, laters | laters added while laters run |
| sessions and service channel | `src/core/meta-session-manager.c`, `meta-service-channel.c` | saved window state | save, restore | persistence |
| development kit | `mdk/` | viewer of a headless session | - | a client program |
| frames client | `src/frames/` | X11 window decorations | - | a separate GTK program |

What makes each of them correct, for those on the path of a frame:

- frame clock: the frames it believes to be in flight are those the display
  owes it; a request is scheduled or remembered until a frame begins; the
  source is armed exactly when a frame is due and never spins.
- KMS implementation device: a posted update is answered once, by a flip or by
  a failure; at most one flip per CRTC is in flight; an update that is held
  back has something that will release it.
- cursor manager: a cursor position that is not on the screen is still to be
  committed.
- onscreen and renderer: a frame completes once; a mode set is posted once all
  views have provided their frames, and they can.
- transactions: those of one surface are applied in order, those that are ready
  are applied, an entry of a dead surface blocks nobody.
- surfaces: what a client committed last is shown in the end, in the order of its
  commits, and the tree on the screen is the one the client built.
- KMS thread: tasks run in the order they were posted, flushed callbacks have
  run when the flush returns, inhibitions are balanced across a change of type.

- stack tracker: the verified stack is the server's, up to events on their way;
  what is predicted is what the server will report.
- gestures: what gestures record of one another agrees; one that follows a point
  hears of its end and returns to WAITING; a gesture does not cancel another it
  was told not to.

The hazards, each at its line with the properties that watch it, are listed
under "hazards" in `PROJECT.json`.

## 2. Plan

Done, in this order:

1. `FrameClock` - the scheduler; its proofs in `FrameClockProofs`.
2. `UpdateDelivery` - what the KMS thread promises the onscreens (abstract).
3. `KmsImplDevice` - the KMS thread's device with the parts of the cursor
   manager, onscreen and renderer that drive it; shown to implement
   `UpdateDelivery`.  `MCKms` adds the symmetry of its CRTCs for TLC.
4. `OnscreenNative` - the frames of one view between the clock and KMS.
5. `CommitOrder` (abstract) and `WaylandTransaction`, which implements it;
   `WaylandSurface` builds transactions from a client's requests and takes
   `CommitOrder` for what happens to them afterwards.
6. `MetaThread` and, on the order of tasks it shows, `KmsScheduling`.
7. `StackTracker`, `ClutterGesture`.

How they fit together: `FrameClock` draws at most two frames at a time, which
`OnscreenNative` relies on (`clock < 2`); `OnscreenNative` posts one update at a
time and has it answered once, which is what `KmsImplDevice` promises
(`UpdateDelivery`); `KmsImplDevice` relies on the main loop priorities of the
thread `MetaThread` models.  `WaylandTransaction` asks for frames at future times
(`FrameClock`'s `add_future_time`).

Next:

8. Proofs.  Done: the safety of the frame clock, the KMS device, the thread, its
   scheduling, the onscreen, the transactions, the surfaces, the gestures and the stack
   tracker, and both refinements (section 5).  Left: that a restack puts the windows
   where they are wanted (`Restacked`).
9. `MonitorConfig` (temporary configurations whose confirmation races a timeout
   and hotplugs), `Later`, `Timeline`, destruction of a surface with queued
   transactions, `prepare_shutdown` of the KMS device.

## 3. The modules and the code

`PROJECT.json` maps every definition to its lines.  Definitions keep the names
of the C functions; actions are in camel case.  A definition whose comment
starts with "Variant:" or says "mutant" is a deliberately wrong form of its
neighbour, used only to show that a property would notice.

### FrameClock

`clock` is the record of the scheduling fields of `struct _ClutterFrameClock`,
so that functions that call one another (`maybe_reschedule_update` ->
`schedule_update_later` -> ...) are operators from records to records.
`use_count` and the four pointers are the frame pool.  `dispatching` is TRUE from
the start of `clutter_frame_clock_dispatch` until its listener has returned:
`Dispatch` is everything up to the call of the listener, `FramePending`,
`FrameIdle` and `FrameIgnored` are the three ends of the `switch` after it, and
all public functions may be called between the two, which is how re-entrancy is
explored.  `stage_mapped` is the condition under which the stage view's listener
ignores frames.

Time is discrete, one unit being a refresh cycle.  What
`calculate_next_update_time_us` and its two siblings return depends on
measurements the module does not carry, so it is a choice (`Guesses`).

`owed`, `requested` and `requested_now` are history variables: no guard reads
them except that the display completes only frames it owes.

### KmsImplDevice

`dev` is what the KMS thread and the kernel know: per CRTC the `CrtcFrame`
(pending and submitted update, `pending_page_flip`, `await_flush`, the deadline
timer), the listeners of the flip in flight (`page_flip_datas`), the kernel's
state, the events to be read, and the callbacks queued for the KMS and the main
thread.  An update is the set of what it carries, merging is union, a NULL
update is the empty set.  The outcome of an ioctl is a parameter of the
operators (`ok`, `dl`), chosen by the action.

The thread's main loop matters: tasks run one per iteration at
`G_PRIORITY_HIGH + 2`, callbacks, timers and sync files at `HIGH + 1`, the
device's events at `HIGH`.  Hence `TasksRun` (no callback is queued, and no event
was readable at the last poll), `urgent` and `Polled`.  That
`cursor_result_feedback` does not wipe out a newer motion depends on exactly
this: with `TasksRunAnyTime`, `CursorNotLost` is violated.

The main thread is represented by `posted` (`onscreen->posted_frame`),
`mode_views`, `mode_set` and `fresh`, and by the actions `PostFrame`
(`maybe_post_next_frame`), `FinishFrame`, `AwaitFlush`, `RebuildViews`, `PowerOn`,
`PowerOff`.  Posting and handling a task is one step: tasks are handled in the
order in which they are posted and the main thread looks at nothing in between
that the KMS thread changes, other than its answers.

Assumptions about what is not under the repository's control:

- the kernel takes a non-blocking commit only from the DRM master, on a lit CRTC
  without a flip in flight, and may refuse any; a blocking commit waits for
  flips in flight and is refused to the master only if there are none
  (`MayBeRefused`);
- a session is switched back to only after flips and rendering in flight have
  ended (`Resume`).

Abstracted: callbacks queued for the KMS thread are a set, so they may run in any
order; the onscreen's own `needs_flush` memory is part of the device's; the
cursor is on every CRTC; the predicted state is reduced to which CRTCs are lit
and have a variable refresh rate.

### UpdateDelivery

Two variables: the onscreens that wait, and the answers under way to each.  A
frame is posted by an onscreen that does not wait, answered once and delivered;
rebuilding the views forgets all.  The refinement mapping is
`waiting <- {c : posted[c] # "none"}`, `answers <- dev.answers`.

`SyncCursorPrimary` is the set of values the debug flag
`META_DEBUG_PAINT_SYNC_CURSOR_PRIMARY` may have from the start.

### OnscreenNative

`o` is the `MetaOnscreenNative`: the posted, superseded and next frame, the number
of the presented one, Cogl's queue of frame infos with the frame counter, gamma
invalidation and its target frame, and the dummy flip timer.  Everything runs on
the main thread, so each callback is one step: drawing with or without damage
(`Redraw`, `NoRedraw`), a swap that fails (`RedrawFails`), the answers of KMS
(`KmsAnswers`), the 100 ms timer of power saving, changes of gamma and of the
power save mode.  `kms` is the one update KMS has to answer with its listeners,
`clock` the number of frames the frame clock waits for.  Power that comes back for a
change of mode invalidates the gamma, for a hotplug it does not.  `world` fixes at the start
which disturbances a behaviour may have, so that one run covers combinations and
each property says in which worlds it holds: `Tame` leaves out those where frames
without damage meet power saving, refused updates or failed swaps, in which the
code does lose count (section 6).  Warnings the code would print are collected in
`o.warnings`.

### CommitOrder and WaylandTransaction

`CommitOrder` has a count of commits, the surfaces each waiting transaction
touches and what each surface has shown.  A transaction is shown on all its
surfaces in one step, and only when none older waits for one of them.

`WaylandTransaction` keeps the linked lists of the code: `first_committed`,
`last_committed` and the `next` of each entry.  Applying is a loop over candidates
within one callback; each turn of the loop is a step and nothing else happens
while candidates remain (`AtRest`), so the refinement shows each intermediate
state.  A stage update likewise takes one step for each timed transaction and each
barrier it looks at.  A transaction is named by its `committed_sequence`, buffers
are a set of surfaces with a source, time is the number of ticks.

Of the frame clock of each view there are the times it knows (`future`, the code's
`deferred_times`) and whether an update is `scheduled`.  It forgets times only in
`maybe_reschedule_update`: at the commit that tells it of one
(`clutter_frame_clock_add_future_time`), and whenever a frame is presented or ready, the
clock is uninhibited or changes its mode (`Reschedule`), never in the update that
unblocks the transactions.  With a reschedule pending or timelines running no
time is forgotten; otherwise those up to the clock's current time are, which is the
presentation time of the last frame it computed one for, or the present (`current`), and
there is an update for them only if no time is left.  Two simplifications: a frame's
target presentation time is the present, and a clock may dispatch as soon as one of the
times it knows has come, where the code may have its source armed for a later one of
them (that is in `FrameClock`, and refuted there by `FutureTimesHonoured`).

### WaylandSurface

A state is the number of the commit it comes from and what
`meta_wayland_surface_state_merge_into` treats in its own way: buffer, acquire
point, placement operations, target time.  `pending` and `transaction` are
`pending_state` and `sub.transaction`, the cache of a synchronized sub-surface;
`committed` and `stack` the tree as the client built it, `applied`, `content` and
`buffer` what the compositor shows.  The requests are commit, set_sync, set_desync,
set_position, place_above, place_below, get_subsurface and destroy
(`permanently_unmap_subsurface`); a transaction goes into `queue`, from which
`meta_wayland_transaction_apply` takes one as `CommitOrder` allows.  `client` is
fixed at the start and says which of the extensions the client uses: acquire points
(`syncobj`), target times (`timing`), giving a surface a new parent (`reparents`).
`NothingLost` and `NeverGoesBack` are about clients that do not reparent.  `Signal`
is the fence of an acquire point that a queued transaction waits for.

### MetaThread

Contexts are "main", "impl" and other threads that have callbacks.  `task_queue` is
the thread's queue, with the `TERMINATE` marker of a tear-down; `callbacks`,
`needs_flush`, `pending` and `dispatching` are per callback source.  A dispatch
steals the list under the mutex, runs it with no lock held and looks again, each
a step.  `main` says where the main thread is in a flush, a synchronous task, a
join or the drain of a user thread.  In a user thread the impl context is a source
of the main loop, and the main thread dispatches tasks itself.  Callbacks may queue
callbacks or post tasks (`Reactions`).  Condition variables are the guards of
`FlushPass`, `SyncDone` and `Joined`.

### KmsScheduling

`th` is the thread's inhibition count, the recorded and the actual priority and
whether RealtimeKit refused a request.  Devices are added (with an inhibition until
their first mode set), fail, are removed and make slow calls into the kernel; a
render device that needs EGLStreams changes the thread type.  A task is one step,
which `MetaThread` justifies.

### StackTracker

`t` is the `MetaStackTracker`; `wire` the requests on their way to the X server,
`server` its stack and `events` what comes back.  `restack_managed` is translated
with its two walks and the loops that lower and raise; each request it makes puts a
prediction and, for an X window, a request on the wire.  `ServerProcesses` handles
one request, and an event is sent only when something moved.  Other clients create,
destroy and restack their windows (`ClientActs`).  `drop_x11_windows` and
`query_xserver_stack` are the restart of the X server.

### ClutterGesture

`s.ges` is the private data of each gesture: state, sequences with their buttons and
whether they ended, `in_relationship_with`, `cancel_on_recognizing`,
`can_not_cancel`, and whether it knows its stage's list.  `s.sprites` has the press
count of each sprite and the receivers of its events.  A press registers the sequence with the gestures below it
and sets up relationships; every event goes to the receivers one at a time
(`EmitToAction`), and between two of them any gesture may be cancelled, dropped from
the chain, disabled, detached or ask for another state.  What a particular gesture
recognizes is a choice; `clutter_gesture_set_state`, with everything it does to
other gestures, is one operator.  That leaves out user code that runs inside it: a handler
of `::may-recognize` (`clutter-gesture.c:443`, between the check at 436 and the assignment
at 625), of `::recognize` and `::cancel` or a `state_changed` (633 to 646), also of
the gestures cancelled by the loop at 462, that changes the state of a gesture.  The
properties and theorems say nothing about such handlers.  `s.failed` says that the assertion in
`set_state` was reached.

## 4. Runs

| run | instance | checks |
|---|---|---|
| frame_clock | 1 timeline, 2 ticks, inhibition depth 2, 1 future time, initially unmapped | type, flight accounting, the pool suffices, no busy loop, no lost wakeup, immediate requests stay immediate, inhibited clocks are quiet, a request leads to a frame |
| kms | 1 CRTC with variable refresh rate, with and without the cursor debug flag | a frame is in one place, flips are known and no commit is busy, held updates are driven, cursor not lost, implements UpdateDelivery, every posted frame is answered |
| kms_two_crtcs | 2 CRTCs, fixed refresh rate, symmetric | the safety of each CRTC |
| transactions | 2 surfaces on 1 view, 3 commits, 2 times, 1 unready buffer at a time, states with a buffer, a barrier and a time, each surface of a transaction with a state | lists are exact, none is left behind, barriers are listed, times are driven, implements CommitOrder |
| transactions_liveness | 2 surfaces on 2 views, 2 commits, 1 time, 1 unready buffer at a time, states with a buffer, a barrier and a time that draw, or none | every transaction is applied, also when its frame clock forgets the time |
| surface_commits | a toplevel, its sub-surface and a sub-surface of that, 4 kinds of client, 4 commits (2 with acquire points or target times), 3 changes of the tree | the tree agrees, nothing is lost, nothing is cached without somebody to release it, a surface never goes back |
| thread | 3 contexts, 3 tasks, 3 callbacks, 1 flush, 2 changes of type | flushes wait for what was queued, nothing crosses a change of type, nobody waits forever |
| scheduling | 3 devices, real-time preferred, 1 render device | slow calls at normal priority, the announced priority, while undisturbed |
| onscreen | 5 frames, 1 change of gamma, 4 worlds | infos match frames, posted and waiting frames are driven, gamma is not lost, the clock is not stuck |
| stack | 2 managed, 1 override-redirect and 1 Wayland window, 2 changes, 1 operation of each other kind, 1 restart | the stacks agree with the server's, a restack does what is wanted |
| gestures | 2 gestures, 2 touches and a pointer, 3 presses, 1 call from outside, one gesture is not to cancel the other | records agree, one recognizes, ends are heard of and lead to WAITING, can_not_cancel is respected |
| gesture_detached | the same | the assertion of `set_state` is never reached: refuted, see 6 |

All but the last hold.  A property that is a conjunction has the type invariant and
closely related parts in it (`QueuesExact`, `FlushInv`, `FlipsAgree`, ...); each part
is a definition with a comment of its own.

Bounds.  Frame clock: two ticks are enough for a frame to be scheduled now, in
the next cycle or later than that, with two frames in flight; nesting of two
inhibitions separates the outermost from the inner.  Deadlock is not checked there
because time ends at `MaxTime`, nor in the other modules whose environment may
stop at a bound.  The KMS device is finite without bounds: a CRTC holds at most
one frame of each kind; two CRTCs are what it takes for one to disturb the other.
Three commits are a transaction in the middle of two lists; two views
are what it takes for a barrier to wait for the other's update; two times are what it
takes for a clock to forget one and wait for the other.  The two times are in the safety
run, and were checked for liveness with one view or without unready buffers; all at once
is beyond five minutes of liveness checking.  Entries without a state, of surfaces that
only a placement operation mentions, are in the liveness run; with them the safety
run has 2.5 million states, where the same properties were found to hold.  Four commits over
three surfaces reach caches that are merged twice.  Two resets bring a
thread back to its first type with tasks of both; three callbacks are one that
queues another while a third is being flushed.  Five frames are the posted, the
superseded, the next one, one after a failure and one after that.  In the stack, two
managed windows have an order, and the Wayland one is what predictions have to carry
along.  Two gestures with three points cover a relationship that is set up,
extended by another point, and left over after one of the two went to WAITING; three
gestures were explored to 4.2 million states without an error, which is too
long for a run.

Fairness.  Frame clock: time passes, a due GSource is dispatched, listeners
return, the display completes what it owes; all weak.  KMS: the kernel completes
flips and the main thread takes its callbacks (weak); the sources at `HIGH + 1`
are strongly fair, because an event puts them off for one iteration only and a
ready one is dispatched before any further task.  Transactions: callbacks run to
their end, some buffer that is waited for becomes ready, time passes and scheduled updates
take place; strong, because other callbacks of the same main loop put each of them off.
Thread: every thread goes on with its main loop or with the call it is in (weak);
a thread that has work dispatches it.  Onscreen: KMS answers every update, which
`kms` shows, and timers fire (weak).  Nothing is assumed of what clients, users or
the kernel's verdicts do: posts, motions, power saving, switches, refusals and
changes of type happen or not.

## 5. Proofs

Each component's theorems are in a module of its own that extends the model, but for the
thread and its scheduling, which share one: `MetaThreadProofs` extends both models, whose
names are disjoint.  The theorems hold for every value of the constants that satisfies the named assumption of the
model: types of the bounds (`ClockAssumption`, `BoundsAssumption`,
`OnscreenAssumption`), a finite set of surfaces (`TransactionAssumption`) or devices
(`SchedulingAssumption`), that variable refresh rates are a matter of CRTCs
(`DeviceAssumption`), that the gestures have an order and are not their own exceptions
(`GestureAssumption`), that there are finitely many surfaces and none is its own ancestor
in the initial tree (`SurfaceAssumption`), that there are finitely many windows, each of
one kind (`StackAssumption`).  TLC evaluates these assumptions on the instances of section 4.

| module | theorems | inductive invariant |
|---|---|---|
| `FrameClockProofs` | `ClockTypeCorrect`, `ClockFlightCorrect`, `ClockPoolCorrect`, `ClockNoBusyLoop`, `ClockNoLostWakeup`, `ClockNowNotDowngraded`, `ClockInhibitedIsQuiet` | `FlightInv`, then `WakeInv` |
| `KmsImplDeviceProofs` | `KmsHeldOnce`, `KmsFlipsAgree`, `KmsCursorNotLost`, `KmsSafeTogether`, `KmsDeliversOnce` (refinement of `UpdateDelivery`), `KmsPendingIsDriven` (for one CRTC, or without real-time priority) | `KmsInv`, then `Driven` |
| `OnscreenNativeProofs` | `OnscreenInfosCorrect`, `OnscreenDrivenCorrect`, `OnscreenGammaCorrect` | `OnscreenInv` |
| `MetaThreadProofs` | `ThreadFlushCorrect`, `ThreadResetCorrect` (an action property); of `KmsScheduling`: `SchedulingCorrect` | `ThreadInv`; `SchedulingInv` |
| `ClutterGestureProofs` | `GesturesAgreeCorrect`, `SingleRecognizingCorrect`, `HearsOfTheEndCorrect`, `EndsInWaitingCorrect`, `RespectsCanNotCancelCorrect` (an action property) | `GestureInv`, then `Unopposed` |
| `WaylandTransactionProofs` | `TransactionQueuesCorrect`, `TransactionBarriersCorrect`, `TransactionTimesCorrect`, `TransactionNoneLeftBehind`, `TransactionOrderCorrect` (refinement of `CommitOrder`) | `TransactionInv` |
| `StackTrackerProofs` | `StacksAgreeCorrect` | `StackInv` |
| `WaylandSurfaceProofs` | `TreeAgreesCorrect`, `CachedOnlyIfSynchronizedCorrect`, `NothingLostCorrect`, `NeverGoesBackCorrect` (an action property) | `SurfaceInv`, then `OrderInv` |

The arguments, and why the properties need strengthening:

**Frame clock.**  `FlightInv == TypeOK /\ FlightAccounting /\ PoolAccounting /\
UnmappedFlight`.  `UnmappedFlight` is what makes it inductive:
`CLUTTER_FRAME_RESULT_IGNORED` sets the state to IDLE and clears one pointer only,
which would lose count with two frames in flight.  An unmapped stage has no frame in
flight but the one being dispatched, so the branch is never taken with two.  That
three Frames are enough for four pointers follows from `PoolAccounting`: at dispatch
`prev_dispatch` is released, and a clock that may begin a frame has at most one in
flight.  `WakeInv` relates `ready_time` to the state: an active clock with a schedule has an
armed source, an armed clock is not in a state whose dispatch returns at once, and
what was asked for is scheduled or remembered.  It allows what the code does: a
source left armed in IDLE by an ignored frame.  `set_mode` breaks it half-way, where
a schedule has been dropped and its source is still armed (`Reschedulable`), and
mends it with the reschedule at its end.  A schedule next to a frame in flight means
that the clock has been slow, which is what lets `maybe_reschedule_update` mend it.  The argument goes through the scheduling operators: what each of
them keeps and serves is a lemma, and actions that only schedule are settled by it.

**KMS device.**  `KmsInv` says of every CRTC (`Sound`): its frame is counted once over
the places of `HeldOnce`; a timer that is set belongs to a source and to a CRTC
without a pending flip; while the session is DRM master, a flip the kernel owes is
known as `pending_page_flip`, has its listener and neither event nor callback yet; an
event or a callback that the thread does *not* wait for, because a mode set reset the
CrtcFrame before it was read, finds an idle CRTC, and if it is an event it is read
before the next task (`urgent`).  The last two are what `FlipsAgree` needs: without
them a late callback would clear the `pending_page_flip` of a newer commit.  Every
operation is first shown to touch one CRTC only (`Apart`), so the proof is about one
CRTC at a time and the number of CRTCs does not matter; mode sets and power saving,
which touch all, are compared field by field with what they reset (`Discarded`,
`ModeSetPasses`, `ModeSetFails`).  With the count, an answer can only be made to a
CRTC that has posted and has none under way; every step is therefore a step of
`UpdateDelivery` (`StepKeeps` sorts the steps into quiet ones, posts, deliveries and
the loss of the views).

`KmsPendingIsDriven` has a hypothesis of its own, `HighPriority => \A a, b \in Crtcs :
a = b`, because with two CRTCs and the deadline timer in use the property is false
(section 6): a failure of one takes the timers of all away.  Without real-time or high
priority there are no timers, and the theorem is about the flips, for any number of
CRTCs.  The invariant `Driven` says of a CRTC that updates and flips come one after the
other: it has at most one update, which is a frame's; `armed` and the timer agree; and
a flip under way while no timer is used is that of a frame its onscreen still waits for,
or an orphan's (`Away`), whose new view is not painted before the mode set.  So no
frame can arrive to be held back by a flip that nothing waits for.

**Onscreen.**  `OnscreenInv`: KMS has an update exactly while a frame is posted; a
posted frame is the one its update is about; with nothing but frames and changes of
gamma no frame is superseded and no dummy timer runs; the infos are those of the
frames in flight, in order; with changes of gamma alone, the kernel gets them in order, and
the target of an unconfirmed one is the frame counter of the frame that carries it.
The frame clock's limit of two frames is needed: when a frame is drawn, none waits
behind a posted one.

**Thread.**  `ThreadInv`: tasks carry consecutive numbers over queue and history, with
the marker of a tear-down behind all of the old thread; every callback is in one of
the lists (queued, in the hands of a dispatch, run); a context the flush has passed
is `Clean` of the callbacks that were queued before it.

**Scheduling.**  `SchedulingInv`: as long as the thread type has not changed, the count
is the number of inhibitions held (a cardinality over devices) and the actual
priority is the one last recorded or was refused.

**Transactions.**  `TransactionInv == QueueInv /\ BarrierInv /\ TimedKnown /\
NoneMissed`: the linked lists of the surfaces are exactly the committed transactions
in order; barriers are listed once also while an update walks a copy of the list;
target times are known to a frame clock or are overdue and made up for; a transaction
that is ready is among the candidates of the loop under way.  `TimedKnown` needs the
order of the timed queue: an update ends its search at the first time still to come, so
no overdue transaction is left when it is over (`NoneDue`), and only then may a scheduled
update be gone.  What a frame clock does with its times is stated once
(`RescheduleProperties`): a time it forgets is past, and it has an update or another time.

**Gestures.**  `GestureInv` says of the stage and the event being emitted (`Held`): the
stage's list and the relationships agree (`Sound`), at most one gesture recognizes
(`Single`), a gesture that is over has a point that goes on (`Rested`), the points of a
gesture that go on are of different sprites (`Distinct`), no receiver is in a chain
twice, and every point that goes on is `Linked` to its sprite.  `Linked` is what the
properties lack: a point the gesture has not seen is met by its first event, so an end
is never swallowed by a gesture that ignores unseen points; the buttons it counts are
the presses of the sprite, less one for an event that it still has to hear of, or that
it has heard of and the sprite has not counted yet; and no point survives the end or
the cancellation it has heard of.  A recognition cancels gestures, whose points end,
which moves them to WAITING and takes them out of relationships: the lemmas say of each
of these operators what it leaves alone (`Calms`, `Spares` and their like) rather than
what it computes, because those relations compose over the loops.
`RespectsCanNotCancel` needs one invariant more, `Unopposed`: as long as nobody has
meddled, a gesture's list of those to cancel has none it can not cancel.

**Surfaces.**  `SurfaceInv == TreeInv /\ TypeInv /\ CachedInv`.  The ancestors of a
surface are the least set that has it and is closed under parents (`Ancestors`), so
nothing has to be known of the depth of a tree: two ancestors of one surface are
comparable, and no surface is its own ancestor because `get_subsurface` refuses a parent
below the surface.  `TreeInv` adds to `TreeAgrees` that the tree has no cycles;
`CachedInv` is `CachedOnlyIfSynchronized`, and means that nothing is cached on the
ancestors of a surface that is not synchronized.

`NothingLost` and `NeverGoesBack` both follow from `OrderInv`, which lists all states of a
surface by age (`Ordered`): the content on screen, the queued transactions in order, the
caches of its ancestors from the root down to its own, and the last commit is one of
them.  A commit merges the caches of the children of a surface; only one child can hold a
state of a given surface (`OneChild`), and it is newer than what the parent has cached of
it, so the merged state is the newer one and nothing above is newer still
(`OrderedCache`).  A commit that is queued goes behind all queued states, which keeps
their order only because nothing is cached above (`OrderedQueue`).  `set_desync` queues
caches a parent's first, and what stays cached is not above any of them
(`NothingAboveVisited`, `OrderedReleased`).  A transaction is applied when no earlier one
has the surface, so the content becomes the oldest state that was left
(`OrderedApplied`).  A client that takes a sub-surface from its parent moves a cache to
another branch, and the order is lost (section 6).

**Stack tracker.**  A stack is a list without repetitions, which is determined by its
windows and by which of two is before the other (`Before`, `SameStack`); what
`move_window_above` and `meta_stack_op_apply` do is stated of these (`MovedKeepsX`,
`Outcome`), and the X windows of a stack (`XPart`) are left alone by what keeps their order
(`SameXPart`).  The argument then has three parts.  Predictions and restacks: a prediction
enters `verified_stack` at once only if it has serial 0 and none is pending, and then its X
windows do not move: it is about a Wayland window, or about an X window whose nearest X
sibling is itself, so that it stays next to the same X windows (`NotAskedKeepsX`).  All
that `on_stack_changed` and `keep_override_redirect_on_top` do is a sequence of such
requests, whose loops keep `Sounds`: the X part of `verified_stack`, the serial and that
`predicted_stack` is derived.  Events: applied with `IGNORE_NOOP_X_RESTACK` after older
predictions with `NO_RESTACK_X_WINDOWS` and before those of the same serial, an event does
to `XPart(verified_stack)` what it does to the server's stack (`ApplyEvent`,
`ApplyAllKeepsX`), so one event less under way makes up for it (`ApplyAllHead`).  The
server: what moves a window there sends an event with the same effect (`NotifyIs`).
`StackInv` adds to `StacksAgree` the types; that predictions with a serial are of X windows
and below the next serial, so that those left over by `drop_x11_windows` are not taken for
requests to the next server; that there is nothing of X while the server is down; and
`OldOnlyFirst`: the event that is older than `query_xserver_stack` and therefore ignored is
the first, and adds a window the query has returned.

The loops are folds over sets and sequences, which are recursive functions.  The
library's induction theorems take a predicate and cannot be used; induction is replaced by the least number argument: the set of sizes (or
indices) at which a fact fails would have a least element (`NatLeast`, `NatAll`, from
the well-foundedness of the order on numbers, stated for sets).  So it is shown that the
function a fold chooses exists (`FoldExists`, `FoldLeftExists`), and then what each fold
of the model keeps, index by index.

Only model-checked:

- liveness (`RequestsAreServed`, `DeliversEventually`, `ClockNotStuck`,
  `NobodyWaitsForever`, `AllApplied`), which is outside the prover's reach;
- the action property `Restacked` of `StackTracker`: where `restack_managed` and
  `restack_at_bottom` put the windows depends on how far two walks have come in a stack
  that their own requests change, and would take an invariant of each of four loops over
  all positions of two stacks.  The theorem about the tracker covers those loops only as
  far as what they may not disturb.

## 6. Disagreements between the code and what it says

The run `gesture_detached` is one that the code itself asserts against: a double
click gesture that waits for its second press when it is removed from its actor.
`cancel_all_points` finds no point that goes on and leaves it POSSIBLE,
`clutter_gesture_set_actor` forgets the stage's list, and the timeout of the
gesture reaches `g_assert (removed)` (`clutter-gesture.c:606`).

The following are not among the runs; each has a configuration in this directory
that TLC refutes, or says how to get one.

Frame clock:

- `FrameClockPrompt.cfg`, `ScheduleIsPrompt`: damage that arrives while the clock is
  scheduled for a future time is painted only then (`clutter-frame-clock.c:1232`);
  `clutter-stage.c:2436` says "Schedules a redraw of the #ClutterStage at the next
  optimal timestamp."
- `FrameClockFuture.cfg`, `FutureTimesHonoured`: an earlier future time added behind
  a later one is missed (1423); `meta-wayland-transaction.c:501` says "we always
  defer application until just before the appropriate frame clock tick."
- `FrameClockUnmapped.cfg`, `DispatchedOnlyWhenScheduled`: an ignored frame leaves the
  source armed in IDLE if the listener scheduled meanwhile (1632); the next
  dispatch reaches `g_warn_if_fail (frame_clock->mode == ...PASSIVE)` (1507).

Transactions:

- `TransactionPrompt.cfg`, `TimedIsPrompt`: a frame clock that is told of a time that is
  past, or reschedules before the update for it, forgets the time, and if it knows a later one
  ticks only then (`clutter-frame-clock.c:403`): the transaction waits for that tick or
  for other damage to any view.  The comment at `meta-wayland-transaction.c:501` quoted
  above says otherwise; `TimedIsDriven` is what does hold.
- `TransactionStranded.cfg`, `AllApplied`: a state that sets a fifo barrier without damage
  or frame callbacks schedules no update (`meta-wayland-actor-surface.c:322` asks for one
  only for frame callbacks and fifo_wait), so the barrier is not cleared and the next
  state with fifo_wait, which is not applied, cannot ask for one either, until something
  else damages the view.

KMS device and renderer, with two CRTCs:

- `KmsStranded.cfg`, `PendingIsDriven`: the deadline timer state is the device's, the
  timers are the CRTCs'.  The failure of one CRTC to determine its deadline makes
  the next `ensure_crtc_frame` of the other destroy the timer its update waits
  for (`meta-kms-impl-device.c:1829`, against the warning at 2114).
- `KmsBlocked.cfg`, `ModeSetNotBlocked`: power saving goes off and on after one view
  has queued its frame for the mode set; the mode set then waits for another frame
  of that view, which waits for the mode set (`meta-renderer-native.c:1187`).

Onscreen:

- `OnscreenFrozen.cfg`, `PostedIsDriven` with power saving and frames without damage:
  such a frame gets its frame info when it is posted, so superseding it completes
  the info of the newer one, whose flip then finds none and leaves `posted_frame` set;
  `meta-onscreen-native.c:360` says "to avoid freezing the frame clock, emit a
  symbolic flip."
- the same module with `Worlds = {{"undamaged", "refused"}}` and `FeedbackHasInfo`: a frame without
  damage that waited behind another has two result listeners, and the second finds
  no info (2067); with `ReleasedWithoutUpdate`: a superseded frame is dropped with
  the update it holds (458, against `meta-frame-native.c:51`);
- with `{"undamaged", "gamma", "power"}` and `GammaKept`: a discarded gamma update is not
  repeated when another frame had its frame counter (384);
- with `{"undamaged", w}` for w one of "power", "refused", "swap", `InfosCounted` and
  `PostedIsDriven`: infos that are taken late are missed, or completed for another
  frame (hence `Tame`);
- with `{"gamma"}` and `FirstCounter = 0`, `GammaKept`: a discarded gamma update of the
  very first frame is not repeated, because a target of 0 means none (380, 2021);
- with `{"swap"}` and `NoSpuriousNotify`: a failed swap tells the clock twice
  that the frame is over (1594, against `clutter-frame-clock.c:718`).

Surfaces:

- `SurfaceReparent.cfg`, `AlwaysGoesForward`: states of a sub-surface that its old parent
  has cached outlive its destruction and reparenting, and are shown last
  (`meta-wayland-surface.c:665`: "any previous content update did not go on screen and
  needs to be discarded").  `NothingLost` fails for such clients as well: after two
  surfaces swapped roles, the old state is merged over a newer one.
- `SurfaceFence.cfg`, `ShownBuffersAreReady`: merging a state without a buffer
  overwrites the acquire point of the buffer that is kept (681).
- `SurfaceTime.cfg`, `NoSpuriousError`: `has_target_time` stays in the pending state of a
  synchronized sub-surface, and the client's next target time is answered with
  "Commit already has timestamp" (`meta-wayland-commit-timing.c:83`).
- `SurfaceUnmapped.cfg`, `UnmappedStaysUnmapped`: a placement that is pending or cached
  attaches a sub-surface again after `permanently_unmap_subsurface`
  (`meta-wayland-subsurface.c:427`).

KMS thread:

- `SchedulingModeSet.cfg`, `NoRealtimeModeSet`: an inhibition taken by a kernel thread
  and released by a user thread is lost count of, and a later mode set runs with
  real-time priority (`meta-thread.c:1419`; `NEWS:715` says "Inhibit real-time
  scheduling when mode setting").
- `SchedulingLost.cfg`, `PriorityIsReal`: in the other order the thread never gets the
  scheduling it announces (459, 548).

Stack tracker:

- `StackServer.cfg`, `ServerAgrees`: a request that another client turned into a no-op
  has no event, and its prediction stays until some other event (1281; the comment
  at 996 says the returned list "is exactly that you'd get as the children").
- `StackShown.cfg`, `Restacked` with `AllAtOnce`: two windows shown at once from below the
  guard window end up in reverse order (1408).
- without the condition on restarts `PredictedIsDerived` is violated:
  `drop_x11_windows` leaves `predicted_stack` with windows of the display that is
  closed (542; 74 says "derived from applying the queued requests to the last state
  from the server").

Gestures: a gesture that went to WAITING stays in the `cancel_on_recognizing` of the
others, so a relationship it enters later, after a call of `can_not_cancel`, may
still cancel it.  `RespectsCanNotCancel` is about calls made before the points.

## 7. Not modelled

The components marked `not_modelled` in `PROJECT.json`, with the reasons given
there.  Of the modelled ones: `prepare_shutdown`, opening and releasing the
device file, TEST_ONLY updates, the legacy KMS backend, cursor buffers and
hotspots, colour and privacy-screen properties beyond "an update carries
something", frame statistics and tracing, the microsecond arithmetic of the
presentation time predictions, secondary GPU copies, direct scanout tests, the
destruction of a surface with queued transactions, synchronous tasks from a third
thread (no caller makes any), key and crossing events, signal handlers that change the
state of a gesture from within the change of another, and
`clutter_gesture_reset_state_machine`, which only tests call.

The share of the implementation that is modelled is small and will stay so.  Of its
474 000 lines most are scene graph and text actors, GL state, one handler per
protocol request, device I/O, tables and window policy: code whose difficulty is in
its data and not in an order of events.  The modules are about the files where
asynchronous steps meet.
