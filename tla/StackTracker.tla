----------------------------- MODULE StackTracker -----------------------------
(***************************************************************************)
(* The stack tracker (src/core/stack-tracker.c): one stack of X11 and      *)
(* Wayland windows, kept from three pieces. verified_stack is what the     *)
(* events of the X server told, unverified_predictions are the requests    *)
(* made since, and predicted_stack applies them to it. The X server, the   *)
(* requests on their way to it, the events on their way back and the other *)
(* X clients, who may restack override-redirect windows, are modelled as   *)
(* far as the tracker depends on them. Stacks run from bottom to top.      *)
(***************************************************************************)
EXTENDS Integers, Sequences, SequencesExt, FiniteSets

CONSTANTS
    XManaged,       \* managed X11 windows
    XOverride,      \* override-redirect X11 windows
    Guard,          \* the guard window, above all hidden windows
    Wayland,        \* Wayland windows
    None,           \* no window
    AllAtOnce,      \* several hidden windows may be shown together
    Destroys,       \* other X clients may destroy their windows
    MaxChanges,     \* bound on changes of the wanted order
    MaxWaylandOps,  \* bound on Wayland windows coming and going
    MaxClientOps,   \* bound on what other X clients do
    MaxRestarts     \* bound on restarts of the X server

XWindows == XManaged \cup XOverride \cup {Guard}

NoStack == <<None>>

ASSUME StackAssumption ==
    /\ None \notin XWindows \cup Wayland
    /\ XWindows \cap Wayland = {} /\ XManaged \cap XOverride = {}
    /\ Guard \notin XManaged \cup XOverride
    /\ {AllAtOnce, Destroys} \subseteq BOOLEAN
    /\ {MaxChanges, MaxWaylandOps, MaxClientOps, MaxRestarts} \subseteq Nat
    /\ IsFiniteSet(XWindows) /\ IsFiniteSet(Wayland)

VARIABLES
    t,         \* the MetaStackTracker: verified_stack, unverified_predictions,
               \* predicted_stack (or NoStack), sync_stack_later, xserver_serial
    wire,      \* requests not processed yet, and the serial of the next one
    server,    \* the X server: its stack, the serial it processed last, the
               \* windows managed there, and whether there is a server
    events,    \* events not received yet
    shown,     \* managed windows that are not hidden, as they shall be stacked
    left       \* what is left of the bounds

vars == <<t, wire, server, events, shown, left>>

(* meta_display_lookup_stack_id, and whether the window is managed         *)
Managed == Wayland \cup server.managed

meta_stack_tracker_is_guard_window(w) == server.up /\ w = Guard

(* The elements of a list that are in X, in their order.                   *)
Only(list, X) == FoldLeft(LAMBDA l, e : IF e \in X THEN Append(l, e) ELSE l, <<>>, list)

XPart(stack) == Only(stack, XWindows)
Pos(stack, w) == SelectInSeq(stack, LAMBDA v : v = w)

-----------------------------------------------------------------------------
(* move_window_above, with the window at old to go right above the one at  *)
(* above (0: below all). Without restacking X windows, an X window stops   *)
(* short of the first X window in its way.                                 *)
MoveTo(stack, old, new) == InsertAt(RemoveAt(stack, old), new, stack[old])

move_window_above_freely(stack, old, above, flag) == \* mutant: X windows move
    LET new == IF old <= above THEN above ELSE above + 1
        between == IF old <= above THEN old + 1..above ELSE above + 1..old - 1
        isX(i) == stack[i] \in XWindows
    IN IF flag = "IGNORE_NOOP_X_RESTACK" /\ ~\E i \in between : isX(i) THEN stack
       ELSE MoveTo(stack, old, new)
move_window_above(stack, old, above, flag) ==
    LET up == old <= above
        between == IF up THEN old + 1..above ELSE above + 1..old - 1
        isX(i) == stack[i] \in XWindows
        fixed == flag = "NO_RESTACK_X_WINDOWS" /\ stack[old] \in XWindows
        reach == {i \in between : \A j \in between :
                     (IF up THEN j <= i ELSE j >= i) => ~(fixed /\ isX(j))}
        new == IF reach = {} THEN old
               ELSE IF up THEN CHOOSE i \in reach : \A j \in reach : j <= i
               ELSE CHOOSE i \in reach : \A j \in reach : j >= i
    IN IF between = {} THEN stack
       ELSE IF flag = "IGNORE_NOOP_X_RESTACK" /\ ~\E i \in between : isX(i) THEN stack
       ELSE MoveTo(stack, old, new)

(* meta_stack_op_apply; only restacking makes a difference between the     *)
(* order being changed and not.                                            *)
meta_stack_op_apply(stack, op, flag) ==
    LET old == Pos(stack, op.window)
        sibling == Pos(stack, op.sibling)
        ignored == op.window \in XWindows /\ flag = "NO_RESTACK_X_WINDOWS"
        above == IF op.type = "RAISE_ABOVE" THEN sibling
                 ELSE IF op.sibling = None THEN Len(stack) ELSE sibling - 1
    IN CASE op.type = "ADD" -> IF ignored \/ old # 0 THEN stack ELSE Append(stack, op.window)
         [] op.type = "REMOVE" -> IF ignored \/ old = 0 THEN stack ELSE RemoveAt(stack, old)
         [] op.type \in {"RAISE_ABOVE", "LOWER_BELOW"} ->
              IF old = 0 \/ (op.sibling # None /\ sibling = 0) THEN stack
              ELSE move_window_above(stack, old, above, flag)

ApplyAll(stack, ops, flag) ==
    FoldLeft(LAMBDA s, op : meta_stack_op_apply(s, op, flag), stack, ops)

(* meta_stack_tracker_get_stack, which remembers what it computes          *)
Remembered(s) ==
    IF s.predictions = <<>> \/ s.predicted # NoStack THEN s
    ELSE [s EXCEPT !.predicted = ApplyAll(s.verified, s.predictions, "DEFAULT")]

StackOf(s) == IF s.predictions = <<>> THEN s.verified ELSE s.predicted
get_stack(s) == StackOf(Remembered(s))

(* stack_tracker_apply_prediction *)
Predicted(s, op, verifies, verified, predicted) ==
    [s EXCEPT !.verified = verified, !.predicted = predicted,
              !.predictions = IF verifies THEN @ ELSE Append(@, op),
              !.sync = @ \/ predicted = NoStack
                         \/ <<verified, predicted>> # <<s.verified, s.predicted>>]

stack_tracker_apply_prediction(s, op) ==
    LET verifies == op.serial = 0 /\ s.predictions = <<>>
        Applied(stack) == meta_stack_op_apply(stack, op, "DEFAULT")
    IN Predicted(s, op, verifies,
                 IF verifies THEN Applied(s.verified) ELSE s.verified,
                 IF s.predicted = NoStack THEN NoStack ELSE Applied(s.predicted))

(* stack_tracker_event_received: an event older than the initial query is  *)
(* part of what the query returned. Predictions older than the event were  *)
(* ignored by the server; the one of the same serial is the cause of the   *)
(* event, and its effect on Wayland windows is applied after it.           *)
OlderThan(ops, serial) == \* how many predictions come first that are older
    LET n == SelectInSeq(ops, LAMBDA op : op.serial >= serial)
    IN IF n = 0 THEN Len(ops) ELSE n - 1

stack_tracker_event_received(s, ev) ==
    LET a == OlderThan(s.predictions, ev.serial)
        b == OlderThan(s.predictions, ev.serial + 1)
        older == ApplyAll(s.verified, SubSeq(s.predictions, 1, a), "NO_RESTACK_X_WINDOWS")
        event == meta_stack_op_apply(older, ev, "IGNORE_NOOP_X_RESTACK")
        same == ApplyAll(event, SubSeq(s.predictions, a + 1, b), "NO_RESTACK_X_WINDOWS")
    IN IF ev.serial < s.serial \/ (b = 0 /\ event = older) THEN s
       ELSE [s EXCEPT !.verified = same, !.predicted = NoStack, !.sync = TRUE,
                      !.predictions = SubSeq(@, b + 1, Len(@))]

-----------------------------------------------------------------------------
(* The tracker with the wire: what the requests below are made on.         *)
Both == [t |-> t, wire |-> wire]
Becomes(s) == t' = s.t /\ wire' = s.wire

NearestX(stack, sibling, down) ==
    LET p == Pos(stack, sibling)
        I == {i \in DOMAIN stack : stack[i] \in XWindows
                                   /\ IF down THEN i <= p ELSE i >= p}
    IN IF sibling \in XWindows THEN sibling
       ELSE IF p = 0 \/ I = {} THEN None
       ELSE stack[IF down THEN CHOOSE i \in I : \A j \in I : j <= i
                          ELSE CHOOSE i \in I : \A j \in I : j >= i]

(* A request to the server, unless it would be to stack the window against *)
(* itself, and the prediction that goes with it.                           *)
Request(s, window, sibling, xsibling, mode, type) ==
    LET asks == window \in XWindows /\ xsibling # window
        op == [type |-> type, serial |-> IF asks THEN s.wire.next ELSE 0,
               window |-> window, sibling |-> sibling]
    IN [t |-> stack_tracker_apply_prediction(s.t, op),
        wire |-> IF ~asks THEN s.wire
                 ELSE [next |-> s.wire.next + 1,
                       requests |-> Append(s.wire.requests,
                          [serial |-> s.wire.next, window |-> window,
                           sibling |-> xsibling, mode |-> mode])]]

(* The requests for a tracker whose stack has been looked at.              *)
LowerBelow(s, window, sibling) ==
    LET x == IF sibling = None THEN None ELSE NearestX(StackOf(s.t), sibling, FALSE)
    IN Request(s, window, sibling, x, IF x = None THEN "Above" ELSE "Below", "LOWER_BELOW")

RaiseAbove(s, window, sibling) ==
    LET x == IF sibling = None THEN None ELSE NearestX(StackOf(s.t), sibling, TRUE)
    IN Request(s, window, sibling, x, IF x = None THEN "Below" ELSE "Above", "RAISE_ABOVE")

Looked(s) == [s EXCEPT !.t = Remembered(@)]

meta_stack_tracker_lower_below(s, window, sibling) ==
    LowerBelow(IF window \in XWindows THEN Looked(s) ELSE s, window, sibling)
meta_stack_tracker_raise_above(s, window, sibling) ==
    RaiseAbove(IF window \in XWindows THEN Looked(s) ELSE s, window, sibling)

(* A loop over the positions n, n - 1, ... 1 or 1, 2, ... n of a stack     *)
Downwards(Body(_, _), n, s) ==
    FoldLeft(LAMBDA u, k : Body(n + 1 - k, u), s, [k \in 1..n |-> k])
Upwards(Body(_, _), n, s) == FoldLeft(Body, s, [k \in 1..n |-> k])

(* The topmost window that is managed, or the guard window                 *)
TopManaged(stack) == SelectLastInSeq(stack, LAMBDA w : w \in Managed)
TopOrGuard(stack) == SelectLastInSeq(stack, LAMBDA w :
                        w \in Managed \/ meta_stack_tracker_is_guard_window(w))

(* The walk down both stacks, and the loop after it                        *)
Match(managed, old, a) ==
    LET w == StackOf(a.s.t)[old]
    IN IF a.stop \/ a.new = 0 THEN a
       ELSE IF meta_stack_tracker_is_guard_window(w) THEN [a EXCEPT !.stop = TRUE]
       ELSE IF w = managed[a.new] THEN [a EXCEPT !.new = a.new - 1]
       ELSE IF w \notin Managed THEN a
       ELSE [a EXCEPT !.new = a.new - 1,
                      !.s = Looked(meta_stack_tracker_lower_below(a.s,
                                       managed[a.new], managed[a.new + 1]))]

MatchDown(managed, n, a) == Downwards(LAMBDA old, b : Match(managed, old, b), n, a)

Lower(managed, new, u) ==
    IF new = 1 THEN u
    ELSE meta_stack_tracker_lower_below(u, managed[new], managed[new - 1])

LowerDown(managed, n, s) == Downwards(LAMBDA new, u : Lower(managed, new, u), n, s)

(* meta_stack_tracker_restack_managed: the top window is raised above all  *)
(* managed windows; going down both stacks, what does not match is lowered *)
(* to its place, until the guard window; the rest is lowered in a loop.    *)
meta_stack_tracker_restack_managed(s0, managed) ==
    LET s == Looked(s0)
        stack == StackOf(s.t)
        n == Len(managed)
        top == TopOrGuard(stack)
        raised == IF managed[n] = stack[top] THEN s
                  ELSE Looked(meta_stack_tracker_raise_above(s, managed[n], stack[top]))
        matched == MatchDown(managed, top - 1, [s |-> raised, new |-> n - 1, stop |-> FALSE])
    IN IF n = 0 THEN s0 ELSE LowerDown(managed, matched.new, matched.s)

RaiseInOrder(order, u, pos) ==
    LET stack == StackOf(u.t)
    IN IF pos <= Len(stack) /\ stack[pos] = order[pos] THEN u
       ELSE Looked(meta_stack_tracker_raise_above(u, order[pos],
                       IF pos = 1 THEN None ELSE order[pos - 1]))

RaiseUp(order, n, s) == Upwards(LAMBDA u, pos : RaiseInOrder(order, u, pos), n, s)

meta_stack_tracker_restack_at_bottom(s, order) ==
    RaiseUp(order, Len(order), Looked(s))

(* on_stack_changed, for the order of all managed windows and those hidden *)
on_stack_changed_forgetful(s, order, hidden) == \* mutant: hidden windows stay where they are
    meta_stack_tracker_restack_managed(s, Only(order, ToSet(order) \ hidden))
on_stack_changed(s, order, hidden) ==
    meta_stack_tracker_restack_at_bottom(
        meta_stack_tracker_restack_managed(s, Only(order, ToSet(order) \ hidden)),
        Only(order, hidden) \o IF server.up THEN <<Guard>> ELSE <<>>)

(* meta_stack_tracker_keep_override_redirect_on_top; the events that add   *)
(* and remove an override-redirect window also make it known or forgotten. *)
RaiseOverride(i, a) ==
    LET stack == StackOf(a.s.t)
    IN IF a.stop \/ meta_stack_tracker_is_guard_window(stack[i])
       THEN [a EXCEPT !.stop = TRUE]
       ELSE IF stack[i] \notin XOverride \cap ToSet(t.verified) THEN a
       ELSE [a EXCEPT !.topmost = a.topmost - 1,
                      !.s = Looked(meta_stack_tracker_raise_above(a.s, stack[i],
                                       stack[a.topmost]))]

RaiseOverrides(n, a) == Downwards(RaiseOverride, n, a)

keep_override_redirect_on_top(s0) ==
    LET s == Looked(s0)
        top == TopManaged(StackOf(s.t))
    IN RaiseOverrides(top - 1, [s |-> s, topmost |-> top, stop |-> FALSE]).s

-----------------------------------------------------------------------------
Init ==
    \E stack \in UNION {SetToSeqs(XManaged \cup {Guard} \cup W) : W \in SUBSET Wayland} :
        /\ stack[1] = Guard
        /\ t = [verified |-> stack, predictions |-> <<>>, predicted |-> NoStack,
                sync |-> FALSE, serial |-> 1]
        /\ server = [stack |-> XPart(stack), processed |-> 1,
                     managed |-> XManaged, up |-> TRUE]
        /\ shown = Tail(stack)
        /\ wire = [next |-> 2, requests |-> <<>>]
        /\ events = <<>>
        /\ left = [changes |-> MaxChanges, wayland |-> MaxWaylandOps,
                   client |-> MaxClientOps, restarts |-> MaxRestarts]

(* The managed windows that there are.                                     *)
Present == Managed \cap ToSet(get_stack(t))

(* The wanted order changes, or which windows are hidden.                  *)
StackChanged ==
    /\ left.changes > 0
    /\ \E order \in SetToSeqs(Present), hidden \in SUBSET Present :
          LET unhidden == (Present \ hidden) \ ToSet(shown)
          IN /\ AllAtOnce \/ Cardinality(unhidden) <= 1
             /\ Becomes(on_stack_changed(Both, order, hidden))
             /\ shown' = Only(order, ToSet(order) \ hidden)
    /\ left' = [left EXCEPT !.changes = @ - 1]
    /\ UNCHANGED <<server, events>>

(* The META_LATER_SYNC_STACK callback.                                     *)
meta_stack_tracker_sync_stack ==
    /\ t.sync
    /\ Becomes(keep_override_redirect_on_top([Both EXCEPT !.t.sync = FALSE]))
    /\ UNCHANGED <<server, events, shown, left>>

(* A Wayland window is created or unmanaged: meta_stack_tracker_record_add *)
(* and meta_stack_tracker_record_remove, with serial 0. A new window is    *)
(* hidden until the wanted order says otherwise.                           *)
WaylandOp(type, w) ==
    /\ left.wayland > 0
    /\ t' = stack_tracker_apply_prediction(t,
              [type |-> type, serial |-> 0, window |-> w, sibling |-> None])
    /\ shown' = Only(shown, ToSet(shown) \ {w})
    /\ left' = [left EXCEPT !.wayland = @ - 1]
    /\ UNCHANGED <<wire, server, events>>

meta_stack_tracker_record_add == \E w \in Wayland \ Present : WaylandOp("ADD", w)
meta_stack_tracker_record_remove == \E w \in Wayland \cap Present : WaylandOp("REMOVE", w)

(* The X server: a request that changes nothing, or names a window that is *)
(* gone, has no event.                                                     *)
Restack(stack, w, sibling, mode) ==
    LET without == RemoveFirst(stack, w)
        p == Pos(without, sibling)
    IN IF ~Contains(stack, w) \/ (sibling # None /\ p = 0) THEN stack
       ELSE InsertAt(without,
              IF mode = "Above" THEN (IF sibling = None THEN Len(without) ELSE p) + 1
                                ELSE IF sibling = None THEN 1 ELSE p, w)

ConfigureNotify(stack, w, serial) ==
    LET p == Pos(stack, w)
    IN [type |-> "RAISE_ABOVE", serial |-> serial, window |-> w,
        sibling |-> IF p = 1 THEN None ELSE stack[p - 1]]

ServerProcesses ==
    /\ wire.requests # <<>>
    /\ LET r == Head(wire.requests)
           stack == Restack(server.stack, r.window, r.sibling, r.mode)
       IN /\ server' = [server EXCEPT !.stack = stack, !.processed = r.serial]
          /\ events' = IF stack = server.stack THEN events
                       ELSE Append(events, ConfigureNotify(stack, r.window, r.serial))
    /\ wire' = [wire EXCEPT !.requests = Tail(@)]
    /\ UNCHANGED <<t, shown, left>>

(* Another client creates, destroys or restacks its window.                *)
ClientActs ==
    /\ server.up
    /\ left.client > 0
    /\ left' = [left EXCEPT !.client = @ - 1]
    /\ \E w \in XOverride :
         \/ /\ ~Contains(server.stack, w)
            /\ server' = [server EXCEPT !.stack = Append(@, w)]
            /\ events' = Append(events, [type |-> "ADD", serial |-> server.processed,
                                         window |-> w, sibling |-> None])
         \/ /\ Destroys
            /\ Contains(server.stack, w)
            /\ server' = [server EXCEPT !.stack = RemoveFirst(@, w)]
            /\ events' = Append(events, [type |-> "REMOVE", serial |-> server.processed,
                                         window |-> w, sibling |-> None])
         \/ \E sibling \in ToSet(server.stack) \ {w} :
              LET stack == Restack(server.stack, w, sibling, "Above")
              IN /\ stack # server.stack
                 /\ server' = [server EXCEPT !.stack = stack]
                 /\ events' = Append(events, ConfigureNotify(stack, w, server.processed))
    /\ UNCHANGED <<t, wire, shown>>

EventReceived ==
    /\ events # <<>>
    /\ t' = stack_tracker_event_received(t, Head(events))
    /\ events' = Tail(events)
    /\ UNCHANGED <<wire, server, shown, left>>

(* x11-display-closing: drop_x11_windows                                   *)
drop_x11_windows ==
    /\ server.up
    /\ left.restarts > 0
    /\ t' = [t EXCEPT !.verified = Only(t.verified, Wayland),
                      !.predictions = Only(t.predictions, {op \in ToSet(t.predictions) :
                                                             op.window \notin XWindows}),
                      !.serial = 0]
    /\ server' = [server EXCEPT !.stack = <<>>, !.managed = {}, !.up = FALSE]
    /\ wire' = [wire EXCEPT !.requests = <<>>]
    /\ events' = <<>>
    /\ shown' = Only(shown, Wayland)
    /\ left' = [left EXCEPT !.restarts = @ - 1]

(* x11-display-setup, with a new server that has the guard window and      *)
(* perhaps a window whose creation is reported after the query             *)
query_xserver_stack ==
    /\ ~server.up
    /\ \E early \in {<<>>} \cup {<<w>> : w \in XOverride} :
          LET stack == <<Guard>> \o early IN
          /\ server' = [server EXCEPT !.stack = stack, !.processed = 1, !.up = TRUE]
          /\ t' = [t EXCEPT !.verified = @ \o stack, !.serial = 1]
          /\ events' = [i \in DOMAIN early |-> [type |-> "ADD", serial |-> 0,
                                                window |-> early[i], sibling |-> None]]
    /\ wire' = [next |-> 2, requests |-> <<>>]
    /\ UNCHANGED <<shown, left>>

Next ==
    \/ StackChanged
    \/ meta_stack_tracker_sync_stack
    \/ meta_stack_tracker_record_add
    \/ meta_stack_tracker_record_remove
    \/ ServerProcesses
    \/ ClientActs
    \/ EventReceived
    \/ drop_x11_windows
    \/ query_xserver_stack

Spec == Init /\ [][Next]_vars

-----------------------------------------------------------------------------
(* The tracker's stacks hold each window at most once: a window that is    *)
(* created, predicted and reported is added but once.                      *)
TypeOK ==
    /\ ToSet(t.verified) \subseteq XWindows \cup Wayland
    /\ IsInjective(t.verified)
    /\ t.predicted = NoStack \/ IsInjective(t.predicted)
    /\ \A op \in ToSet(t.predictions) : op.serial < wire.next

(* "A predicted stacking order, derived from applying the queued requests  *)
(* to the last state from the server." As long as the X server has not     *)
(* gone: drop_x11_windows leaves predicted_stack as it is.                 *)
PredictedIsDerived ==
    left.restarts = MaxRestarts /\ t.predictions # <<>> /\ t.predicted # NoStack =>
        t.predicted = ApplyAll(t.verified, t.predictions, "DEFAULT")

(* stack_tracker_event_received: the X windows of verified_stack are those *)
(* of the server, in its order, up to the events still to be received:     *)
(* neither predictions nor moves of Wayland windows among them change it.  *)
VerifiedFollowsServer ==
    ApplyAll(XPart(t.verified), events, "DEFAULT") = server.stack

(* The two stacks of the tracker agree with the server's.                  *)
StacksAgree == TypeOK /\ PredictedIsDerived /\ VerifiedFollowsServer

(* meta_stack_tracker_get_stack: "Assuming that no other clients have made *)
(* requests that change the stacking order since we last received a        *)
(* notification, the returned list of windows is exactly that you'd get as *)
(* the children when calling XQueryTree() on the root window."             *)
ServerAgrees ==
    wire.requests = <<>> /\ events = <<>> => XPart(get_stack(t)) = server.stack

(* on_stack_changed puts the managed windows where they are wanted: those  *)
(* shown in their order above the guard window, the others below it, as    *)
(* long as predicted_stack is what PredictedIsDerived says.                *)
Restacked ==
    [][left'.changes # left.changes /\ left.restarts = MaxRestarts =>
         LET stack == get_stack(t')
             above == SubSeq(stack, Pos(stack, Guard) + 1, Len(stack))
         IN Only(above, Managed) = shown']_vars
==============================================================================
