--------------------------- MODULE ClutterGesture ---------------------------
(***************************************************************************)
(* Gestures (clutter/clutter-gesture.c): the state machine of each         *)
(* gesture, the points it follows, and the relationships by which gestures *)
(* that share points cancel one another. Points come from sprites          *)
(* (clutter/clutter-sprite.c): the first press collects the gestures that  *)
(* will hear of the point, and every event is emitted to them in turn. The *)
(* implementation of a gesture, its timeouts and its users may ask for     *)
(* another state whenever they run, which is between any two receivers. A  *)
(* change of state is one operator with all that it does to other          *)
(* gestures: handlers of the signals it emits (may-recognize, recognize,   *)
(* cancel) do not call back into a gesture here.                           *)
(***************************************************************************)
EXTENDS Integers, Sequences, SequencesExt, FiniteSets, FiniteSetsExt

CONSTANTS
    Gestures,     \* the gestures of the stage, in the order of emission
    Touches,      \* sprites of touch points
    Pointers,     \* sprites of pointers, which have several buttons
    Keeps,        \* the calls of can_not_cancel there may have been at first
    MaxPresses,   \* bound on presses and touches
    MaxOps        \* bound on what users do to gestures and actors

All == ToSet(Gestures)
Points == Touches \cup Pointers

ASSUME GestureAssumption ==
    /\ Gestures \in Seq(All) /\ IsInjective(Gestures)
    /\ Touches \cap Pointers = {}
    /\ \A keeps \in Keeps : \A x \in All : keeps[x] \subseteq All \ {x}
    /\ MaxPresses \in Nat /\ MaxOps \in Nat

VARIABLES
    s,          \* ges: the gestures, list: stage_all_active_gestures is known;
                \* active: that list; sprites: with the gestures that hear of
                \* them; failed: an assertion has ended the program
    emission,   \* the event being emitted and the gestures still to get it
    left        \* what is left of the bounds

vars == <<s, emission, left>>

Over == {"COMPLETED", "CANCELLED"}
Idle == [sprite |-> "none", type |-> "none", rest |-> <<>>]

-----------------------------------------------------------------------------
get_sequence_data(S, x, p) ==
    SelectInSeq(S.ges[x].seqs, LAMBDA d : ~d.ended /\ d.sprite = p)

AllEnded(S, x) == \A i \in DOMAIN S.ges[x].seqs : S.ges[x].seqs[i].ended

ActivePoints(S, x) ==
    {i \in DOMAIN S.ges[x].seqs : S.ges[x].seqs[i].seen /\ ~S.ges[x].seqs[i].ended}

State(S, x, state) == [S EXCEPT !.ges[x].state = state]
End(S, x, I) ==
    [S EXCEPT !.ges[x].seqs = [i \in DOMAIN @ |->
        IF i \in I THEN [@[i] EXCEPT !.ended = TRUE] ELSE @[i]]]

(* set_state to WAITING: the gesture leaves the list of its stage, which   *)
(* must still be known, and its relationships.                             *)
MoveToWaiting_alone(S, x) == \* mutant: the others keep the relationship
    [S EXCEPT !.active = @ \ {x},
              !.ges[x] = [@ EXCEPT !.state = "WAITING", !.seqs = <<>>, !.rel = {},
                                   !.cancels = {}]]
MoveToWaiting(S, x) ==
    IF ~S.ges[x].list THEN [S EXCEPT !.failed = TRUE]
    ELSE [S EXCEPT !.active = @ \ {x},
                   !.ges = [y \in All |->
                      IF y = x THEN [S.ges[y] EXCEPT !.state = "WAITING", !.seqs = <<>>,
                                                     !.rel = {}, !.cancels = {}]
                      ELSE IF y \in S.ges[x].rel THEN [S.ges[y] EXCEPT !.rel = @ \ {x}]
                      ELSE S.ges[y]]]

maybe_move_to_waiting(S, x) ==
    IF S.ges[x].state \in Over /\ AllEnded(S, x) THEN MoveToWaiting(S, x) ELSE S

(* The end of a sequence, unless the gesture has left it behind already    *)
EndSequence_stays(S, x, i) == \* mutant: only a change of state is followed up
    End(S, x, {i})
EndSequence(S, x, i) == maybe_move_to_waiting(End(S, x, {i}), x)

(* set_state_authoritative to CANCELLED                                    *)
Cancel(S, x) == maybe_move_to_waiting(State(S, x, "CANCELLED"), x)
CancelAll(S, X) == FoldSet(LAMBDA y, T : Cancel(T, y), S, X)

new_gesture_allowed_always(S, x) == \* mutant: whatever is recognizing
    TRUE
new_gesture_allowed_to_start(S, x) ==
    ~\E y \in S.active \ {x} : x \notin S.ges[y].rel /\ S.ges[y].state = "RECOGNIZING"

maybe_cancel_independent_gestures(S, x) ==
    CancelAll(S, {y \in S.active \ ({x} \cup S.ges[x].rel) : S.ges[y].state = "POSSIBLE"})

maybe_influence_other_gestures(S, x) ==
    CancelAll(S, {y \in S.ges[x].cancels \cap S.ges[x].rel : S.ges[y].state \notin Over})

(* clutter_stage_notify_action_implicit_grab                               *)
remove_all_actors_from_chain(S, P) ==
    [S EXCEPT !.sprites = [p \in Points |->
        IF p \in P THEN [@[p] EXCEPT !.actors = FALSE] ELSE @[p]]]

(* set_state_authoritative from POSSIBLE to RECOGNIZING or COMPLETED, with *)
(* the answer of ::may-recognize                                           *)
Recognize(S, x, state, may) ==
    LET P == {S.ges[x].seqs[i].sprite :
                i \in {j \in DOMAIN S.ges[x].seqs : ~S.ges[x].seqs[j].ended}}
        T == maybe_cancel_independent_gestures(remove_all_actors_from_chain(S, P), x)
    IN IF ~S.ges[x].list THEN [S EXCEPT !.failed = TRUE]
       ELSE IF ~(new_gesture_allowed_to_start(S, x) /\ may) THEN Cancel(S, x)
       ELSE maybe_move_to_waiting(
                maybe_influence_other_gestures(State(T, x, state), x), x)

clutter_gesture_set_state(S, x, state, may) ==
    LET old == S.ges[x].state IN
    CASE old \in {"POSSIBLE", "RECOGNIZING"} /\ state = "CANCELLED" -> Cancel(S, x)
      [] old = "POSSIBLE" /\ state \in {"RECOGNIZING", "COMPLETED"} ->
            Recognize(S, x, state, may)
      [] old = "RECOGNIZING" /\ state = "COMPLETED" ->
            maybe_move_to_waiting(State(S, x, state), x)
      [] OTHER -> S

-----------------------------------------------------------------------------
(* cancel_sequence and cancel_point. Unless this was the only sequence, a  *)
(* gesture that has not seen it yet is not told.                           *)
cancel_sequence(S, x, i) ==
    LET g == S.ges[x]
        told == g.state \notin Over /\ (Len(g.seqs) = 1 \/ g.seqs[i].seen)
    IN EndSequence(IF told THEN Cancel(S, x) ELSE S, x, i)

cancel_point_forgotten(S, x, p) == \* mutant: the sequence does not end
    LET i == get_sequence_data(S, x, p) IN IF i = 0 THEN S ELSE Cancel(S, x)
cancel_point(S, x, p) ==
    LET i == get_sequence_data(S, x, p)
    IN IF i = 0 THEN S ELSE cancel_sequence(S, x, i)

cancel_all_points(S, x) ==
    LET g == S.ges[x]
        told == /\ g.state \notin Over
                /\ \/ \A i \in DOMAIN g.seqs : ~g.seqs[i].ended
                   \/ ActivePoints(S, x) # {}
    IN IF g.seqs = <<>> THEN S
       ELSE maybe_move_to_waiting(
                End(IF told THEN Cancel(S, x) ELSE S, x, DOMAIN g.seqs), x)

(* clutter_gesture_handle_event: for an event of a sequence of the         *)
(* gesture, with what the implementation asks for when it is told.         *)
handle_event(S, x, p, type, request, may) ==
    LET i == get_sequence_data(S, x, p)
        old == S.ges[x].state
        d == S.ges[x].seqs[i]
        buttons == d.buttons + (CASE type = "press" -> 1 [] type = "release" -> -1
                                  [] OTHER -> 0)
        emit == /\ old \notin Over
                /\ ~(type = "press" /\ buttons >= 2)
                /\ ~(type = "release" /\ buttons >= 1)
        ends == type \in {"end", "cancel"} \/ (type = "release" /\ buttons < 1)
        counted == [S EXCEPT !.ges[x].seqs[i].buttons = buttons]
        seen == [counted EXCEPT !.ges[x].seqs[i].seen = TRUE]
        told == IF ~emit THEN counted
                ELSE IF type = "cancel" THEN cancel_sequence(seen, x, i)
                ELSE clutter_gesture_set_state(seen, x, request, may)
        ended == IF ends THEN EndSequence(told, x, i) ELSE told
        claims == /\ ~d.seen /\ ~ends
                  /\ old = "RECOGNIZING" /\ ended.ges[x].state = "RECOGNIZING"
    IN IF i = 0 \/ ~S.ges[x].attached THEN S
       ELSE IF /\ old = "POSSIBLE" /\ Len(S.ges[x].seqs) = 1 /\ ~d.seen
               /\ ~new_gesture_allowed_to_start(S, x)
       THEN Cancel(counted, x)
       ELSE IF claims
       THEN maybe_influence_other_gestures(remove_all_actors_from_chain(ended, {p}), x)
       ELSE ended

(* What an implementation asks for: when its last point ends, one that is  *)
(* recognizing completes or cancels (clutter-pan-gesture.c,                *)
(* clutter-long-press-gesture.c); others may wait for the next press.      *)
Requests(S, x, type) ==
    IF type \notin {"end", "release"} THEN {"none", "RECOGNIZING", "COMPLETED", "CANCELLED"}
    ELSE IF S.ges[x].state = "RECOGNIZING" /\ Cardinality(ActivePoints(S, x)) <= 1
    THEN Over
    ELSE {"none"} \cup Over

-----------------------------------------------------------------------------
(* clutter_gesture_register_sequence, for a gesture that would handle it:  *)
(* all sequences that go on are of one device.                             *)
SameDevice(p, q) == p = q \/ {p, q} \subseteq Touches

MayRegister(S, x, p) ==
    /\ S.ges[x].attached /\ S.ges[x].enabled
    /\ S.ges[x].state \notin Over
    /\ \A d \in ToSet(S.ges[x].seqs) : d.ended \/ SameDevice(d.sprite, p)

register_sequence(S, x, p) ==
    LET T == IF S.ges[x].state # "WAITING" THEN S
             ELSE State([S EXCEPT !.active = @ \cup {x}, !.ges[x].list = TRUE],
                        x, "POSSIBLE")
    IN [T EXCEPT !.ges[x].seqs =
            Append(@, [sprite |-> p, seen |-> FALSE, ended |-> FALSE, buttons |-> 0])]

(* clutter_gesture_setup_sequence_relationship, for all pairs of X, with   *)
(* what clutter_gesture_can_not_cancel has been called for                 *)
setup_relationships_all(S, X) == \* mutant: can_not_cancel is not asked
    [S EXCEPT !.ges = [x \in All |-> IF x \notin X THEN @[x]
        ELSE [@[x] EXCEPT !.rel = @ \cup (X \ {x}), !.cancels = @ \cup (X \ {x})]]]
setup_relationships(S, X) ==
    [S EXCEPT !.ges = [x \in All |->
        IF x \notin X THEN S.ges[x]
        ELSE LET new == X \ ({x} \cup S.ges[x].rel)
             IN [S.ges[x] EXCEPT !.rel = @ \cup new,
                                 !.cancels = @ \cup (new \ S.ges[x].can_not_cancel)]]]

-----------------------------------------------------------------------------
Init ==
    \E keeps \in Keeps :
        /\ s = [ges |-> [x \in All |->
                   [state |-> "WAITING", seqs |-> <<>>, rel |-> {}, cancels |-> {},
                    can_not_cancel |-> keeps[x], list |-> FALSE, attached |-> TRUE,
                    enabled |-> TRUE]],
                active |-> {},
                sprites |-> [p \in Points |->
                   [press_count |-> 0, chain |-> <<>>, actors |-> FALSE]],
                failed |-> FALSE]
        /\ emission = Idle
        /\ left = [presses |-> MaxPresses, ops |-> MaxOps]

Emit(p, type, chain) == emission' = [sprite |-> p, type |-> type, rest |-> chain]

(* The receivers in X of a chain, in its order                             *)
Those(chain, X) ==
    FoldLeft(LAMBDA those, x : IF x \in X THEN Append(those, x) ELSE those, <<>>, chain)

RegisterAll(S, p, chain) == FoldLeft(LAMBDA T, x : register_sequence(T, x, p), S, chain)

(* clutter_sprite_propagate_event, for the first press of a sprite: the    *)
(* enabled gestures of the actors below it that want the sequence.         *)
Press(p) ==
    /\ emission = Idle /\ ~s.failed
    /\ left.presses > 0
    /\ s.sprites[p].press_count = 0
    /\ \E X \in SUBSET {x \in All : MayRegister(s, x, p)} :
          LET chain == Those(Gestures, X)
              S == RegisterAll(s, p, chain)
          IN /\ s' = [setup_relationships(S, X) EXCEPT
                        !.sprites[p] = [press_count |-> 1, chain |-> chain, actors |-> TRUE]]
             /\ Emit(p, IF p \in Touches THEN "begin" ELSE "press", chain)
    /\ left' = [left EXCEPT !.presses = @ - 1]

(* Another button of a pointer                                             *)
PressMore(p) ==
    /\ emission = Idle /\ ~s.failed
    /\ left.presses > 0
    /\ p \in Pointers /\ s.sprites[p].press_count > 0
    /\ s' = [s EXCEPT !.sprites[p].press_count = @ + 1]
    /\ Emit(p, "press", s.sprites[p].chain)
    /\ left' = [left EXCEPT !.presses = @ - 1]

(* Motion, and the events that end a sequence or release a button          *)
Propagate(p) ==
    /\ emission = Idle /\ ~s.failed
    /\ s.sprites[p].press_count > 0
    /\ \E type \in {"update"} \cup IF p \in Touches THEN {"end", "cancel"} ELSE {"release"} :
          Emit(p, type, s.sprites[p].chain)
    /\ UNCHANGED <<s, left>>

(* emit_event, for the next receiver                                       *)
EmitToAction ==
    /\ emission.rest # <<>> /\ ~s.failed
    /\ LET x == Head(emission.rest) IN
          \E request \in Requests(s, x, emission.type), may \in BOOLEAN :
             s' = handle_event(s, x, emission.sprite, emission.type, request, may)
    /\ emission' = [emission EXCEPT !.rest = Tail(@)]
    /\ UNCHANGED left

(* release_implicit_grab, when all receivers have had the event            *)
Released(S, p, type) ==
    IF type \notin {"end", "cancel", "release"} THEN S
    ELSE IF S.sprites[p].press_count > 1 THEN [S EXCEPT !.sprites[p].press_count = @ - 1]
    ELSE [S EXCEPT !.sprites[p] = [press_count |-> 0, chain |-> <<>>, actors |-> FALSE]]

Emitted ==
    /\ emission # Idle /\ emission.rest = <<>> /\ ~s.failed
    /\ s' = Released(s, emission.sprite, emission.type)
    /\ emission' = Idle
    /\ UNCHANGED left

(* An actor handles the event: clutter_sprite_remove_all_actions_from_chain*)
CancelOn(S, p, chain) == FoldLeft(LAMBDA T, x : cancel_point(T, x, p), S, chain)

ActorHandles ==
    LET p == emission.sprite IN
    /\ emission # Idle /\ ~s.failed
    /\ s.sprites[p].actors
    /\ s' = Released([CancelOn(s, p, s.sprites[p].chain) EXCEPT !.sprites[p].chain = <<>>],
                     p, emission.type)
    /\ emission' = Idle
    /\ UNCHANGED left

(* clutter_sprite_maybe_lost_implicit_grab                                 *)
LostGrab(p) ==
    /\ emission = Idle /\ ~s.failed
    /\ left.ops > 0
    /\ s.sprites[p].press_count > 0
    /\ s' = [CancelOn(s, p, s.sprites[p].chain) EXCEPT
               !.sprites[p] = [press_count |-> 0, chain |-> <<>>, actors |-> FALSE]]
    /\ left' = [left EXCEPT !.ops = @ - 1]
    /\ UNCHANGED emission

(* The actors of some receivers are unmapped or outside of a new grab:     *)
(* clutter_sprite_maybe_break_implicit_grab, clutter_sprite_notify_grab    *)
Dropped(p) ==
    /\ ~s.failed
    /\ left.ops > 0
    /\ \E X \in (SUBSET ToSet(s.sprites[p].chain)) \ {{}} :
          LET Keep(chain) == Those(chain, All \ X)
              gone == Those(s.sprites[p].chain, X)
          IN /\ s' = [CancelOn(s, p, gone) EXCEPT !.sprites[p].chain = Keep(@)]
             /\ emission' = IF emission.sprite = p
                            THEN [emission EXCEPT !.rest = Keep(@)] ELSE emission
    /\ left' = [left EXCEPT !.ops = @ - 1]

(* A timeout of the implementation or a user asks for another state.       *)
Asks(x) ==
    /\ ~s.failed
    /\ left.ops > 0
    /\ \E state \in {"RECOGNIZING"} \cup Over, may \in BOOLEAN :
          /\ AllEnded(s, x) => state # "RECOGNIZING"
          /\ s' = clutter_gesture_set_state(s, x, state, may)
    /\ s' # s
    /\ left' = [left EXCEPT !.ops = @ - 1]
    /\ UNCHANGED emission

SetEnabled(x) ==
    /\ ~s.failed
    /\ left.ops > 0
    /\ LET on == ~s.ges[x].enabled IN
          s' = [IF on THEN s ELSE cancel_all_points(s, x) EXCEPT !.ges[x].enabled = on]
    /\ left' = [left EXCEPT !.ops = @ - 1]
    /\ UNCHANGED emission

(* clutter_gesture_set_actor: without an actor the stage's list is         *)
(* forgotten; it is looked up when the gesture becomes POSSIBLE.           *)
SetActor(x) ==
    /\ ~s.failed
    /\ left.ops > 0
    /\ s' = [cancel_all_points(s, x) EXCEPT
               !.ges[x].attached = ~@,
               !.ges[x].list = @ /\ ~s.ges[x].attached]
    /\ left' = [left EXCEPT !.ops = @ - 1]
    /\ UNCHANGED emission

CanNotCancel(x) ==
    /\ ~s.failed
    /\ left.ops > 0
    /\ \E y \in All \ ({x} \cup s.ges[x].can_not_cancel) :
          s' = [s EXCEPT !.ges[x].can_not_cancel = @ \cup {y}]
    /\ left' = [left EXCEPT !.ops = @ - 1]
    /\ UNCHANGED emission

Next ==
    \/ \E p \in Points : Press(p) \/ PressMore(p) \/ Propagate(p) \/ LostGrab(p) \/ Dropped(p)
    \/ EmitToAction \/ Emitted \/ ActorHandles
    \/ \E x \in All : Asks(x) \/ SetEnabled(x) \/ SetActor(x) \/ CanNotCancel(x)

Spec == Init /\ [][Next]_vars

-----------------------------------------------------------------------------
(* States and lists are of their types; a gesture has sequences only while *)
(* it is active, and counts buttons only of sequences that go on.          *)
TypeOK ==
    /\ s.active \subseteq All
    /\ \A x \in All : LET g == s.ges[x] IN
          /\ g.state \in {"WAITING", "POSSIBLE", "RECOGNIZING"} \cup Over
          /\ g.rel \cup g.cancels \cup g.can_not_cancel \subseteq All \ {x}
          /\ g.state = "WAITING" => g.seqs = <<>>
          /\ \A d \in ToSet(g.seqs) : d.buttons >= 0
    /\ ToSet(emission.rest) \subseteq All

(* set_state and maybe_influence_other_gestures assert that relationships  *)
(* are mutual and between active gestures, and that every active gesture   *)
(* is in the list of its stage.                                            *)
RelationsAgree ==
    ~s.failed =>
       /\ s.active = {x \in All : s.ges[x].state # "WAITING"}
       /\ \A x \in All : \A y \in s.ges[x].rel : {x, y} \subseteq s.active /\ x \in s.ges[y].rel

(* What gestures and their stage record of one another agrees.             *)
GesturesAgree == TypeOK /\ RelationsAgree

(* "Only a single gesture can be recognizing globally at a time", except   *)
(* for those in a relationship in which one can not cancel the other.      *)
SingleRecognizing ==
    \A x, y \in All :
       x # y /\ s.ges[x].state = "RECOGNIZING" /\ s.ges[y].state = "RECOGNIZING" =>
          y \in s.ges[x].rel /\ (y \notin s.ges[x].cancels \/ x \notin s.ges[y].cancels)

(* A gesture whose sequence goes on is among the receivers of its events,  *)
(* so it will hear of the end, whatever is cancelled, dropped or disabled. *)
HearsOfTheEnd ==
    \A x \in All : \A d \in ToSet(s.ges[x].seqs) :
       ~s.failed /\ ~d.ended => /\ Contains(s.sprites[d.sprite].chain, x)
                                /\ s.sprites[d.sprite].press_count > 0
                                /\ s.ges[x].attached

(* "The gesture will automatically move to state WAITING after all the     *)
(* remaining points have ended."                                           *)
EndsInWaiting ==
    \A x \in All : ~s.failed /\ s.ges[x].state \in Over => ~AllEnded(s, x)

(* clutter_gesture_can_not_cancel: "calling this function will make sure   *)
(* that @self does not cancel @other_gesture when @self moves to state     *)
(* RECOGNIZING", for calls made before their points.                       *)
RespectsCanNotCancel ==
    [][\A x \in All : \A y \in s.ges[x].can_not_cancel \cap s.ges[x].rel :
         /\ left.ops = MaxOps
         /\ s.ges[x].state = "POSSIBLE"
         /\ s'.ges[x].state \in {"RECOGNIZING", "COMPLETED"}
         => s'.ges[y].state = s.ges[y].state]_vars

(* set_state: "g_assert (removed);" when a gesture moves to WAITING, it is *)
(* in the list of its stage.                                               *)
NeverFails == ~s.failed
=============================================================================
