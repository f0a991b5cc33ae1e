--------------------------- MODULE UpdateDelivery ---------------------------
(***************************************************************************)
(* What the KMS thread promises the onscreens of the main thread: a frame  *)
(* posted for a CRTC is answered, by a page flip or by a failure, exactly  *)
(* once, and no answer arrives for a frame that was not posted.            *)
(*                                                                         *)
(* No code corresponds to this module: the detailed specification          *)
(* (KmsImplDevice) is shown to implement it.                               *)
(***************************************************************************)
EXTENDS Naturals

CONSTANT Crtcs

VARIABLES
    waiting,   \* the onscreens that wait for an answer
    answers    \* the answers under way to each of them

vars == <<waiting, answers>>

Init ==
    /\ waiting = {}
    /\ answers = [c \in Crtcs |-> 0]

Answered(S) == answers' = [c \in Crtcs |-> IF c \in S THEN 1 ELSE answers[c]]

(* An onscreen that waits for nothing posts a frame.  That may be all that *)
(* a mode set was waiting for: frames posted earlier are answered with it. *)
Post(c) ==
    /\ c \notin waiting
    /\ waiting' = waiting \cup {c}
    /\ \E S \in SUBSET {e \in waiting' : answers[e] = 0} : Answered(S)

(* One event may answer the frames of several CRTCs. *)
Answer(S) ==
    /\ \A c \in S : c \in waiting /\ answers[c] = 0
    /\ Answered(S)
    /\ UNCHANGED waiting

Deliver(c) ==
    /\ answers[c] = 1
    /\ waiting' = waiting \ {c}
    /\ answers' = [answers EXCEPT ![c] = 0]

(* The views are rebuilt: their onscreens, and what they wait for, are gone. *)
Forget ==
    /\ waiting' = {}
    /\ answers' = [c \in Crtcs |-> 0]

Next ==
    \/ \E c \in Crtcs : Post(c) \/ Deliver(c)
    \/ \E S \in SUBSET Crtcs : Answer(S)
    \/ Forget

Spec == Init /\ [][Next]_vars
=============================================================================
