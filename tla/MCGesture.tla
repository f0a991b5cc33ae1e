------------------------------ MODULE MCGesture ------------------------------
(* ClutterGesture for two gestures. *)
EXTENDS ClutterGesture

CONSTANTS g1, g2

Two == <<g1, g2>>

Symmetry == Permutations(Touches)

(* g2 is not to cancel g1, which may cancel g2: it comes after it and may *)
(* still have to hear of the event that is being emitted.                 *)
OneKeeps == {[x \in All |-> {g1} \ {x}]}
=============================================================================
