---------------------------- MODULE MCTransaction ----------------------------
(* WaylandTransaction with the states a client may commit.  A state with a *)
(* barrier also draws, as a state that is to be presented does; that of    *)
(* StrandedKinds does not.                                                 *)
EXTENDS WaylandTransaction, TLC

CONSTANTS a, b, v1, v2

Plain == [buffer |-> FALSE, fifo_wait |-> FALSE, fifo_barrier |-> FALSE, draws |-> TRUE, target |-> 0]
Fifo == [Plain EXCEPT !.fifo_wait = TRUE, !.fifo_barrier = TRUE]
Timed(t) == [Plain EXCEPT !.target = t]

Whole == [Fifo EXCEPT !.buffer = TRUE, !.target = 1]
LiveKinds == {Whole, NoState}
StrandedKinds == {[Fifo EXCEPT !.fifo_wait = FALSE, !.draws = FALSE], Fifo, NoState}
MixedKinds == {Whole, Timed(2)}

OneView == [s \in Surfaces |-> v1]
TwoViews == [s \in Surfaces |-> IF s = a THEN v1 ELSE v2]

(* With one view the surfaces are alike. *)
Symmetry == Permutations(Surfaces)
=============================================================================
