------------------------------ MODULE MCSurface ------------------------------
(* WaylandSurface for a toplevel with two sub-surfaces. *)
EXTENDS WaylandSurface

CONSTANTS top, a, b

Nested == [s \in Surfaces |-> IF s = a THEN top ELSE IF s = b THEN a ELSE None]
Child == [s \in Surfaces |-> IF s = a THEN top ELSE None]
=============================================================================
