----------------------------- MODULE CommitOrder -----------------------------
(***************************************************************************)
(* What the compositor promises a Wayland client about its commits: the    *)
(* states one transaction carries appear together, and each surface shows  *)
(* the transactions that concern it in the order they were committed, none *)
(* skipped and none twice.  Transactions on different surfaces may         *)
(* overtake one another.                                                   *)
(*                                                                         *)
(* No code corresponds to this module: WaylandTransaction is shown to      *)
(* implement it.                                                           *)
(***************************************************************************)
EXTENDS Naturals

CONSTANT Surfaces

VARIABLES
    count,     \* the transactions committed so far
    waiting,   \* the surfaces of each transaction that is not shown yet
    shown      \* the last transaction each surface has shown

vars == <<count, waiting, shown>>

Init ==
    /\ count = 0
    /\ waiting = << >>
    /\ shown = [s \in Surfaces |-> 0]

Commit(S) ==
    /\ count' = count + 1
    /\ waiting' = [n \in DOMAIN waiting \cup {count'} |->
                     IF n = count' THEN S ELSE waiting[n]]
    /\ UNCHANGED shown

Show(n) ==
    /\ \A m \in DOMAIN waiting : m < n => waiting[m] \cap waiting[n] = {}
    /\ shown' = [s \in Surfaces |-> IF s \in waiting[n] THEN n ELSE shown[s]]
    /\ waiting' = [m \in DOMAIN waiting \ {n} |-> waiting[m]]
    /\ UNCHANGED count

Next ==
    \/ \E S \in SUBSET Surfaces : Commit(S)
    \/ \E n \in DOMAIN waiting : Show(n)

Spec == Init /\ [][Next]_vars
=============================================================================
