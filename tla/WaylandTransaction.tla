-------------------------- MODULE WaylandTransaction --------------------------
(***************************************************************************)
(* MetaWaylandTransaction: surface states that have to appear together,    *)
(* queued until their buffers are ready, their time has come, their fifo   *)
(* barrier is lifted and the transactions before them on the same surfaces *)
(* are applied (src/wayland/meta-wayland-transaction.c, with the queues    *)
(* meta-wayland.c keeps and what applying a state does in                  *)
(* meta-wayland-surface.c and meta-wayland-actor-surface.c).               *)
(*                                                                         *)
(* A transaction is named by its committed_sequence.  Applying is a loop   *)
(* over candidates within one callback of the main loop; each turn of it   *)
(* is a step here, and nothing else happens while candidates remain.       *)
(* Likewise a stage update is the step BeforeUpdate, one step per timed    *)
(* transaction and barrier it looks at, and a last one.                    *)
(*                                                                         *)
(* Environment: which states clients commit (Kinds), when buffers become   *)
(* ready, whether a surface is visible, other damage to a view, and when   *)
(* frame clocks reschedule.  Of a frame clock there are the times it knows *)
(* (deferred_times) and whether an update is scheduled; FrameClock has its *)
(* states.  A frame's target presentation time is the present here.        *)
(***************************************************************************)
EXTENDS Naturals, Sequences, FiniteSets, FiniteSetsExt, SequencesExt

CONSTANTS
    Surfaces,
    Views,
    PrimaryView,   \* the view each surface's actor is primarily on
    Kinds,         \* the states a client may commit, or NoState
    MaxCommits,    \* bound: transactions committed
    MaxTime,       \* bound: target times
    MaxSources     \* bound: unready buffers waited for at once

NoState == << >>   \* a NULL state

State ==
    [buffer : BOOLEAN,         \* attaches a buffer that may not be ready yet
     fifo_wait : BOOLEAN,
     fifo_barrier : BOOLEAN,
     draws : BOOLEAN,          \* has damage or frame callbacks
     target : 0..MaxTime]      \* target_time_us, 0 without has_target_time

ASSUME TransactionAssumption ==
    /\ IsFiniteSet(Surfaces)
    /\ PrimaryView \in [Surfaces -> Views]
    /\ Kinds \subseteq State \cup {NoState}
    /\ MaxCommits \in Nat /\ MaxTime \in Nat /\ MaxSources \in Nat

VARIABLES
    committed_sequence,
    transactions,      \* the committed transactions, a function of the sequence
    first_committed,   \* of each surface, 0 when NULL
    last_committed,
    fifo_barrier,      \* surface->fifo_barrier
    barrier_surfaces,  \* compositor->barrier_surfaces
    timed,             \* compositor->timed_transactions
    candidates,        \* transactions maybe_apply has still to look at
    phase,             \* where the update of a view is
    view,              \* the view being updated
    walk,              \* barrier surfaces that update has still to look at
    visible,           \* the actor exists, is mapped and not obscured
    scheduled,         \* views with an update scheduled
    future,            \* the future times each view's frame clock knows
    now,
    applied            \* the last transaction applied to each surface

queueVars == <<committed_sequence, transactions, first_committed, last_committed, applied>>
barrierVars == <<fifo_barrier, barrier_surfaces>>
loopVars == <<phase, view, walk>>
worldVars == <<visible, now>>
clockVars == <<scheduled, future>>
vars == <<queueVars, barrierVars, timed, candidates, loopVars, worldVars, clockVars>>
-----------------------------------------------------------------------------
Entries(n) == transactions[n].entries
Touches(n, s) == s \in DOMAIN Entries(n)

Init ==
    /\ committed_sequence = 0
    /\ transactions = << >>
    /\ first_committed = [s \in Surfaces |-> 0]
    /\ last_committed = [s \in Surfaces |-> 0]
    /\ fifo_barrier = [s \in Surfaces |-> FALSE]
    /\ barrier_surfaces = << >>
    /\ timed = << >>
    /\ candidates = {}
    /\ phase = "idle"
    /\ view \in Views
    /\ walk = << >>
    /\ visible = [s \in Surfaces |-> TRUE]
    /\ scheduled = {}
    /\ future = [v \in Views |-> {}]
    /\ now = 0
    /\ applied = [s \in Surfaces |-> 0]

(* The main loop is between two callbacks. *)
AtRest == phase = "idle" /\ candidates = {}

(* Mutant of has_dependencies: without the order. *)
has_dependencies_unordered(n) ==
    \/ transactions[n].target # 0
    \/ transactions[n].buf_sources # {}
    \/ \E s \in DOMAIN Entries(n) :
         /\ Entries(n)[s].state # NoState
         /\ visible[s]
         /\ Entries(n)[s].state.fifo_wait
         /\ fifo_barrier[s]

has_dependencies(n) ==
    \/ transactions[n].target # 0
    \/ transactions[n].buf_sources # {}
    \/ \E s \in DOMAIN Entries(n) :
         \/ first_committed[s] # n
         \/ /\ Entries(n)[s].state # NoState
            /\ visible[s]
            /\ Entries(n)[s].state.fifo_wait
            /\ fifo_barrier[s]
-----------------------------------------------------------------------------
Targets(states) ==
    {states[s].target : s \in {r \in DOMAIN states : states[r] # NoState}} \cup {0}

(* g_queue_insert_sorted puts a transaction before those of an equal time. *)
add_timed_transaction(n, t) ==
    LET earlier == {i \in DOMAIN timed : transactions[timed[i]].target < t}
    IN  timed' = InsertAt(timed, Cardinality(earlier) + 1, n)

(* clean_deferred_times of a frame clock that knows the times: the current *)
(* time it compares them with is the presentation time of the last frame   *)
(* it computed one for, or else the present.                               *)
TimesLeft(times, current) == {t \in times : t > current}

(* Mutant of maybe_reschedule_update: the last times are cleaned and no    *)
(* update is scheduled.                                                    *)
maybe_reschedule_update_no_more(times) ==
    {[times |-> times, update |-> u] : u \in BOOLEAN}
    \cup {[times |-> TimesLeft(times, current), update |-> FALSE] : current \in 0..now}

(* What becomes of the times a frame clock knows, and whether an update is *)
(* scheduled: with a reschedule pending or timelines the times stay, and   *)
(* the update is scheduled unless one is for a later time.  Otherwise the  *)
(* past times are cleaned, and only if none is left is there an update for *)
(* them at once.                                                           *)
maybe_reschedule_update(times) ==
    {[times |-> times, update |-> u] : u \in BOOLEAN}
    \cup {[times |-> TimesLeft(times, current),
           update |-> TimesLeft(times, current) = {} /\ times # {}] : current \in 0..now}

(* The frame clock of v has known the times and reschedules. *)
reschedule(v, times) ==
    \E outcome \in maybe_reschedule_update(times) :
      /\ future' = [future EXCEPT ![v] = outcome.times]
      /\ scheduled' = IF outcome.update THEN scheduled \cup {v} ELSE scheduled

(* Mutant of LinksFrom: the new transaction is linked to the first one. *)
LinksFromFirst(m, s) == first_committed[s] = m

(* The transaction a new one for surface s is linked to. *)
LinksFrom(m, s) == first_committed[s] # 0 /\ last_committed[s] = m

(* Commits a transaction with the given states; unready are those surfaces *)
(* whose buffers get a source.  The surface of the latest target time has  *)
(* a frame clock if its actor is mapped, which a hidden one need not be.   *)
meta_wayland_transaction_commit(states, unready) ==
    LET n == committed_sequence + 1
        max_time == Max(Targets(states))
        max_time_surfaces == {s \in DOMAIN states : states[s] # NoState /\ states[s].target = max_time}
        busy == {s \in DOMAIN states : first_committed[s] # 0}
    IN  /\ committed_sequence' = n
        /\ \E s \in (IF max_time = 0 THEN Surfaces ELSE max_time_surfaces) :
             \E clocked \in {c \in BOOLEAN : IF max_time = 0 THEN ~c ELSE visible[s] => c} :
                 /\ transactions' =
                      [m \in DOMAIN transactions \cup {n} |->
                         IF m = n
                         THEN [entries |-> [r \in DOMAIN states |-> [state |-> states[r], next |-> 0]],
                               buf_sources |-> unready,
                               target |-> IF clocked THEN max_time ELSE 0]
                         ELSE [transactions[m] EXCEPT !.entries =
                                 [r \in DOMAIN Entries(m) |->
                                    IF r \in busy /\ LinksFrom(m, r)
                                    THEN [Entries(m)[r] EXCEPT !.next = n]
                                    ELSE Entries(m)[r]]]]
                 /\ IF clocked
                    THEN /\ add_timed_transaction(n, max_time)
                         /\ reschedule(PrimaryView[s], future[PrimaryView[s]] \cup {max_time})
                    ELSE UNCHANGED <<timed, clockVars>>
                 /\ candidates' = IF clocked \/ unready # {} \/ busy # {} THEN {} ELSE {n}
        /\ first_committed' = [s \in Surfaces |-> IF s \in DOMAIN states \ busy THEN n ELSE first_committed[s]]
        /\ last_committed' = [s \in Surfaces |-> IF s \in DOMAIN states THEN n ELSE last_committed[s]]
        /\ UNCHANGED <<applied, barrierVars, loopVars, worldVars>>

(* The sources that wait for buffers. *)
Sources == UNION {{<<n, s>> : s \in transactions[n].buf_sources} : n \in DOMAIN transactions}

(* What a client may commit: any surfaces together, those that a placement *)
(* operation only mentions with NoState.                                   *)
Commit ==
    /\ AtRest
    /\ committed_sequence < MaxCommits
    /\ \E S \in (SUBSET Surfaces) \ {{}} : \E states \in [S -> Kinds] :
         \E unready \in SUBSET {s \in S : states[s] # NoState /\ states[s].buffer} :
           /\ Cardinality(unready) + Cardinality(Sources) <= MaxSources
           /\ meta_wayland_transaction_commit(states, unready)

-----------------------------------------------------------------------------
Ready(n) == ~has_dependencies(n)

BarriersOf(n) ==
    {s \in DOMAIN Entries(n) : Entries(n)[s].state # NoState /\ Entries(n)[s].state.fifo_barrier}

(* Mutant of add_barrier_surface: a surface may be listed twice. *)
add_barrier_surface_again(S) == S

(* The surfaces among S that are put into the list, each once. *)
add_barrier_surface(S) == S \ {barrier_surfaces[i] : i \in DOMAIN barrier_surfaces}

(* Mutant of ensure_next_candidate: only the first next one is considered. *)
ensure_next_candidate_first(ns) == IF ns = {} THEN {} ELSE {Min(ns)}

(* The list is kept in the order of committed_sequence and has no member   *)
(* twice, so it is the set of its members.                                 *)
ensure_next_candidate(ns) == candidates \cup ns

(* Applying a state schedules an update for its damage, frame callbacks or *)
(* fifo_wait.                                                              *)
Draws(n, s) ==
    /\ Entries(n)[s].state # NoState
    /\ Entries(n)[s].state.draws \/ Entries(n)[s].state.fifo_wait
    /\ visible[s]

(* The surfaces of n move on to their next transactions, which become      *)
(* candidates.                                                             *)
meta_wayland_transaction_apply(n) ==
    LET touched == DOMAIN Entries(n)
        done == {s \in touched : last_committed[s] = n}
        onward == {s \in touched \ done : Entries(n)[s].next # 0}
    IN  /\ first_committed' = [s \in Surfaces |-> IF s \in done THEN 0
                                                 ELSE IF s \in onward THEN Entries(n)[s].next
                                                 ELSE first_committed[s]]
        /\ last_committed' = [s \in Surfaces |-> IF s \in done THEN 0 ELSE last_committed[s]]
        /\ transactions' = [m \in DOMAIN transactions \ {n} |-> transactions[m]]
        /\ applied' = [s \in Surfaces |-> IF s \in touched THEN n ELSE applied[s]]
        /\ candidates' = ensure_next_candidate({Entries(n)[s].next : s \in onward}) \ {n}
        /\ fifo_barrier' = [s \in Surfaces |-> fifo_barrier[s] \/ s \in BarriersOf(n)]
        /\ \E added \in SetToSeqs(add_barrier_surface(BarriersOf(n))) : barrier_surfaces' = added \o barrier_surfaces
        /\ scheduled' = scheduled \cup {PrimaryView[s] : s \in {r \in touched : Draws(n, r)}}
        /\ UNCHANGED <<committed_sequence, timed, loopVars, worldVars, future>>

(* One turn of the loop of meta_wayland_transaction_maybe_apply. *)
ApplyOne ==
    /\ candidates # {}
    /\ LET n == Min(candidates)
       IN  IF Ready(n)
           THEN meta_wayland_transaction_apply(n)
           ELSE /\ candidates' = candidates \ {n}
                /\ UNCHANGED <<queueVars, barrierVars, timed, loopVars, worldVars, clockVars>>

(* Mutant of the dispatch: the transaction is not considered. *)
dma_buf_dispatch_only(n, s) ==
    /\ AtRest
    /\ n \in DOMAIN transactions /\ s \in transactions[n].buf_sources
    /\ transactions' = [transactions EXCEPT ![n].buf_sources = @ \ {s}]
    /\ UNCHANGED <<committed_sequence, first_committed, last_committed, applied, barrierVars,
                   timed, candidates, loopVars, worldVars, clockVars>>

(* The source of an unready buffer is dispatched. *)
meta_wayland_transaction_dma_buf_dispatch(n, s) ==
    /\ AtRest
    /\ n \in DOMAIN transactions /\ s \in transactions[n].buf_sources
    /\ transactions' = [transactions EXCEPT ![n].buf_sources = @ \ {s}]
    /\ candidates' = {n}
    /\ UNCHANGED <<committed_sequence, first_committed, last_committed, applied, barrierVars,
                   timed, loopVars, worldVars, clockVars>>
-----------------------------------------------------------------------------
(* The frame clock of v dispatches: an update is scheduled or a time it    *)
(* knows has come.  It goes on knowing the time until it reschedules.      *)
BeforeUpdate(v) ==
    /\ AtRest
    /\ v \in scheduled \/ \E t \in future[v] : t <= now
    /\ phase' = "timed"
    /\ view' = v
    /\ scheduled' = scheduled \ {v}
    /\ UNCHANGED <<queueVars, barrierVars, timed, candidates, walk, worldVars, future>>

Due == timed # << >> /\ transactions[Head(timed)].target <= now

(* clear_time_constraints_for_stage_view_transactions: one timed           *)
(* transaction is unblocked and considered.                                *)
meta_wayland_transaction_unblock_timed ==
    /\ phase = "timed" /\ candidates = {}
    /\ Due
    /\ transactions' = [transactions EXCEPT ![Head(timed)].target = 0]
    /\ candidates' = {Head(timed)}
    /\ timed' = Tail(timed)
    /\ UNCHANGED <<committed_sequence, first_committed, last_committed, applied, barrierVars,
                   loopVars, worldVars, clockVars>>

(* Painting is over. *)
AfterUpdate ==
    /\ phase = "timed" /\ candidates = {}
    /\ ~Due
    /\ phase' = "barriers"
    /\ walk' = barrier_surfaces
    /\ UNCHANGED <<queueVars, barrierVars, timed, candidates, view, worldVars, clockVars>>

(* The surface is visible and this is not the update of its primary view. *)
Elsewhere(s) == visible[s] /\ PrimaryView[s] # view

(* One turn of clear_barrier_for_stage_view_surfaces, with                 *)
(* meta_wayland_transaction_unblock_surface and consider_surface.          *)
clear_barrier_for_stage_view_surfaces ==
    /\ phase = "barriers" /\ candidates = {} /\ walk # << >>
    /\ walk' = Tail(walk)
    /\ LET s == Head(walk)
       IN  IF Elsewhere(s)
           THEN UNCHANGED <<barrierVars, candidates>>
           ELSE /\ barrier_surfaces' = RemoveFirst(barrier_surfaces, s)
                /\ fifo_barrier' = [fifo_barrier EXCEPT ![s] = FALSE]
                /\ candidates' = IF fifo_barrier[s] THEN {first_committed[s]} \ {0} ELSE {}
    /\ UNCHANGED <<queueVars, timed, phase, view, worldVars, clockVars>>

EndUpdate ==
    /\ phase = "barriers" /\ candidates = {} /\ walk = << >>
    /\ phase' = "idle"
    /\ UNCHANGED <<queueVars, barrierVars, timed, candidates, view, walk, worldVars, clockVars>>
-----------------------------------------------------------------------------
(* A surface is hidden, obscured or shown again, which redraws its view. *)
VisibilityChange(s) ==
    /\ AtRest
    /\ visible' = [visible EXCEPT ![s] = ~@]
    /\ scheduled' = scheduled \cup {PrimaryView[s]}
    /\ UNCHANGED <<queueVars, barrierVars, timed, candidates, loopVars, now, future>>

(* Something else changes on a view. *)
OtherDamage(v) ==
    /\ AtRest
    /\ v \notin scheduled
    /\ scheduled' = scheduled \cup {v}
    /\ UNCHANGED <<queueVars, barrierVars, timed, candidates, loopVars, worldVars, future>>

(* A frame of v is presented or ready, or its frame clock is uninhibited   *)
(* or changes its mode, none of which looks at the timed transactions.     *)
Reschedule(v) ==
    /\ AtRest
    /\ reschedule(v, future[v])
    /\ UNCHANGED <<queueVars, barrierVars, timed, candidates, loopVars, worldVars>>

Tick ==
    /\ AtRest
    /\ now < MaxTime
    /\ now' = now + 1
    /\ UNCHANGED <<queueVars, barrierVars, timed, candidates, loopVars, visible, clockVars>>

(* What the main loop does once a callback runs. *)
Internal ==
    \/ ApplyOne
    \/ meta_wayland_transaction_unblock_timed
    \/ AfterUpdate
    \/ clear_barrier_for_stage_view_surfaces
    \/ EndUpdate

Environment ==
    \/ \E s \in Surfaces : VisibilityChange(s)
    \/ \E n \in 1..MaxCommits, s \in Surfaces : meta_wayland_transaction_dma_buf_dispatch(n, s)
    \/ \E v \in Views : BeforeUpdate(v) \/ OtherDamage(v) \/ Reschedule(v)
    \/ Tick

Next == Commit \/ Internal \/ Environment

Spec == Init /\ [][Next]_vars
-----------------------------------------------------------------------------
Entry == [state : State \cup {NoState}, next : 0..MaxCommits]

(* Every field has its type, and the transactions are those committed and  *)
(* not applied.                                                            *)
TypeOK ==
    /\ committed_sequence \in 0..MaxCommits
    /\ DOMAIN transactions \subseteq 1..committed_sequence
    /\ \A n \in DOMAIN transactions :
         /\ DOMAIN Entries(n) \subseteq Surfaces
         /\ \A s \in DOMAIN Entries(n) : Entries(n)[s] \in Entry
         /\ transactions[n].buf_sources \subseteq Surfaces
         /\ transactions[n].target \in 0..MaxTime
    /\ {first_committed, last_committed, applied} \subseteq [Surfaces -> 0..MaxCommits]
    /\ {fifo_barrier, visible} \subseteq [Surfaces -> BOOLEAN]
    /\ barrier_surfaces \in Seq(Surfaces)
    /\ timed \in Seq(DOMAIN transactions)
    /\ candidates \subseteq DOMAIN transactions
    /\ phase \in {"idle", "timed", "barriers"}
    /\ view \in Views
    /\ walk \in Seq(Surfaces)
    /\ scheduled \subseteq Views
    /\ future \in [Views -> SUBSET (1..MaxTime)]
    /\ now \in 0..MaxTime

Queue(s) == {n \in DOMAIN transactions : Touches(n, s)}

(* m is the next of the queue after n, or 0 when there is none. *)
Follows(queue, m, n) ==
    IF m = 0 THEN \A k \in queue : k <= n
    ELSE m \in queue /\ n < m /\ \A k \in queue : k <= n \/ m <= k

(* The list of transactions a surface threads through their entries (from  *)
(* first_committed along next_transaction to last_committed) is the queue  *)
(* of all its transactions in the order they were committed.               *)
ChainsAgree ==
    \A s \in Surfaces :
      /\ Follows(Queue(s), first_committed[s], 0)
      /\ \A n \in Queue(s) : Follows(Queue(s), Entries(n)[s].next, n)
      /\ last_committed[s] \in Queue(s) \cup {0}
      /\ Follows(Queue(s), 0, last_committed[s])

(* When the main loop rests, no transaction that could be applied has been *)
(* left in the queue, but for one whose barrier stopped counting when its  *)
(* surface was hidden: the next update of any view lifts that barrier.     *)
NoneLeftBehind ==
    AtRest => \A n \in DOMAIN transactions :
      Ready(n) => \E s \in DOMAIN Entries(n) :
        /\ Entries(n)[s].state # NoState /\ Entries(n)[s].state.fifo_wait
        /\ fifo_barrier[s] /\ ~visible[s]

(* A surface has a barrier exactly while it is in the compositor's list,   *)
(* and is listed once: meta_wayland_transaction_unblock_surface never      *)
(* warns that it was called for a surface with no fifo_barrier, also when  *)
(* applying a transaction in the midst of an update sets barriers anew.    *)
BarriersListed ==
    /\ \A s \in Surfaces : fifo_barrier[s] <=> s \in Range(barrier_surfaces)
    /\ IsInjective(barrier_surfaces)
    /\ \A i \in DOMAIN walk : fifo_barrier[walk[i]]

(* The timed queue holds exactly the transactions that wait for a time, in *)
(* the order of these times, so that the first that is not due ends the    *)
(* search of clear_time_constraints_for_stage_view_transactions, and none  *)
(* that was applied and freed.                                             *)
TimedExact ==
    /\ Range(timed) = {n \in DOMAIN transactions : transactions[n].target # 0}
    /\ \A j \in DOMAIN timed : \A i \in 1..j - 1 :
         timed[i] # timed[j] /\ transactions[timed[i]].target <= transactions[timed[j]].target

(* The lists that transactions are kept in agree with the transactions:   *)
(* those of the surfaces and the compositor's timed queue.                *)
QueuesExact == TypeOK /\ ChainsAgree /\ TimedExact

(* A time that a transaction waits for is known to some frame clock, or is *)
(* overdue while an update is scheduled or under way or a frame clock has  *)
(* another time to tick for: although a frame clock forgets times without  *)
(* an update, also at the commit that tells it of them, no transaction is  *)
(* left that nothing will unblock.                                         *)
TimedIsDriven ==
    \A n \in DOMAIN transactions :
      transactions[n].target # 0 =>
        \/ \E v \in Views : transactions[n].target \in future[v]
        \/ /\ transactions[n].target <= now
           /\ phase = "timed" \/ scheduled # {} \/ \E v \in Views : future[v] # {}

(* Refuted: a transaction whose time has come is seen to at once.  A frame *)
(* clock told of a time that is past forgets it, and ticks only for the    *)
(* next time that it knows.                                                *)
TimedIsPrompt ==
    \A n \in DOMAIN transactions :
      AtRest /\ transactions[n].target # 0 /\ transactions[n].target <= now =>
        \E v \in Views : v \in scheduled \/ \E t \in future[v] : t <= now

Order == INSTANCE CommitOrder WITH
    count <- committed_sequence,
    waiting <- [n \in DOMAIN transactions |-> DOMAIN Entries(n)],
    shown <- applied

(* Each surface shows its transactions whole and in the order they were    *)
(* committed, each once.                                                   *)
ImplementsCommitOrder == Order!Spec

(* What the main loop, the kernel and the frame clocks see to: callbacks   *)
(* run to their end, buffers become ready (in any order), time passes,     *)
(* scheduled updates take place.  Each can be held up only by another      *)
(* callback, so the fairness is strong: updates may not crowd out the      *)
(* others forever.                                                         *)
Fairness ==
    /\ WF_vars(Internal)
    /\ SF_vars(\E n \in 1..MaxCommits, s \in Surfaces : meta_wayland_transaction_dma_buf_dispatch(n, s))
    /\ \A v \in Views : SF_vars(BeforeUpdate(v))
    /\ SF_vars(Tick)

FairSpec == Spec /\ Fairness

(* Every committed transaction is applied in the end, whether it has to    *)
(* wait for buffers, for a target time that a frame clock may forget, for  *)
(* the transactions before it or for a fifo barrier, if states that set a  *)
(* barrier also draw (the Kinds say so: a barrier alone schedules no       *)
(* update, and a wait for it would depend on other damage to its view).    *)
AllApplied ==
    \A n \in 1..MaxCommits : n \in DOMAIN transactions ~> n \notin DOMAIN transactions
=============================================================================
