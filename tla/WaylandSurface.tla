---------------------------- MODULE WaylandSurface ----------------------------
(***************************************************************************)
(* How the requests of a client become transactions: wl_surface.commit,    *)
(* the states cached for synchronized sub-surfaces, changes of mode and of *)
(* the surface tree (src/wayland/meta-wayland-surface.c,                   *)
(* meta-wayland-subsurface.c and the merging in                            *)
(* meta-wayland-transaction.c).                                            *)
(*                                                                         *)
(* Committed transactions are applied as CommitOrder allows, which         *)
(* WaylandTransaction implements.  A state is the number of the commit it  *)
(* comes from and what merging treats in its own way: the buffer and its   *)
(* acquire point (both named by the commit), the placement operations and  *)
(* the target time.  The stacking of siblings is kept in committed_state   *)
(* only, where it is the order in which children are merged.               *)
(*                                                                         *)
(* Environment: the requests of a client that makes no mistakes, and when  *)
(* acquire points are signalled.                                           *)
(***************************************************************************)
EXTENDS Naturals, Sequences, FiniteSets, FiniteSetsExt, SequencesExt

CONSTANTS
    Toplevel,        \* the surface with an xdg_toplevel
    Subsurfaces,     \* surfaces that have, or had, the sub-surface role
    None,
    InitialParent,   \* the tree the client has mapped
    Clients,         \* what clients may make use of, see client
    MaxCommits,      \* bound: commits
    MaxTimedCommits, \* bound: commits of a client that uses acquire points or target times
    MaxTreeChanges   \* bound: changes of the tree

Surfaces == Subsurfaces \cup {Toplevel}

(* The surfaces from s up to its root: those in every set that has s and,  *)
(* with a surface, its parent.                                             *)
ClosedUp(parent, X) == \A x \in X : parent[x] # None => parent[x] \in X
Ancestors(parent, s) ==
    {x \in Surfaces : \A X \in SUBSET Surfaces : s \in X /\ ClosedUp(parent, X) => x \in X}

ASSUME SurfaceAssumption ==
    /\ IsFiniteSet(Subsurfaces) /\ Toplevel \notin Subsurfaces /\ None \notin Surfaces
    /\ InitialParent \in [Surfaces -> Surfaces \cup {None}]
    /\ InitialParent[Toplevel] = None
    /\ \A s \in Surfaces : InitialParent[s] # None => s \notin Ancestors(InitialParent, InitialParent[s])
    /\ Clients \subseteq SUBSET {"syncobj", "timing", "reparents"}
    /\ {MaxCommits, MaxTimedCommits, MaxTreeChanges} \subseteq Nat

VARIABLES
    commits,       \* commits so far
    changes,       \* changes of the tree so far
    pending,       \* surface->pending_state: its placement operations and target time
    transaction,   \* surface->sub.transaction, << >> when NULL
    synchronous,   \* surface->sub.synchronous
    committed,     \* surface->committed_state.parent
    stack,         \* the children of committed_state.subsurface_branch_node, itself included
    applied,       \* surface->applied_state.parent
    queue,         \* transactions committed and not applied, in order
    content,       \* the commit whose content each surface shows
    buffer,        \* the commit whose buffer each surface shows
    latest,        \* the last commit of each surface
    signalled,     \* acquire points that are signalled
    error,         \* a protocol error was posted: the client is gone
    client         \* whether the client uses explicit synchronization and target
                   \* times, and takes sub-surfaces from their parents

treeVars == <<synchronous, committed, stack>>
appliedVars == <<applied, content, buffer>>
vars == <<commits, changes, pending, transaction, treeVars, appliedVars, queue, latest, signalled, error, client>>
-----------------------------------------------------------------------------
(* An entry: the commit its state comes from (0 without a state), the      *)
(* commits of its buffer and acquire point, its placement operations and   *)
(* has_target_time.                                                        *)
NoEntry == [commit |-> 0, buffer |-> 0, acquire |-> 0, ops |-> << >>, timed |-> FALSE]
HasState(e) == e.commit # 0 \/ e.ops # << >>

Init ==
    /\ commits = 0 /\ changes = 0
    /\ pending = [s \in Surfaces |-> [ops |-> << >>, timed |-> FALSE]]
    /\ transaction = [s \in Surfaces |-> << >>]
    /\ synchronous = [s \in Surfaces |-> s \in Subsurfaces]
    /\ committed = InitialParent
    /\ stack = [s \in Surfaces |-> <<s>> \o SetToSeq({c \in Subsurfaces : InitialParent[c] = s})]
    /\ applied = InitialParent
    /\ queue = << >>
    /\ content = [s \in Surfaces |-> 0]
    /\ buffer = [s \in Surfaces |-> 0]
    /\ latest = [s \in Surfaces |-> 0]
    /\ signalled = {}
    /\ error = FALSE
    /\ client \in Clients

is_same_or_ancestor(s) == Ancestors(committed, s)

Synchronized(sync, s) ==
    \E x \in is_same_or_ancestor(s) \cap Subsurfaces : sync[x] \/ committed[x] = None

meta_wayland_subsurface_is_synchronized(s) == Synchronized(synchronous, s)
-----------------------------------------------------------------------------
(* Mutant of state_merge_into: the older state wins. *)
state_merge_into_swapped(from, to) ==
    [from EXCEPT !.commit = to.commit]

(* meta_wayland_surface_state_merge_into, as far as it differs by field:   *)
(* the acquire point is taken over even without a buffer, the target time  *)
(* is not.                                                                 *)
meta_wayland_surface_state_merge_into(from, to) ==
    [commit |-> from.commit,
     buffer |-> IF from.buffer # 0 THEN from.buffer ELSE to.buffer,
     acquire |-> from.acquire,
     ops |-> to.ops \o from.ops,
     timed |-> to.timed]

meta_wayland_transaction_entry_merge_into(from, to) ==
    IF ~HasState(from) THEN to
    ELSE IF ~HasState(to) THEN from
    ELSE meta_wayland_surface_state_merge_into(from, to)

meta_wayland_transaction_merge_into(from, to) ==
    [s \in DOMAIN from \cup DOMAIN to |->
       IF s \notin DOMAIN to THEN from[s]
       ELSE IF s \notin DOMAIN from THEN to[s]
       ELSE meta_wayland_transaction_entry_merge_into(from[s], to[s])]

EntryOf(t, s) == IF s \in DOMAIN t THEN t[s] ELSE NoEntry
With(t, s, e) == [r \in DOMAIN t \cup {s} |-> IF r = s THEN e ELSE t[r]]

(* A transaction also has entries for the surfaces its placement           *)
(* operations mention.                                                     *)
meta_wayland_transaction_add_placement_surfaces(t) ==
    LET ops == UNION {Range(t[s].ops) : s \in DOMAIN t}
        named == ({op.surface : op \in ops} \cup {op.sibling : op \in ops}) \ {None}
    IN  [s \in DOMAIN t \cup named |-> EntryOf(t, s)]

Position(seq, x) == CHOOSE i \in DOMAIN seq : seq[i] = x
Unlink(seq, x) == IF x \in Range(seq) THEN RemoveAt(seq, Position(seq, x)) ELSE seq

(* The children's cached transactions join the one of their parent, from   *)
(* the lowest child to the highest.                                        *)
MergeChildren(s, t) ==
    FoldLeft(LAMBDA acc, c : meta_wayland_transaction_merge_into(transaction[c], acc),
             t, Unlink(stack[s], s))

(* wl_surface.commit: with or without a newly attached buffer, and with or *)
(* without a target time set since the last commit.  A second target time  *)
(* on one pending state is a protocol error.                               *)
meta_wayland_surface_commit(s, attach, stamp) ==
    LET n == commits + 1
        state == [commit |-> n,
                  buffer |-> IF attach THEN n ELSE 0,
                  acquire |-> IF attach /\ "syncobj" \in client THEN n ELSE 0,
                  ops |-> pending[s].ops,
                  timed |-> stamp \/ pending[s].timed]
        cached == meta_wayland_subsurface_is_synchronized(s)
        base == IF cached THEN transaction[s] ELSE << >>
        fresh == ~HasState(EntryOf(base, s))
        merged == With(base, s, IF fresh THEN state
                                ELSE meta_wayland_surface_state_merge_into(state, base[s]))
        whole == MergeChildren(s, merged)
    IN  /\ ~error
        /\ n <= IF client \cap {"syncobj", "timing"} = {} THEN MaxCommits ELSE MaxTimedCommits
        /\ IF stamp /\ pending[s].timed
           THEN /\ error' = TRUE
                /\ UNCHANGED <<commits, changes, pending, transaction, treeVars, appliedVars,
                               queue, latest, signalled, client>>
           ELSE /\ commits' = n
                /\ latest' = [latest EXCEPT ![s] = n]
                /\ pending' = [pending EXCEPT ![s] = [ops |-> << >>,
                                                      timed |-> ~fresh /\ state.timed]]
                /\ transaction' = [c \in Surfaces |->
                                     IF c = s /\ cached THEN whole
                                     ELSE IF committed[c] = s THEN << >>
                                     ELSE transaction[c]]
                /\ queue' = IF cached THEN queue
                            ELSE Append(queue, meta_wayland_transaction_add_placement_surfaces(whole))
                /\ UNCHANGED <<changes, treeVars, appliedVars, signalled, error, client>>

(* Commits without a buffer differ only where acquire points are used. *)
Commit(s) ==
    \E attach \in BOOLEAN, stamp \in BOOLEAN :
      /\ attach \/ "syncobj" \in client
      /\ stamp => "timing" \in client
      /\ meta_wayland_surface_commit(s, attach, stamp)
-----------------------------------------------------------------------------
(* A change of the tree that the client may still make. *)
ClientChange ==
    /\ ~error
    /\ changes < MaxTreeChanges
    /\ changes' = changes + 1

(* The position of a sub-surface is cached, whatever its mode. *)
wl_subsurface_set_position(s) ==
    /\ ClientChange
    /\ committed[s] # None
    /\ transaction' = [transaction EXCEPT ![s] = With(transaction[s], s, EntryOf(transaction[s], s))]
    /\ UNCHANGED <<commits, pending, treeVars, appliedVars, queue, latest, signalled, error, client>>

wl_subsurface_set_sync(s) ==
    /\ ClientChange
    /\ committed[s] # None
    /\ synchronous' = [synchronous EXCEPT ![s] = TRUE]
    /\ UNCHANGED <<commits, pending, transaction, committed, stack, appliedVars, queue, latest, signalled, error, client>>

(* Mutant of Desynced: the children keep what they have cached. *)
DesyncedAlone(sync, s) == {s}

(* The surfaces parent_desynced visits: s and, below it, those reached     *)
(* without passing a synchronous one.                                      *)
Desynced(sync, s) ==
    {c \in Subsurfaces :
       /\ s \in is_same_or_ancestor(c)
       /\ \A x \in is_same_or_ancestor(c) : s \in is_same_or_ancestor(x) => ~sync[x]}

(* Mutant of DesyncOrders: children first. *)
DesyncOrdersUpwards(D) ==
    {o \in SetToSeqs(D) : \A i, j \in DOMAIN o : i < j => o[i] \notin is_same_or_ancestor(o[j])}

(* It commits their cached transactions, a parent's before its children's. *)
DesyncOrders(D) ==
    {o \in SetToSeqs(D) : \A i, j \in DOMAIN o : i < j => o[j] \notin is_same_or_ancestor(o[i])}

wl_subsurface_set_desync(s) ==
    LET sync == [synchronous EXCEPT ![s] = FALSE]
        D == IF Synchronized(sync, s) THEN {}
             ELSE {c \in Desynced(sync, s) : transaction[c] # << >>}
    IN  /\ ClientChange
        /\ committed[s] # None
        /\ synchronous[s]
        /\ synchronous' = sync
        /\ \E o \in DesyncOrders(D) :
             queue' = queue \o [i \in DOMAIN o |-> meta_wayland_transaction_add_placement_surfaces(transaction[o[i]])]
        /\ transaction' = [c \in Surfaces |-> IF c \in D THEN << >> ELSE transaction[c]]
        /\ UNCHANGED <<commits, pending, committed, stack, appliedVars, latest, signalled, error, client>>

(* Mutant of Unlinked: s stays where it was. *)
UnlinkedNot(s) == stack

Unlinked(s) == [p \in Surfaces |-> IF p = s THEN stack[p] ELSE Unlink(stack[p], s)]

(* get_subsurface_placement_op: s moves at once in the committed stack, and *)
(* the operation waits in the pending state of the parent.                 *)
PlaceBeside(s, parent, sibling, above) ==
    LET rest == Unlinked(s)
        at == Position(rest[parent], sibling)
    IN  /\ stack' = [rest EXCEPT ![parent] = InsertAt(@, IF above THEN at + 1 ELSE at, s)]
        /\ pending' = [pending EXCEPT ![parent].ops =
                         Append(@, [surface |-> s, parent |-> parent, sibling |-> sibling])]

(* wl_subsurface.place_above and place_below. *)
subsurface_place(s, above) ==
    /\ ClientChange
    /\ committed[s] # None
    /\ \E sibling \in Range(stack[committed[s]]) \ {s} : PlaceBeside(s, committed[s], sibling, above)
    /\ UNCHANGED <<commits, transaction, synchronous, committed, appliedVars, queue, latest, signalled, error, client>>

wl_subcompositor_get_subsurface(s, parent) ==
    /\ ClientChange
    /\ committed[s] = None
    /\ s \notin is_same_or_ancestor(parent)
    /\ synchronous' = [synchronous EXCEPT ![s] = TRUE]
    /\ committed' = [committed EXCEPT ![s] = parent]
    /\ PlaceBeside(s, parent, Last(stack[parent]), TRUE)
    /\ UNCHANGED <<commits, transaction, appliedVars, queue, latest, signalled, error, client>>

(* wl_subsurface.destroy: a transaction of its own unmaps the sub-surface, *)
(* past everything that is cached or pending.                              *)
permanently_unmap_subsurface(s) ==
    LET op == [surface |-> s, parent |-> None, sibling |-> None]
    IN  /\ ClientChange
        /\ "reparents" \in client
        /\ committed[s] # None
        /\ stack' = Unlinked(s)
        /\ queue' = Append(queue, [r \in {s, committed[s]} |->
                                     IF r = s THEN NoEntry ELSE [NoEntry EXCEPT !.ops = <<op>>]])
        /\ committed' = [committed EXCEPT ![s] = None]
        /\ UNCHANGED <<commits, pending, transaction, synchronous, appliedVars, latest, signalled, error, client>>
-----------------------------------------------------------------------------
(* An acquire point that a queued transaction waits for is signalled; one  *)
(* that was signalled before is as if it were now.                         *)
Signal(n) ==
    /\ \E i \in DOMAIN queue : \E s \in DOMAIN queue[i] : queue[i][s].acquire = n
    /\ n \notin signalled
    /\ signalled' = signalled \cup {n}
    /\ UNCHANGED <<commits, changes, pending, transaction, treeVars, appliedVars, queue, latest, error, client>>

(* The parents the placement operations of t leave s with.  The entries of *)
(* a transaction are gone through in no particular order.                  *)
ParentsAfter(t, s) ==
    LET mine(r) == SelectSeq(t[r].ops, LAMBDA op : op.surface = s)
        moves == {r \in DOMAIN t : mine(r) # << >>}
    IN  IF moves = {} THEN {applied[s]}
        ELSE {LET op == Last(mine(r)) IN IF op.sibling = None THEN None ELSE r : r \in moves}

(* The i-th transaction is applied: its acquire points are signalled and   *)
(* no earlier one has an entry for the same surface.                       *)
meta_wayland_transaction_apply(i) ==
    LET t == queue[i]
    IN  /\ \A s \in DOMAIN t : t[s].acquire \in signalled \cup {0}
        /\ \A j \in 1..(i - 1) : DOMAIN queue[j] \cap DOMAIN t = {}
        /\ queue' = RemoveAt(queue, i)
        /\ applied' \in {f \in [Surfaces -> Surfaces \cup {None}] : \A s \in Surfaces : f[s] \in ParentsAfter(t, s)}
        /\ content' = [s \in Surfaces |-> IF s \in DOMAIN t /\ t[s].commit # 0 THEN t[s].commit ELSE content[s]]
        /\ buffer' = [s \in Surfaces |-> IF s \in DOMAIN t /\ t[s].buffer # 0 THEN t[s].buffer ELSE buffer[s]]
        /\ UNCHANGED <<commits, changes, pending, transaction, treeVars, latest, signalled, error, client>>

Next ==
    \/ \E s \in Surfaces : Commit(s)
    \/ \E s \in Subsurfaces :
         \/ wl_subsurface_set_position(s)
         \/ wl_subsurface_set_sync(s)
         \/ wl_subsurface_set_desync(s)
         \/ \E above \in BOOLEAN : subsurface_place(s, above)
         \/ permanently_unmap_subsurface(s)
         \/ \E parent \in Surfaces : wl_subcompositor_get_subsurface(s, parent)
    \/ \E n \in 1..commits : Signal(n)
    \/ \E i \in DOMAIN queue : meta_wayland_transaction_apply(i)

Spec == Init /\ [][Next]_vars
-----------------------------------------------------------------------------
(* A sub-surface is linked into the stack of its committed parent, once,   *)
(* and into no other, each surface being first of all in its own: what a   *)
(* commit merges are the caches of exactly its children.                   *)
TreeAgrees ==
    \A p \in Surfaces :
      /\ IsInjective(stack[p])
      /\ Range(stack[p]) = {p} \cup {c \in Subsurfaces : committed[c] = p}

Cached(s) == {r \in Surfaces : s \in DOMAIN transaction[r] /\ transaction[r][s].commit # 0}
Queued(s) == {i \in DOMAIN queue : s \in DOMAIN queue[i] /\ queue[i][s].commit # 0}

(* The last commit of a surface is on screen, queued or cached, however    *)
(* often it was merged on the way, as long as the client takes no          *)
(* sub-surface from its parent.                                            *)
NothingLost ==
    "reparents" \notin client => \A s \in Surfaces :
      latest[s] \in {content[s]} \cup {queue[i][s].commit : i \in Queued(s)}
                                \cup {transaction[r][s].commit : r \in Cached(s)}

(* A state is cached only where a commit of a parent or a change of mode   *)
(* will release it: set_desync on a surface releases what is cached on all *)
(* the surfaces below that it makes effectively desynchronized.            *)
CachedOnlyIfSynchronized ==
    \A r \in Surfaces :
      (\E s \in Surfaces : r \in Cached(s)) => meta_wayland_subsurface_is_synchronized(r)

GoesForward == \A s \in Surfaces : content'[s] >= content[s]

(* A surface never goes back to the content of an earlier commit, in       *)
(* particular not when cached states are released in several transactions, *)
(* as long as the client takes no sub-surface from its parent.             *)
NeverGoesBack == []["reparents" \notin client => GoesForward]_vars

(* "A new commit indicates a new content update, so any previous content   *)
(* update did not go on screen and needs to be discarded."                 *)
AlwaysGoesForward == [][GoesForward]_vars

(* A buffer is shown only once its acquire point is signalled, also when   *)
(* its state was merged with later ones.                                   *)
ShownBuffersAreReady ==
    "syncobj" \in client => \A s \in Surfaces : buffer[s] \in signalled \cup {0}

(* The client sets one target time per commit, so it never meets the error *)
(* that a commit already has one.                                          *)
NoSpuriousError == ~error

(* Once nothing concerning a sub-surface that was unmapped is queued, it   *)
(* has no parent on the applied side either.                               *)
UnmappedStaysUnmapped ==
    \A s \in Subsurfaces :
      (committed[s] = None /\ \A i \in DOMAIN queue : s \notin DOMAIN queue[i]) => applied[s] = None
=============================================================================
