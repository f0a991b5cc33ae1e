----------------------------- MODULE MetaThread -----------------------------
(***************************************************************************)
(* MetaThread (src/backends/native/meta-thread.c, meta-thread-impl.c): a   *)
(* queue of tasks that run "in impl", either on a kernel thread of its own *)
(* or, in a user thread, on the main thread; callbacks queued back to main *)
(* contexts; the flush of all callbacks; and the change of thread type,    *)
(* which terminates the old thread, flushes, and starts the new one.       *)
(***************************************************************************)
EXTENDS Naturals, Sequences, FiniteSets, SequencesExt

CONSTANTS
    Others,         \* callback contexts other than the main and impl contexts
    MaxTasks,       \* bound on the tasks posted
    MaxCallbacks,   \* bound on the callbacks queued
    MaxFlushes,     \* bound on explicit flushes
    MaxResets       \* bound on changes of the thread type

ASSUME BoundsAssumption ==
    /\ {MaxTasks, MaxCallbacks, MaxFlushes, MaxResets} \subseteq Nat
    /\ Others \cap {"main", "impl", "none", "task"} = {}

VARIABLES
    type,       \* thread_type: "USER" or "KERNEL"
    resets,     \* changes of the thread type so far
    flushes,    \* explicit flushes so far
    impl,       \* the kernel thread: "running" or "gone"
    task_queue, \* task_queue: tasks, or TERMINATE
    posted,     \* tasks posted so far; a task's id is its number
    ran,        \* ids of the tasks that ran, in order
    callbacks,  \* callback_source->callbacks, per context
    needs_flush,\* callback_source->needs_flush, per context
    pending,    \* what callback_source_dispatch stole, per context
    dispatching,\* inside callback_source_dispatch, per context
    queued,     \* callbacks queued so far; a callback's id is its number
    invoked,    \* ids of the callbacks that ran
    main        \* the main thread

vars == <<type, resets, flushes, impl, task_queue, posted, ran, callbacks,
          needs_flush, pending, dispatching, queued, invoked, main>>

Contexts == {"main", "impl"} \cup Others
TERMINATE == [id |-> 0, then |-> "none"]

Task(id, then) == [id |-> id, then |-> then]

(* The main thread: where it is in meta_thread_flush_callbacks or in the   *)
(* tear-down, what it still has to look at, and the tasks and callbacks    *)
(* there were when it went in.                                             *)
AtLoop == [pc |-> "loop", resetting |-> FALSE, list |-> <<>>, todo |-> {},
           on |-> "none", again |-> FALSE]

Init ==
    /\ type \in {"USER", "KERNEL"}
    /\ resets = 0 /\ flushes = 0
    /\ impl = IF type = "KERNEL" THEN "running" ELSE "gone"
    /\ task_queue = <<>> /\ posted = 0 /\ ran = <<>>
    /\ callbacks = [c \in Contexts |-> <<>>]
    /\ needs_flush = [c \in Contexts |-> FALSE]
    /\ pending = [c \in Contexts |-> <<>>]
    /\ dispatching = [c \in Contexts |-> FALSE]
    /\ queued = 0 /\ invoked = {}
    /\ main = [at |-> AtLoop, tasks |-> 0, callbacks |-> 0, sync |-> 0]

-----------------------------------------------------------------------------
(* Which thread runs the sources of a context. A user thread has its       *)
(* context wrapped into a source of the main loop.                         *)
MainThreadContexts == IF type = "USER" THEN {"main", "impl"} ELSE {"main"}

MainFree ==
    /\ main.at.pc = "loop"
    /\ \A c \in MainThreadContexts : ~dispatching[c]

Runs(c) ==
    IF c \in MainThreadContexts THEN MainFree
    ELSE ~dispatching[c] /\ (c = "impl" => impl = "running")

(* Callbacks there are or that a queued task will queue, for the bound.    *)
Foreseen == queued + Len(SelectSeq(task_queue, LAMBDA t : t.then # "none"))

(* meta_thread_queue_callback, under callbacks_mutex.                      *)
QueueCallback(c) ==
    /\ queued' = queued + 1
    /\ needs_flush' = [needs_flush EXCEPT ![c] = TRUE]
    /\ callbacks' = [callbacks EXCEPT ![c] = Append(@, queued + 1)]

NoCallback == UNCHANGED <<queued, needs_flush, callbacks>>

(* What a callback does besides what it is for: nothing, queue a callback  *)
(* on some context, or post a task.                                        *)
Effect(then) ==
    \/ then = "none" /\ NoCallback /\ UNCHANGED <<task_queue, posted>>
    \/ /\ then \in Contexts
       /\ Foreseen < MaxCallbacks
       /\ QueueCallback(then)
       /\ UNCHANGED <<task_queue, posted>>
    \/ /\ then = "task"
       /\ posted < MaxTasks
       /\ posted' = posted + 1
       /\ task_queue' = Append(task_queue, Task(posted + 1, "none"))
       /\ NoCallback

(* meta_thread_post_impl_task, from the main thread or another one. `then' *)
(* is the context the task's feedback, or the task itself, queues a        *)
(* callback on.                                                            *)
meta_thread_post_impl_task(then) ==
    /\ MainFree \/ \E o \in Others : ~dispatching[o]
    /\ posted < MaxTasks
    /\ then = "none" \/ Foreseen < MaxCallbacks
    /\ posted' = posted + 1
    /\ task_queue' = Append(task_queue, Task(posted + 1, then))
    /\ UNCHANGED <<type, resets, flushes, impl, ran, callbacks, needs_flush,
                   pending, dispatching, queued, invoked, main>>

(* meta_thread_run_impl_task_sync on the main thread: it posts a task with *)
(* a feedback that runs in impl, and waits. In a user thread it dispatches *)
(* tasks itself until its own has run.                                     *)
meta_thread_run_impl_task_sync ==
    /\ MainFree
    /\ posted < MaxTasks
    /\ posted' = posted + 1
    /\ task_queue' = Append(task_queue, Task(posted + 1, "none"))
    /\ main' = [main EXCEPT !.at.pc = "sync", !.sync = posted + 1]
    /\ UNCHANGED <<type, resets, flushes, impl, ran, callbacks, needs_flush,
                   pending, dispatching, queued, invoked>>

SyncDone ==
    /\ main.at.pc = "sync"
    /\ Contains(ran, main.sync)
    /\ main' = [main EXCEPT !.at.pc = "loop", !.sync = 0]
    /\ UNCHANGED <<type, resets, flushes, impl, task_queue, posted, ran,
                   callbacks, needs_flush, pending, dispatching, queued, invoked>>

(* Who calls meta_thread_impl_dispatch: the impl source, after the callback*)
(* source of its context, whose priority is higher; in a user thread also  *)
(* the synchronous call and the tear-down.                                 *)
ImplSourceReadyFirst == Runs("impl") \* mutant: the two sources have equal priority
ImplSourceReady == Runs("impl") /\ ~needs_flush["impl"]
MayDispatch ==
    \/ ImplSourceReady
    \/ /\ type = "USER"
       /\ \/ main.at.pc = "sync" /\ ~Contains(ran, main.sync)
          \/ main.at.pc = "drain"

(* meta_thread_impl_dispatch: run the first task, with its feedback; the   *)
(* TERMINATE marker ends the loop of a kernel thread and, in a user thread,*)
(* the loop of finalize_thread_user.                                       *)
meta_thread_impl_dispatch ==
    /\ MayDispatch
    /\ task_queue # <<>>
    /\ LET task == Head(task_queue) IN
       IF task = TERMINATE
       THEN /\ IF type = "KERNEL"
               THEN impl' = "gone" /\ UNCHANGED main
               ELSE /\ main' = [main EXCEPT !.at.pc = "steal", !.callbacks = queued]
                    /\ UNCHANGED impl
            /\ task_queue' = Tail(task_queue)
            /\ NoCallback /\ UNCHANGED ran
       ELSE /\ ran' = Append(ran, task.id)
            /\ task_queue' = Tail(task_queue)
            /\ IF task.then = "none" THEN NoCallback ELSE QueueCallback(task.then)
            /\ UNCHANGED <<impl, main>>
    /\ UNCHANGED <<type, resets, flushes, posted, pending, dispatching, invoked>>

-----------------------------------------------------------------------------
(* Mutant: flushed is said when the list is stolen, before it has run.     *)
StealCallbacksFlushed(c) ==
    /\ Runs(c)
    /\ needs_flush[c]
    /\ pending' = [pending EXCEPT ![c] = callbacks[c]]
    /\ callbacks' = [callbacks EXCEPT ![c] = <<>>]
    /\ dispatching' = [dispatching EXCEPT ![c] = TRUE]
    /\ needs_flush' = [needs_flush EXCEPT ![c] = FALSE]
    /\ UNCHANGED <<type, resets, flushes, impl, task_queue, posted, ran,
                   queued, invoked, main>>

(* callback_source_dispatch: steal the list, run it with no lock held, and *)
(* then, under the lock, either stay ready or say that all is flushed.     *)
StealCallbacks(c) ==
    /\ Runs(c)
    /\ needs_flush[c]
    /\ pending' = [pending EXCEPT ![c] = callbacks[c]]
    /\ callbacks' = [callbacks EXCEPT ![c] = <<>>]
    /\ dispatching' = [dispatching EXCEPT ![c] = TRUE]
    /\ UNCHANGED <<type, resets, flushes, impl, task_queue, posted, ran,
                   needs_flush, queued, invoked, main>>

(* What a callback of context c does: nothing, queue a callback on another *)
(* context (never on impl, whose callbacks only tasks queue), or, on the   *)
(* main thread, post a task.                                               *)
Reactions(c) == {"none", "main"} \cup Others \cup (IF c = "main" THEN {"task"} ELSE {})

DispatchCallback(c, then) ==
    /\ dispatching[c] /\ pending[c] # <<>>
    /\ invoked' = invoked \cup {Head(pending[c])}
    /\ pending' = [pending EXCEPT ![c] = Tail(@)]
    /\ Effect(then)
    /\ UNCHANGED <<type, resets, flushes, impl, ran, dispatching, main>>

AfterDispatch(c) == callbacks[c] # <<>>

CallbacksDispatched(c) ==
    /\ dispatching[c] /\ pending[c] = <<>>
    /\ needs_flush' = [needs_flush EXCEPT ![c] = AfterDispatch(c)]
    /\ dispatching' = [dispatching EXCEPT ![c] = FALSE]
    /\ UNCHANGED <<type, resets, flushes, impl, task_queue, posted, ran, callbacks,
                   pending, queued, invoked, main>>

-----------------------------------------------------------------------------
(* meta_thread_flush_callbacks, always on the main thread.                 *)
meta_thread_flush_callbacks ==
    /\ MainFree
    /\ flushes < MaxFlushes
    /\ flushes' = flushes + 1
    /\ main' = [main EXCEPT !.at.pc = "steal", !.callbacks = queued]
    /\ UNCHANGED <<type, resets, impl, task_queue, posted, ran, callbacks,
                   needs_flush, pending, dispatching, queued, invoked>>

FlushSteal ==
    /\ main.at.pc = "steal"
    /\ main' = [main EXCEPT !.at.pc = "run", !.at.again = FALSE,
                  !.at.list = callbacks["main"] \o
                     (IF type = "USER" THEN callbacks["impl"] ELSE <<>>)]
    /\ callbacks' = [c \in Contexts |->
                       IF c \in MainThreadContexts THEN <<>> ELSE callbacks[c]]
    /\ UNCHANGED <<type, resets, flushes, impl, task_queue, posted, ran,
                   needs_flush, pending, dispatching, queued, invoked>>

FlushRun(then) ==
    /\ main.at.pc = "run" /\ main.at.list # <<>>
    /\ invoked' = invoked \cup {Head(main.at.list)}
    /\ main' = [main EXCEPT !.at.list = Tail(@), !.at.again = TRUE]
    /\ Effect(then)
    /\ UNCHANGED <<type, resets, flushes, impl, ran, pending, dispatching>>

FlushRan ==
    /\ main.at.pc = "run" /\ main.at.list = <<>>
    /\ main' = [main EXCEPT !.at.pc = "wait",
                            !.at.todo = Contexts \ MainThreadContexts]
    /\ UNCHANGED <<type, resets, flushes, impl, task_queue, posted, ran,
                   callbacks, needs_flush, pending, dispatching, queued, invoked>>

(* The sources of other threads, in the order of a hash table: wait on the *)
(* condition while one needs a flush, and then start over.                 *)
FlushBlock(c) ==
    /\ main.at.pc = "wait" /\ c \in main.at.todo /\ main.at.on = "none"
    /\ needs_flush[c]
    /\ main' = [main EXCEPT !.at.on = c, !.at.again = TRUE]
    /\ UNCHANGED <<type, resets, flushes, impl, task_queue, posted, ran,
                   callbacks, needs_flush, pending, dispatching, queued, invoked>>

FlushPass(c) ==
    /\ main.at.pc = "wait" /\ c \in main.at.todo /\ main.at.on \in {"none", c}
    /\ ~needs_flush[c]
    /\ main' = [main EXCEPT !.at.on = "none", !.at.todo = @ \ {c}]
    /\ UNCHANGED <<type, resets, flushes, impl, task_queue, posted, ran,
                   callbacks, needs_flush, pending, dispatching, queued, invoked>>

FlushAgain ==
    /\ main.at.pc = "wait" /\ main.at.todo = {}
    /\ main.at.again
    /\ main' = [main EXCEPT !.at.pc = "steal"]
    /\ UNCHANGED <<type, resets, flushes, impl, task_queue, posted, ran,
                   callbacks, needs_flush, pending, dispatching, queued, invoked>>

(* The end of the flush; in meta_thread_reset_thread_type the new thread   *)
(* is started right after it.                                              *)
FlushDone ==
    /\ main.at.pc = "wait" /\ main.at.todo = {}
    /\ ~main.at.again
    /\ main' = [main EXCEPT !.at = AtLoop]
    /\ IF main.at.resetting
       THEN /\ type' = IF type = "USER" THEN "KERNEL" ELSE "USER"
            /\ impl' = IF type = "USER" THEN "running" ELSE "gone"
       ELSE UNCHANGED <<type, impl>>
    /\ UNCHANGED <<resets, flushes, task_queue, posted, ran, callbacks,
                   needs_flush, pending, dispatching, queued, invoked>>

-----------------------------------------------------------------------------
MarkedFirst == <<TERMINATE>> \o task_queue \* mutant: the marker overtakes tasks
Marked == Append(task_queue, TERMINATE) \* meta_thread_impl_terminate

(* meta_thread_reset_thread_type to the other type, as far as tear_down's  *)
(* finalize_thread_user or finalize_thread_kernel: both push the marker;   *)
(* the first then dispatches what is queued, the second joins the thread.  *)
meta_thread_reset_thread_type ==
    /\ MainFree
    /\ resets < MaxResets
    /\ resets' = resets + 1
    /\ task_queue' = Marked
    /\ main' = [main EXCEPT !.at.resetting = TRUE, !.tasks = posted,
                            !.at.pc = IF type = "USER" THEN "drain" ELSE "join"]
    /\ UNCHANGED <<type, flushes, impl, posted, ran, callbacks, needs_flush,
                   pending, dispatching, queued, invoked>>

Joined ==
    /\ main.at.pc = "join" /\ impl = "gone"
    /\ main' = [main EXCEPT !.at.pc = "steal", !.callbacks = queued]
    /\ UNCHANGED <<type, resets, flushes, impl, task_queue, posted, ran,
                   callbacks, needs_flush, pending, dispatching, queued, invoked>>

-----------------------------------------------------------------------------
FlushStep ==
    \/ FlushSteal \/ FlushRan \/ FlushAgain \/ FlushDone
    \/ \E then \in Reactions("main") : FlushRun(then)
    \/ \E c \in Contexts : FlushBlock(c) \/ FlushPass(c)

SourceStep(c) ==
    \/ StealCallbacks(c) \/ CallbacksDispatched(c)
    \/ \E then \in Reactions(c) : DispatchCallback(c, then)

Next ==
    \/ \E then \in Contexts \cup {"none"} : meta_thread_post_impl_task(then)
    \/ meta_thread_run_impl_task_sync \/ SyncDone
    \/ meta_thread_impl_dispatch
    \/ \E c \in Contexts : SourceStep(c)
    \/ meta_thread_flush_callbacks \/ FlushStep
    \/ meta_thread_reset_thread_type \/ Joined

Spec == Init /\ [][Next]_vars

(* Every thread keeps running its main loop, and the main thread goes on   *)
(* with the call it is in.                                                 *)
FairSpec ==
    /\ Spec
    /\ WF_vars(SyncDone) /\ WF_vars(Joined) /\ WF_vars(FlushStep)
    /\ WF_vars(meta_thread_impl_dispatch)
    /\ \A c \in Contexts : WF_vars(SourceStep(c))

-----------------------------------------------------------------------------
(* Type invariant. A user thread has no kernel thread but may find the old *)
(* one's marker nowhere: at most one TERMINATE is queued, in a tear-down.  *)
TypeOK ==
    /\ type \in {"USER", "KERNEL"} /\ impl \in {"running", "gone"}
    /\ (type = "USER" => impl = "gone")
    /\ Cardinality({i \in DOMAIN task_queue : task_queue[i] = TERMINATE})
         = IF main.at.pc = "drain" \/ (main.at.pc = "join" /\ impl = "running") THEN 1 ELSE 0
    /\ \A c \in Contexts : callbacks[c] # <<>> \/ dispatching[c] => needs_flush[c]
    /\ \A c \in Contexts : pending[c] # <<>> => dispatching[c]
    /\ invoked \subseteq 1..queued /\ ran = [i \in 1..Len(ran) |-> i]

(* A flush returns only when every callback that was queued on any context *)
(* when it was called has run to its end: meta_thread_flush_callbacks      *)
(* waits for the sources of other threads, whose callbacks may be stolen   *)
(* already, and starts over while it finds work (meta-thread.c:957-1022).  *)
FlushedBefore ==
    main.at.pc = "loop" /\ main.sync = 0 => 1..main.callbacks \subseteq invoked

(* The type invariant and what a flush promises.                           *)
FlushInv == TypeOK /\ FlushedBefore

(* A change of thread type hands nothing over: when the new thread starts, *)
(* every task posted before the change has run in the old one, and so have *)
(* the callbacks the tasks queued for the old thread itself.               *)
NothingCrossesReset ==
    [][main.at.resetting /\ ~main'.at.resetting =>
         /\ 1..main.tasks \subseteq Range(ran)
         /\ callbacks["impl"] = <<>> /\ pending["impl"] = <<>>]_vars

(* Whatever the main thread waits for comes: a synchronous task, the end   *)
(* of the old thread and the end of a flush.                               *)
MainComesBack == main.at.pc # "loop" ~> main.at.pc = "loop"

(* Every callback runs in the end, also one that is queued while its       *)
(* source is being dispatched, flushed or moved to another thread.         *)
CallbacksRun == \A i \in 1..MaxCallbacks : queued >= i ~> i \in invoked

(* Neither the main thread in one of its waits nor a queued callback waits *)
(* forever, whatever is queued, flushed and torn down meanwhile.           *)
NobodyWaitsForever == MainComesBack /\ CallbacksRun
=============================================================================
