--------------------------- MODULE MetaThreadProofs ---------------------------
(***************************************************************************)
(* What MetaThread promises of flushes and of changes of the thread type,  *)
(* for any contexts and any number of tasks, callbacks, flushes and        *)
(* changes; and what KmsScheduling promises of the priority of the thread, *)
(* for any number of devices and any preferred priority, as long as the    *)
(* thread type was never changed.                                          *)
(***************************************************************************)
EXTENDS MetaThread, KmsScheduling, FiniteSetTheorems, SequenceTheorems, TLAPS

Tasks == [id : Nat, then : Contexts \cup {"none"}]

Ats == [pc : {"loop", "sync", "drain", "join", "steal", "run", "wait"},
        resetting : BOOLEAN, list : Seq(Nat), todo : SUBSET Contexts,
        on : Contexts \cup {"none"}, again : BOOLEAN]

Mains == [at : Ats, tasks : Nat, callbacks : Nat, sync : Nat]

Fields ==
    /\ type \in {"USER", "KERNEL"} /\ impl \in {"running", "gone"}
    /\ task_queue \in Seq(Tasks) /\ posted \in Nat /\ ran \in Seq(Nat)
    /\ callbacks \in [Contexts -> Seq(Nat)] /\ pending \in [Contexts -> Seq(Nat)]
    /\ needs_flush \in [Contexts -> BOOLEAN] /\ dispatching \in [Contexts -> BOOLEAN]
    /\ queued \in Nat /\ invoked \in SUBSET Nat
    /\ main \in Mains

(* Tasks run in the order they were posted. While a thread is torn down    *)
(* one marker is queued, after the tasks posted before the tear-down and   *)
(* before those that other threads post meanwhile.                         *)
Marking == main.at.pc = "drain" \/ (main.at.pc = "join" /\ impl = "running")

Mark == main.tasks - Len(ran) + 1

Numbered ==
    IF Marking
    THEN /\ Mark \in 1..Len(task_queue)
         /\ task_queue[Mark] = TERMINATE
         /\ \A i \in 1..Len(task_queue) : i # Mark =>
              task_queue[i].id = Len(ran) + (IF i < Mark THEN i ELSE i - 1)
         /\ posted = Len(ran) + Len(task_queue) - 1
    ELSE /\ \A i \in 1..Len(task_queue) : task_queue[i].id = Len(ran) + i
         /\ posted = Len(ran) + Len(task_queue)
         /\ main.at.resetting => main.tasks <= Len(ran)

TasksInv == ran = [i \in 1..Len(ran) |-> i] /\ Numbered

(* A source that has callbacks, or is running them, is known to need a     *)
(* flush.                                                                  *)
SourcesInv ==
    /\ \A c \in Contexts : callbacks[c] # <<>> \/ dispatching[c] => needs_flush[c]
    /\ \A c \in Contexts : pending[c] # <<>> => dispatching[c]

(* Where the main thread can be, and what else then stands still: it is in *)
(* one call at a time, and the old kernel thread leaves nothing behind.    *)
PhaseInv ==
    /\ type = "USER" => impl = "gone"
    /\ type = "KERNEL" /\ impl = "gone" =>
         /\ main.at.resetting /\ main.at.pc \in {"join", "steal", "run", "wait"}
         /\ ~needs_flush["impl"]
    /\ main.at.pc = "drain" => type = "USER" /\ main.at.resetting
    /\ main.at.pc = "join" => type = "KERNEL" /\ main.at.resetting
    /\ main.at.pc \in {"loop", "sync"} => ~main.at.resetting
    /\ main.at.resetting /\ main.at.pc # "join" => impl = "gone"
    /\ main.at.pc # "loop" => \A c \in MainThreadContexts : ~dispatching[c]
    /\ main.at.resetting /\ main.at.pc \in {"run", "wait"} => callbacks["impl"] = <<>>

(* Every callback has run, or is in one list. Those there were when a      *)
(* flush began are found by it: none is left behind in a context it has    *)
(* dealt with.                                                             *)
Holds(c) == Range(callbacks[c]) \cup Range(pending[c])

Accounted ==
    \A i : i \in 1..queued <=> \/ i \in invoked \/ i \in Range(main.at.list)
                              \/ \E c \in Contexts : i \in Holds(c)

Clean(c) == \A i \in Holds(c) : i > main.callbacks

FlushProgress ==
    /\ main.callbacks <= queued
    /\ main.at.pc # "run" => main.at.list = <<>>
    /\ main.at.pc \in {"run", "wait"} => \A c \in MainThreadContexts : Clean(c)
    /\ main.at.pc = "wait" => \A c \in Contexts \ main.at.todo : Clean(c)
    /\ main.at.pc \in {"loop", "sync", "drain", "join"} => 1..main.callbacks \subseteq invoked

ThreadInv == Fields /\ TasksInv /\ SourcesInv /\ PhaseInv /\ Accounted /\ FlushProgress

-----------------------------------------------------------------------------
(* What the elements of a list become. *)
LEMMA RangeAppend ==
    ASSUME NEW S, NEW s \in Seq(S), NEW e \in S
    PROVE  Append(s, e) \in Seq(S) /\ Range(Append(s, e)) = Range(s) \cup {e}
<1> DEFINE a == Append(s, e)
<1>1. /\ a \in Seq(S) /\ Len(a) = Len(s) + 1 /\ Len(s) \in Nat
      /\ DOMAIN s = 1..Len(s) /\ DOMAIN a = 1..Len(s) + 1
      /\ \A i \in 1..Len(s) : a[i] = s[i]
      /\ a[Len(s) + 1] = e
  BY AppendProperties, LenProperties
<1> HIDE DEF a
<1>2. \A x \in Range(a) : x \in Range(s) \cup {e}
  BY <1>1 DEF Range
<1>3. \A x \in Range(s) \cup {e} : x \in Range(a)
  BY <1>1 DEF Range
<1> QED BY <1>1, <1>2, <1>3 DEF a

LEMMA RangeTail ==
    ASSUME NEW S, NEW s \in Seq(S), s # <<>>
    PROVE  /\ Head(s) \in S /\ Tail(s) \in Seq(S)
           /\ Range(s) = {Head(s)} \cup Range(Tail(s))
<1> DEFINE t == Tail(s)
<1>1. /\ t \in Seq(S) /\ Len(t) = Len(s) - 1 /\ Len(s) \in Nat \ {0}
      /\ DOMAIN s = 1..Len(s) /\ DOMAIN t = 1..Len(t)
      /\ \A i \in 1..Len(t) : t[i] = s[i + 1]
      /\ Head(s) = s[1] /\ Head(s) \in S
  BY HeadTailProperties, LenProperties, EmptySeq
<1> HIDE DEF t
<1>2. \A x \in Range(s) : x \in {Head(s)} \cup Range(t)
  <2> TAKE x \in Range(s)
  <2>1. PICK i \in 1..Len(s) : x = s[i]
    BY <1>1 DEF Range
  <2>2. i = 1 \/ i - 1 \in 1..Len(t)
    BY <1>1
  <2>3. i - 1 \in 1..Len(t) => s[i] = t[i - 1]
    BY <1>1
  <2> QED BY <1>1, <2>1, <2>2, <2>3 DEF Range
<1>3. \A x \in {Head(s)} \cup Range(t) : x \in Range(s)
  BY <1>1 DEF Range
<1> QED BY <1>1, <1>2, <1>3 DEF t

LEMMA RangeNone == Range(<<>>) = {} /\ \A S : <<>> \in Seq(S)
BY DEF Range

LEMMA RangeConcat ==
    ASSUME NEW S, NEW s \in Seq(S), NEW t \in Seq(S)
    PROVE  s \o t \in Seq(S) /\ Range(s \o t) = Range(s) \cup Range(t)
<1> DEFINE a == s \o t
<1>1. /\ a \in Seq(S) /\ Len(a) = Len(s) + Len(t) /\ Len(s) \in Nat /\ Len(t) \in Nat
      /\ DOMAIN s = 1..Len(s) /\ DOMAIN t = 1..Len(t) /\ DOMAIN a = 1..Len(a)
      /\ \A i \in 1..Len(s) + Len(t) : a[i] = IF i <= Len(s) THEN s[i] ELSE t[i - Len(s)]
  BY ConcatProperties, LenProperties
<1> HIDE DEF a
<1>2. \A x \in Range(a) : x \in Range(s) \cup Range(t)
  <2> TAKE x \in Range(a)
  <2>1. PICK i \in 1..Len(s) + Len(t) : x = a[i]
    BY <1>1 DEF Range
  <2>2. CASE i <= Len(s)
    BY <1>1, <2>1, <2>2 DEF Range
  <2>3. CASE i > Len(s)
    <3>1. i - Len(s) \in 1..Len(t)
      BY <1>1, <2>3
    <3>2. a[i] = t[i - Len(s)]
      BY <1>1, <2>3
    <3> QED BY <1>1, <2>1, <3>1, <3>2 DEF Range
  <2> QED BY <1>1, <2>2, <2>3
<1>3. \A x \in Range(s) : x \in Range(a)
  BY <1>1 DEF Range
<1>4. \A x \in Range(t) : x \in Range(a)
  <2> TAKE x \in Range(t)
  <2>1. PICK i \in 1..Len(t) : x = t[i]
    BY <1>1 DEF Range
  <2>2. i + Len(s) \in 1..Len(s) + Len(t) /\ ~(i + Len(s) <= Len(s))
        /\ i + Len(s) - Len(s) = i
    BY <1>1
  <2>3. a[i + Len(s)] = t[i]
    BY <1>1, <2>2
  <2> QED BY <1>1, <2>1, <2>2, <2>3 DEF Range
<1> QED BY <1>1, <1>2, <1>3, <1>4 DEF a

-----------------------------------------------------------------------------
(* meta_thread_queue_callback, and doing without it. *)
LEMMA QueueingProperties ==
    ASSUME Fields, SourcesInv, NEW c \in Contexts, QueueCallback(c)
    PROVE  /\ callbacks' \in [Contexts -> Seq(Nat)] /\ queued' \in Nat
           /\ needs_flush' \in [Contexts -> BOOLEAN]
           /\ queued' = queued + 1
           /\ \A d \in Contexts \ {c} :
                callbacks'[d] = callbacks[d] /\ needs_flush'[d] = needs_flush[d]
           /\ needs_flush'[c] = TRUE
           /\ Range(callbacks'[c]) = Range(callbacks[c]) \cup {queued + 1}
<1>1. /\ callbacks[c] \in Seq(Nat) /\ queued + 1 \in Nat /\ queued' = queued + 1
      /\ callbacks' = [callbacks EXCEPT ![c] = Append(callbacks[c], queued + 1)]
      /\ needs_flush' = [needs_flush EXCEPT ![c] = TRUE]
      /\ callbacks \in [Contexts -> Seq(Nat)] /\ needs_flush \in [Contexts -> BOOLEAN]
  BY DEF Fields, QueueCallback
<1>2. Append(callbacks[c], queued + 1) \in Seq(Nat)
      /\ Range(Append(callbacks[c], queued + 1)) = Range(callbacks[c]) \cup {queued + 1}
  BY <1>1, RangeAppend
<1>3. callbacks'[c] = Append(callbacks[c], queued + 1)
  BY <1>1
<1>4. needs_flush' \in [Contexts -> BOOLEAN] /\ needs_flush'[c] = TRUE
  BY <1>1
<1>5. callbacks' \in [Contexts -> Seq(Nat)]
  BY <1>1, <1>2
<1>6. \A d \in Contexts \ {c} :
        callbacks'[d] = callbacks[d] /\ needs_flush'[d] = needs_flush[d]
  BY <1>1
<1> QED BY <1>1, <1>2, <1>3, <1>4, <1>5, <1>6

-----------------------------------------------------------------------------
(* A task is queued behind the others, and behind the marker if there is   *)
(* one.                                                                    *)
LEMMA TasksPosted ==
    ASSUME Fields, TasksInv, NEW then \in Contexts \cup {"none"},
           task_queue' = Append(task_queue, Task(posted + 1, then)),
           posted' = posted + 1, ran' = ran, main'.tasks = main.tasks,
           main'.at.resetting => main.at.resetting, Marking' <=> Marking
    PROVE  TasksInv' /\ task_queue' \in Seq(Tasks) /\ posted' \in Nat
<1> DEFINE q == task_queue
           t == Task(posted + 1, then)
<1>1. posted \in Nat /\ q \in Seq(Tasks) /\ Len(ran) \in Nat /\ Len(q) \in Nat
      /\ main.tasks \in Nat
  BY LenProperties DEF Fields, Mains
<1>2. t \in Tasks /\ t.id = posted + 1
  BY <1>1 DEF Task, Tasks
<1>3. /\ q' \in Seq(Tasks) /\ Len(q') = Len(q) + 1
      /\ \A i \in 1..Len(q) : q'[i] = q[i]
      /\ q'[Len(q) + 1] = t
  BY <1>1, <1>2, AppendProperties
<1> HIDE DEF t
<1>4. Mark' = Mark
  BY DEF Mark
<1>5. CASE Marking
  <2>1. /\ Mark \in 1..Len(q) /\ q[Mark] = TERMINATE
        /\ \A i \in 1..Len(q) : i # Mark =>
             q[i].id = Len(ran) + (IF i < Mark THEN i ELSE i - 1)
        /\ posted = Len(ran) + Len(q) - 1
    BY <1>5 DEF TasksInv, Numbered
  <2>2. Mark' \in 1..Len(q') /\ q'[Mark'] = TERMINATE /\ posted' = Len(ran') + Len(q') - 1
    BY <1>1, <1>3, <1>4, <2>1
  <2>3. ASSUME NEW i \in 1..Len(q'), i # Mark'
        PROVE  q'[i].id = Len(ran') + (IF i < Mark' THEN i ELSE i - 1)
    <3>1. CASE i \in 1..Len(q)
      BY <1>3, <1>4, <2>1, <2>3, <3>1
    <3>2. CASE i = Len(q) + 1
      <4>1. ~(i < Mark) /\ Len(ran) + (i - 1) = posted + 1
        BY <1>1, <2>1, <3>2
      <4> QED BY <1>2, <1>3, <1>4, <3>2, <4>1
    <3>3. i \in 1..Len(q) \/ i = Len(q) + 1
      BY <1>1, <1>3
    <3> QED BY <3>1, <3>2, <3>3
  <2>4. Numbered'
    BY <1>5, <2>2, <2>3 DEF Numbered
  <2> QED BY <1>1, <1>3, <2>4 DEF TasksInv
<1>6. CASE ~Marking
  <2>1. /\ \A i \in 1..Len(q) : q[i].id = Len(ran) + i
        /\ posted = Len(ran) + Len(q)
        /\ main.at.resetting => main.tasks <= Len(ran)
    BY <1>6 DEF TasksInv, Numbered
  <2>2. posted' = Len(ran') + Len(q')
    BY <1>1, <1>3, <2>1
  <2>3. ASSUME NEW i \in 1..Len(q') PROVE q'[i].id = Len(ran') + i
    <3>1. CASE i \in 1..Len(q)
      BY <1>3, <2>1, <3>1
    <3>2. CASE i = Len(q) + 1
      <4>1. Len(ran) + i = posted + 1
        BY <1>1, <2>1, <3>2
      <4> QED BY <1>2, <1>3, <3>2, <4>1
    <3>3. i \in 1..Len(q) \/ i = Len(q) + 1
      BY <1>1, <1>3
    <3> QED BY <3>1, <3>2, <3>3
  <2>4. Numbered'
    BY <1>6, <2>1, <2>2, <2>3 DEF Numbered
  <2> QED BY <1>1, <1>3, <2>4 DEF TasksInv
<1> QED BY <1>5, <1>6

LEMMA TasksKept ==
    ASSUME TasksInv, UNCHANGED <<task_queue, posted, ran>>, main'.tasks = main.tasks,
           main'.at.resetting => main.at.resetting, Marking' <=> Marking
    PROVE  TasksInv'
<1>1. Mark' = Mark
  BY DEF Mark
<1> QED BY <1>1 DEF TasksInv, Numbered

(* A flush under way is not disturbed by what other threads do meanwhile:  *)
(* what they queue is newer than what it looks for.                        *)
LEMMA ProgressKept ==
    ASSUME Fields, FlushProgress, UNCHANGED <<main, type>>,
           queued' \in Nat, queued' >= queued, invoked \subseteq invoked',
           \A c \in Contexts : \A i \in Holds(c)' :
             i \in Holds(c) \/ (i \in Nat /\ i > queued)
    PROVE  FlushProgress'
<1>1. main.callbacks \in Nat /\ queued \in Nat /\ main.callbacks <= queued
  BY DEF Fields, FlushProgress, Mains
<1>2. \A c \in Contexts : \A i \in Holds(c)' : i \in Nat
  <2>1. \A c \in Contexts : \A i \in Holds(c) : i \in Nat
    BY RangeOfSeq DEF Holds, Fields
  <2> QED BY <2>1
<1>3. \A c \in Contexts : Clean(c) => Clean(c)'
  BY <1>1, <1>2 DEF Clean
<1>4. MainThreadContexts' = MainThreadContexts /\ MainThreadContexts \subseteq Contexts
  BY DEF MainThreadContexts, Contexts
<1>5. main'.callbacks <= queued'
  BY <1>1
<1> QED BY <1>3, <1>4, <1>5 DEF FlushProgress

(* A task is posted. *)
LEMMA PostKeeps ==
    ASSUME ThreadInv, NEW then \in Contexts \cup {"none"}, meta_thread_post_impl_task(then)
    PROVE  ThreadInv'
<1>1. /\ task_queue' = Append(task_queue, Task(posted + 1, then)) /\ posted' = posted + 1
      /\ UNCHANGED <<type, impl, ran, callbacks, needs_flush, pending, dispatching,
                     queued, invoked, main>>
  BY DEF meta_thread_post_impl_task
<1>2. TasksInv' /\ task_queue' \in Seq(Tasks) /\ posted' \in Nat
  BY <1>1, TasksPosted DEF ThreadInv, Marking
<1>3. Fields'
  BY <1>1, <1>2 DEF ThreadInv, Fields
<1>4. SourcesInv' /\ PhaseInv' /\ Accounted' /\ FlushProgress'
  BY <1>1 DEF ThreadInv, SourcesInv, PhaseInv, Accounted, FlushProgress, Holds, Clean,
              MainThreadContexts
<1> QED BY <1>2, <1>3, <1>4 DEF ThreadInv

LEMMA SyncKeeps ==
    ASSUME ThreadInv, meta_thread_run_impl_task_sync PROVE ThreadInv'
<1>1. /\ task_queue' = Append(task_queue, Task(posted + 1, "none")) /\ posted' = posted + 1
      /\ UNCHANGED <<type, impl, ran, callbacks, needs_flush, pending, dispatching,
                     queued, invoked>>
      /\ main' = [main EXCEPT !.at.pc = "sync", !.sync = posted + 1]
      /\ main.at.pc = "loop" /\ \A c \in MainThreadContexts : ~dispatching[c]
  BY DEF meta_thread_run_impl_task_sync, MainFree
<1>a. posted + 1 \in Nat
  BY DEF ThreadInv, Fields
<1>2. /\ main' \in Mains
      /\ main'.at = [main.at EXCEPT !.pc = "sync"]
      /\ main'.tasks = main.tasks /\ main'.callbacks = main.callbacks
  BY <1>1, <1>a DEF ThreadInv, Fields, Mains, Ats
<1>3. /\ main'.at.pc = "sync" /\ main'.at.resetting = main.at.resetting
      /\ main'.at.list = main.at.list /\ main'.at.todo = main.at.todo
  BY <1>2 DEF ThreadInv, Fields, Mains, Ats
<1>4. TasksInv' /\ task_queue' \in Seq(Tasks) /\ posted' \in Nat
  BY <1>1, <1>2, <1>3, TasksPosted DEF ThreadInv, Marking
<1>5. Fields'
  BY <1>1, <1>2, <1>4 DEF ThreadInv, Fields
<1>6. MainThreadContexts' = MainThreadContexts
  BY <1>1 DEF MainThreadContexts
<1>7. PhaseInv'
  BY <1>1, <1>3, <1>6 DEF ThreadInv, PhaseInv
<1>8. SourcesInv' /\ Accounted' /\ FlushProgress'
  BY <1>1, <1>2, <1>3 DEF ThreadInv, SourcesInv, Accounted, FlushProgress, Holds
<1> QED BY <1>4, <1>5, <1>7, <1>8 DEF ThreadInv

LEMMA SyncDoneKeeps ==
    ASSUME ThreadInv, SyncDone PROVE ThreadInv'
<1>1. /\ UNCHANGED <<type, impl, task_queue, posted, ran, callbacks, needs_flush, pending,
                     dispatching, queued, invoked>>
      /\ main' = [main EXCEPT !.at.pc = "loop", !.sync = 0]
      /\ main.at.pc = "sync"
  BY DEF SyncDone
<1>2. /\ main' \in Mains
      /\ main'.at = [main.at EXCEPT !.pc = "loop"]
      /\ main'.tasks = main.tasks /\ main'.callbacks = main.callbacks
  BY <1>1 DEF ThreadInv, Fields, Mains, Ats
<1>3. /\ main'.at.pc = "loop" /\ main'.at.resetting = main.at.resetting
      /\ main'.at.list = main.at.list /\ main'.at.todo = main.at.todo
  BY <1>2 DEF ThreadInv, Fields, Mains, Ats
<1>4. TasksInv'
  BY <1>1, <1>2, <1>3, TasksKept DEF ThreadInv, Marking
<1>5. Fields'
  BY <1>1, <1>2 DEF ThreadInv, Fields
<1>6. PhaseInv'
  BY <1>1, <1>3 DEF ThreadInv, PhaseInv
<1>7. SourcesInv' /\ Accounted' /\ FlushProgress'
  BY <1>1, <1>2, <1>3 DEF ThreadInv, SourcesInv, Accounted, FlushProgress, Holds
<1> QED BY <1>4, <1>5, <1>6, <1>7 DEF ThreadInv

-----------------------------------------------------------------------------
(* What a callback or a task does to the sources: it may queue a callback. *)
Queueing == NoCallback \/ \E c \in Contexts : QueueCallback(c)

(* A callback that does not wait has run or is in the hands of a thread.   *)
Taken(i) ==
    i \in invoked \/ i \in Range(main.at.list) \/ \E c \in Contexts : i \in Range(pending[c])

LEMMA QueueingKeeps ==
    ASSUME Fields, SourcesInv, Queueing
    PROVE  /\ callbacks' \in [Contexts -> Seq(Nat)] /\ queued' \in Nat /\ queued' >= queued
           /\ needs_flush' \in [Contexts -> BOOLEAN]
           /\ \A d \in Contexts : needs_flush[d] => needs_flush'[d]
           /\ \A d \in Contexts : callbacks'[d] # <<>> => needs_flush'[d]
           /\ \A d \in Contexts : \A i \in Range(callbacks'[d]) :
                i \in Range(callbacks[d]) \/ (i \in Nat /\ i > queued)
<1>1. queued \in Nat
  BY DEF Fields
<1>2. CASE NoCallback
  <2>1. UNCHANGED <<queued, needs_flush, callbacks>>
    BY <1>2 DEF NoCallback
  <2> QED BY <1>1, <2>1 DEF Fields, SourcesInv
<1>3. ASSUME NEW c \in Contexts, QueueCallback(c)
      PROVE  /\ callbacks' \in [Contexts -> Seq(Nat)] /\ queued' \in Nat /\ queued' >= queued
             /\ needs_flush' \in [Contexts -> BOOLEAN]
             /\ \A d \in Contexts : needs_flush[d] => needs_flush'[d]
             /\ \A d \in Contexts : callbacks'[d] # <<>> => needs_flush'[d]
             /\ \A d \in Contexts : \A i \in Range(callbacks'[d]) :
                  i \in Range(callbacks[d]) \/ (i \in Nat /\ i > queued)
  <2>1. /\ callbacks' \in [Contexts -> Seq(Nat)] /\ queued' \in Nat
        /\ needs_flush' \in [Contexts -> BOOLEAN]
        /\ queued' = queued + 1
        /\ \A d \in Contexts \ {c} :
             callbacks'[d] = callbacks[d] /\ needs_flush'[d] = needs_flush[d]
        /\ needs_flush'[c] = TRUE
        /\ Range(callbacks'[c]) = Range(callbacks[c]) \cup {queued + 1}
    BY <1>3, QueueingProperties
  <2>2. \A d \in Contexts : needs_flush[d] => needs_flush'[d]
    BY <2>1
  <2>3. \A d \in Contexts : callbacks'[d] # <<>> => needs_flush'[d]
    BY <2>1 DEF SourcesInv
  <2>4. queued + 1 \in Nat /\ queued + 1 > queued /\ queued' >= queued
    BY <1>1, <2>1
  <2>5. \A d \in Contexts : \A i \in Range(callbacks'[d]) :
          i \in Range(callbacks[d]) \/ (i \in Nat /\ i > queued)
    BY <2>1, <2>4
  <2> QED BY <2>1, <2>2, <2>3, <2>4, <2>5
<1> QED BY <1>2, <1>3 DEF Queueing

LEMMA AccountedKept ==
    ASSUME Fields, SourcesInv, Accounted, Queueing, \A i : Taken(i)' <=> Taken(i)
    PROVE  Accounted'
<1>1. queued \in Nat
  BY DEF Fields
<1>2. \A i : i \in 1..queued <=> Taken(i) \/ \E c \in Contexts : i \in Range(callbacks[c])
  BY DEF Accounted, Taken, Holds
<1>3. SUFFICES \A i : i \in 1..queued' <=>
                 Taken(i)' \/ \E c \in Contexts : i \in Range(callbacks'[c])
  BY DEF Accounted, Taken, Holds
<1>4. CASE NoCallback
  BY <1>2, <1>4 DEF NoCallback
<1>5. ASSUME NEW c \in Contexts, QueueCallback(c), NEW i
      PROVE  i \in 1..queued' <=> Taken(i)' \/ \E d \in Contexts : i \in Range(callbacks'[d])
  <2>1. /\ queued' = queued + 1
        /\ \A d \in Contexts \ {c} : callbacks'[d] = callbacks[d]
        /\ Range(callbacks'[c]) = Range(callbacks[c]) \cup {queued + 1}
    BY <1>5, QueueingProperties
  <2>2. i \in 1..queued' <=> i \in 1..queued \/ i = queued + 1
    BY <1>1, <2>1
  <2>3. (\E d \in Contexts : i \in Range(callbacks'[d])) <=>
          (\E d \in Contexts : i \in Range(callbacks[d])) \/ i = queued + 1
    BY <2>1
  <2> QED BY <1>2, <2>2, <2>3
<1> QED BY <1>4, <1>5 DEF Queueing

(* Callbacks queue nothing on the impl context. *)
LEMMA EffectProperties ==
    ASSUME NEW c \in Contexts, NEW then \in Reactions(c), Effect(then)
    PROVE  /\ NoCallback \/ \E d \in Contexts \ {"impl"} : QueueCallback(d)
           /\ Queueing
           /\ \/ UNCHANGED <<task_queue, posted>>
              \/ /\ task_queue' = Append(task_queue, Task(posted + 1, "none"))
                 /\ posted' = posted + 1
<1>1. then \in Contexts => then # "impl"
  BY BoundsAssumption DEF Reactions, Contexts
<1> QED BY <1>1 DEF Effect, Queueing

LEMMA ImplUntouched ==
    ASSUME Fields, SourcesInv,
           NoCallback \/ \E d \in Contexts \ {"impl"} : QueueCallback(d)
    PROVE  callbacks'["impl"] = callbacks["impl"] /\ needs_flush'["impl"] = needs_flush["impl"]
<1>1. "impl" \in Contexts
  BY DEF Contexts
<1>2. CASE NoCallback
  BY <1>2 DEF NoCallback
<1>3. ASSUME NEW d \in Contexts \ {"impl"}, QueueCallback(d)
      PROVE  callbacks'["impl"] = callbacks["impl"] /\ needs_flush'["impl"] = needs_flush["impl"]
  BY <1>1, <1>3, QueueingProperties
<1> QED BY <1>2, <1>3

-----------------------------------------------------------------------------
(* meta_thread_impl_dispatch *)
LEMMA DispatchedHead ==
    ASSUME Fields, TasksInv, task_queue # <<>>
    PROVE  /\ Head(task_queue) = TERMINATE <=> Marking /\ Mark = 1
           /\ Head(task_queue) # TERMINATE => Head(task_queue).id = Len(ran) + 1
           /\ Head(task_queue) \in Tasks
<1>1. /\ task_queue \in Seq(Tasks) /\ Len(ran) \in Nat /\ main.tasks \in Nat
      /\ Head(task_queue) = task_queue[1] /\ Len(task_queue) \in Nat \ {0}
      /\ Head(task_queue) \in Tasks /\ 1 \in 1..Len(task_queue)
  BY LenProperties, EmptySeq, HeadTailProperties DEF Fields, Mains
<1>2. TERMINATE.id = 0
  BY DEF TERMINATE
<1>3. Mark \in Int
  BY <1>1 DEF Mark
<1>4. CASE Marking /\ Mark = 1
  BY <1>1, <1>4 DEF TasksInv, Numbered
<1>5. CASE Marking /\ Mark # 1
  <2>1. Mark \in 1..Len(task_queue) /\ task_queue[1].id = Len(ran) + (IF 1 < Mark THEN 1 ELSE 0)
    BY <1>1, <1>5 DEF TasksInv, Numbered
  <2>2. task_queue[1].id = Len(ran) + 1
    BY <1>1, <1>5, <2>1
  <2> QED BY <1>1, <1>2, <1>5, <2>2
<1>6. CASE ~Marking
  <2>1. task_queue[1].id = Len(ran) + 1
    BY <1>1, <1>6 DEF TasksInv, Numbered
  <2> QED BY <1>1, <1>2, <1>6, <2>1
<1> QED BY <1>4, <1>5, <1>6

(* The marker is reached: all that was posted before it has run. *)
LEMMA MarkReached ==
    ASSUME Fields, TasksInv, task_queue # <<>>, Head(task_queue) = TERMINATE,
           task_queue' = Tail(task_queue), UNCHANGED <<posted, ran>>,
           ~Marking', main'.tasks = main.tasks
    PROVE  TasksInv' /\ task_queue' \in Seq(Tasks)
<1> DEFINE q == task_queue
<1>1. Marking /\ Mark = 1
  BY DispatchedHead
<1>2. /\ q \in Seq(Tasks) /\ Len(ran) \in Nat /\ main.tasks \in Nat /\ Len(q) \in Nat \ {0}
      /\ q' \in Seq(Tasks) /\ Len(q') = Len(q) - 1
      /\ \A i \in 1..Len(q') : q'[i] = q[i + 1]
  BY LenProperties, EmptySeq, HeadTailProperties DEF Fields, Mains
<1>3. /\ \A i \in 1..Len(q) : i # 1 => q[i].id = Len(ran) + (IF i < 1 THEN i ELSE i - 1)
      /\ posted = Len(ran) + Len(q) - 1
  BY <1>1 DEF TasksInv, Numbered
<1>4. posted' = Len(ran') + Len(q') /\ main'.tasks <= Len(ran')
  BY <1>1, <1>2, <1>3 DEF Mark
<1>5. ASSUME NEW i \in 1..Len(q') PROVE q'[i].id = Len(ran') + i
  <2>1. i + 1 \in 1..Len(q) /\ i + 1 # 1 /\ ~(i + 1 < 1) /\ (i + 1) - 1 = i
    BY <1>2
  <2>2. q[i + 1].id = Len(ran) + i
    BY <1>3, <2>1
  <2> QED BY <1>2, <2>2
<1> QED BY <1>2, <1>4, <1>5 DEF TasksInv, Numbered

(* A task runs: they are run in the order of their numbers. *)
LEMMA TaskRuns ==
    ASSUME Fields, TasksInv, task_queue # <<>>, Head(task_queue) # TERMINATE,
           task_queue' = Tail(task_queue), UNCHANGED <<posted, main, impl>>,
           ran' = Append(ran, Head(task_queue).id)
    PROVE  TasksInv' /\ task_queue' \in Seq(Tasks) /\ ran' \in Seq(Nat)
<1> DEFINE q == task_queue
           n == Len(ran)
<1>1. ~(Marking /\ Mark = 1) /\ Head(q).id = n + 1
  BY DispatchedHead
<1>2. /\ q \in Seq(Tasks) /\ ran \in Seq(Nat) /\ n \in Nat /\ n + 1 \in Nat
      /\ main.tasks \in Nat /\ Len(q) \in Nat \ {0}
      /\ q' \in Seq(Tasks) /\ Len(q') = Len(q) - 1
      /\ \A i \in 1..Len(q') : q'[i] = q[i + 1]
  BY LenProperties, EmptySeq, HeadTailProperties DEF Fields, Mains
<1>3. /\ ran' \in Seq(Nat) /\ Len(ran') = n + 1
      /\ \A i \in 1..n : ran'[i] = ran[i]
      /\ ran'[n + 1] = n + 1
      /\ DOMAIN ran' = 1..n + 1 /\ ran' \in [1..n + 1 -> Nat]
  <2>1. ran' = Append(ran, n + 1)
    BY <1>1
  <2>2. /\ ran' \in Seq(Nat) /\ Len(ran') = n + 1
        /\ \A i \in 1..n : ran'[i] = ran[i]
        /\ ran'[n + 1] = n + 1
    BY <1>2, <2>1, AppendProperties
  <2> HIDE DEF n
  <2> QED BY <2>2, LenProperties
<1>a. /\ n \in Nat /\ Len(q) \in Nat \ {0} /\ Len(q') = Len(q) - 1
      /\ Len(ran') = n + 1 /\ main.tasks \in Nat
  BY <1>2, <1>3
<1>4. \A i \in 1..n : ran[i] = i
  BY DEF TasksInv
<1> HIDE DEF n
<1>5. \A i \in 1..n + 1 : ran'[i] = i
  <2> TAKE i \in 1..n + 1
  <2>1. i \in 1..n \/ i = n + 1
    BY <1>2
  <2> QED BY <1>3, <1>4, <2>1
<1>6. ran' = [i \in 1..Len(ran') |-> i]
  BY <1>3, <1>5
<1>7. Marking' <=> Marking
  BY DEF Marking
<1>8. CASE Marking
  <2>1. /\ Mark \in 1..Len(q) /\ q[Mark] = TERMINATE
        /\ \A i \in 1..Len(q) : i # Mark => q[i].id = n + (IF i < Mark THEN i ELSE i - 1)
        /\ posted = n + Len(q) - 1
    BY <1>8 DEF TasksInv, Numbered, n
  <2>2. Mark' = Mark - 1
    BY <1>2, <1>3 DEF Mark, n
  <2>3. Mark' \in 1..Len(q') /\ posted' = Len(ran') + Len(q') - 1 /\ Mark' + 1 = Mark
    <3>1. Mark \in 1..Len(q) /\ posted = n + Len(q) - 1 /\ Mark # 1 /\ posted' = posted
      BY <1>1, <1>8, <2>1
    <3>2. \A a \in Nat, l \in Nat \ {0} : \A m \in 1..l : m # 1 =>
            /\ m - 1 \in 1..l - 1 /\ m - 1 + 1 = m
            /\ a + l - 1 = (a + 1) + (l - 1) - 1
      OBVIOUS
    <3>3. /\ Mark - 1 \in 1..Len(q) - 1 /\ Mark - 1 + 1 = Mark
          /\ n + Len(q) - 1 = (n + 1) + (Len(q) - 1) - 1
      BY <1>a, <3>1, <3>2, Zenon
    <3> QED BY <1>a, <2>2, <3>1, <3>3, Zenon
  <2>4. q'[Mark'] = TERMINATE
    BY <1>2, <2>1, <2>3
  <2>5. ASSUME NEW i \in 1..Len(q'), i # Mark'
        PROVE  q'[i].id = Len(ran') + (IF i < Mark' THEN i ELSE i - 1)
    <3>1. i + 1 \in 1..Len(q) /\ i + 1 # Mark /\ (i + 1 < Mark <=> i < Mark')
      BY <1>2, <2>1, <2>2, <2>5
    <3>2. q[i + 1].id = n + (IF i < Mark' THEN i + 1 ELSE i)
      BY <2>1, <3>1
    <3>3. n + (IF i < Mark' THEN i + 1 ELSE i) = Len(ran') + (IF i < Mark' THEN i ELSE i - 1)
      BY <1>a, SMTT(40)
    <3> QED BY <1>2, <3>2, <3>3
  <2>6. Numbered'
    BY <1>7, <1>8, <2>3, <2>4, <2>5 DEF Numbered
  <2> QED BY <1>2, <1>3, <1>6, <2>6 DEF TasksInv
<1>9. CASE ~Marking
  <2>1. /\ \A i \in 1..Len(q) : q[i].id = n + i
        /\ posted = n + Len(q)
        /\ main.at.resetting => main.tasks <= n
    BY <1>9 DEF TasksInv, Numbered, n
  <2>2. posted' = Len(ran') + Len(q') /\ (main'.at.resetting => main'.tasks <= Len(ran'))
    <3>1. /\ posted = n + Len(q) /\ posted' = posted /\ main' = main
          /\ main.at.resetting => main.tasks <= n
      BY <2>1
    <3>2. \A a \in Nat, l \in Nat \ {0} : a + l = (a + 1) + (l - 1)
      OBVIOUS
    <3>3. \A a, m \in Nat : m <= a => m <= a + 1
      OBVIOUS
    <3>4. n + Len(q) = (n + 1) + (Len(q) - 1) /\ (main.tasks <= n => main.tasks <= n + 1)
      BY <1>a, <3>2, <3>3, Zenon
    <3> QED BY <1>a, <3>1, <3>4, Zenon
  <2>3. ASSUME NEW i \in 1..Len(q') PROVE q'[i].id = Len(ran') + i
    <3>1. i + 1 \in 1..Len(q) /\ n + (i + 1) = (n + 1) + i
      BY <1>2
    <3> QED BY <1>2, <1>3, <2>1, <3>1
  <2>4. Numbered'
    BY <1>7, <1>9, <2>2, <2>3 DEF Numbered
  <2> QED BY <1>2, <1>3, <1>6, <2>4 DEF TasksInv
<1> QED BY <1>8, <1>9

LEMMA ImplDispatchKeeps ==
    ASSUME ThreadInv, meta_thread_impl_dispatch PROVE ThreadInv'
<1> DEFINE task == Head(task_queue)
<1>0. Fields /\ TasksInv /\ SourcesInv /\ PhaseInv /\ Accounted /\ FlushProgress
  BY DEF ThreadInv
<1>1. /\ task_queue # <<>> /\ task_queue' = Tail(task_queue)
      /\ UNCHANGED <<type, posted, pending, dispatching, invoked>>
  BY DEF meta_thread_impl_dispatch
<1>2. /\ type = "KERNEL" => impl = "running" /\ ~needs_flush["impl"]
      /\ type = "USER" => main.at.pc \in {"loop", "sync", "drain"}
  BY DEF meta_thread_impl_dispatch, MayDispatch, ImplSourceReady, Runs, MainFree,
         MainThreadContexts
<1>3. type \in {"USER", "KERNEL"} /\ "impl" \in Contexts
  BY <1>0 DEF Fields, Contexts
<1>4. /\ task = TERMINATE <=> Marking /\ Mark = 1
      /\ task \in Tasks
  BY <1>0, <1>1, DispatchedHead
<1>5. MainThreadContexts' = MainThreadContexts
  BY <1>1 DEF MainThreadContexts
<1>6. CASE task = TERMINATE /\ type = "KERNEL"
  <2>1. impl' = "gone" /\ UNCHANGED <<main, queued, needs_flush, callbacks, ran>>
    BY <1>6 DEF meta_thread_impl_dispatch, NoCallback
  <2>2. main.at.pc = "join"
    BY <1>0, <1>4, <1>6 DEF Marking, PhaseInv
  <2>3. TasksInv' /\ task_queue' \in Seq(Tasks)
    BY <1>0, <1>1, <1>6, <2>1, <2>2, MarkReached DEF Marking
  <2>4. Fields'
    BY <1>0, <1>1, <2>1, <2>3 DEF Fields
  <2>5. PhaseInv'
    BY <1>0, <1>1, <1>2, <1>5, <1>6, <2>1, <2>2 DEF PhaseInv
  <2>6. SourcesInv' /\ Accounted' /\ FlushProgress'
    BY <1>0, <1>1, <1>5, <2>1 DEF SourcesInv, Accounted, FlushProgress, Holds, Clean
  <2> QED BY <2>3, <2>4, <2>5, <2>6 DEF ThreadInv
<1>7. CASE task = TERMINATE /\ type = "USER"
  <2>1. /\ UNCHANGED <<impl, queued, needs_flush, callbacks, ran>>
        /\ main' = [main EXCEPT !.at.pc = "steal", !.callbacks = queued]
    BY <1>7 DEF meta_thread_impl_dispatch, NoCallback
  <2>2. main.at.pc = "drain"
    BY <1>0, <1>4, <1>7 DEF Marking, PhaseInv
  <2>3. /\ main' \in Mains
        /\ main'.at = [main.at EXCEPT !.pc = "steal"]
        /\ main'.tasks = main.tasks /\ main'.callbacks = queued
    BY <1>0, <2>1 DEF Fields, Mains, Ats
  <2>4. /\ main'.at.pc = "steal" /\ main'.at.resetting = main.at.resetting
        /\ main'.at.list = main.at.list
    BY <1>0, <2>3 DEF Fields, Mains, Ats
  <2>5. TasksInv' /\ task_queue' \in Seq(Tasks)
    BY <1>0, <1>1, <1>7, <2>1, <2>3, <2>4, MarkReached DEF Marking
  <2>6. Fields'
    BY <1>0, <1>1, <2>1, <2>3, <2>5 DEF Fields
  <2>7. PhaseInv'
    BY <1>0, <1>1, <1>5, <1>7, <2>1, <2>2, <2>4 DEF PhaseInv
  <2>8. SourcesInv' /\ Accounted'
    BY <1>0, <1>1, <2>1, <2>4 DEF SourcesInv, Accounted, Holds
  <2>9. queued <= queued
    BY <1>0 DEF Fields
  <2>10. FlushProgress'
    BY <1>0, <2>1, <2>2, <2>3, <2>4, <2>9 DEF FlushProgress
  <2> QED BY <2>5, <2>6, <2>7, <2>8, <2>10 DEF ThreadInv
<1>8. CASE task # TERMINATE
  <2>1. /\ UNCHANGED <<impl, main>> /\ ran' = Append(ran, task.id)
        /\ IF task.then = "none" THEN NoCallback ELSE QueueCallback(task.then)
    BY <1>8 DEF meta_thread_impl_dispatch
  <2>2. Queueing
    BY <1>4, <2>1 DEF Queueing, Tasks
  <2>3. TasksInv' /\ task_queue' \in Seq(Tasks) /\ ran' \in Seq(Nat)
    BY <1>0, <1>1, <1>8, <2>1, TaskRuns
  <2>4. /\ callbacks' \in [Contexts -> Seq(Nat)] /\ queued' \in Nat /\ queued' >= queued
        /\ needs_flush' \in [Contexts -> BOOLEAN]
        /\ \A d \in Contexts : needs_flush[d] => needs_flush'[d]
        /\ \A d \in Contexts : callbacks'[d] # <<>> => needs_flush'[d]
        /\ \A d \in Contexts : \A i \in Range(callbacks'[d]) :
             i \in Range(callbacks[d]) \/ (i \in Nat /\ i > queued)
    BY <1>0, <2>2, QueueingKeeps
  <2>5. Fields'
    BY <1>0, <1>1, <2>1, <2>3, <2>4 DEF Fields
  <2>6. SourcesInv'
    BY <1>0, <1>1, <2>4 DEF SourcesInv
  <2>7. PhaseInv'
    BY <1>0, <1>1, <1>2, <1>3, <1>5, <2>1 DEF PhaseInv
  <2>8. \A i : Taken(i)' <=> Taken(i)
    BY <1>1, <2>1 DEF Taken
  <2>9. Accounted'
    BY <1>0, <2>2, <2>8, AccountedKept
  <2>10. \A c \in Contexts : \A i \in Holds(c)' : i \in Holds(c) \/ (i \in Nat /\ i > queued)
    BY <1>1, <2>4 DEF Holds
  <2>11. FlushProgress'
    BY <1>0, <1>1, <2>1, <2>4, <2>10, ProgressKept
  <2> QED BY <2>3, <2>5, <2>6, <2>7, <2>9, <2>11 DEF ThreadInv
<1> QED BY <1>3, <1>6, <1>7, <1>8

-----------------------------------------------------------------------------
(* callback_source_dispatch *)
LEMMA StealKeeps ==
    ASSUME ThreadInv, NEW c \in Contexts, StealCallbacks(c) PROVE ThreadInv'
<1>0. Fields /\ TasksInv /\ SourcesInv /\ PhaseInv /\ Accounted /\ FlushProgress
  BY DEF ThreadInv
<1>1. /\ pending' = [pending EXCEPT ![c] = callbacks[c]]
      /\ callbacks' = [callbacks EXCEPT ![c] = <<>>]
      /\ dispatching' = [dispatching EXCEPT ![c] = TRUE]
      /\ needs_flush[c]
      /\ UNCHANGED <<type, impl, task_queue, posted, ran, needs_flush, queued, invoked, main>>
  BY DEF StealCallbacks
<1>2. ~dispatching[c] /\ (c \in MainThreadContexts => main.at.pc = "loop")
      /\ (c = "impl" /\ type = "KERNEL" => impl = "running")
  BY DEF StealCallbacks, Runs, MainFree, MainThreadContexts
<1>3. /\ callbacks' \in [Contexts -> Seq(Nat)] /\ pending' \in [Contexts -> Seq(Nat)]
      /\ dispatching' \in [Contexts -> BOOLEAN]
  BY <1>0, <1>1, RangeNone DEF Fields
<1>4. Fields'
  BY <1>0, <1>1, <1>3 DEF Fields
<1>5. /\ pending'[c] = callbacks[c] /\ callbacks'[c] = <<>> /\ dispatching'[c] = TRUE
      /\ \A d \in Contexts \ {c} : /\ pending'[d] = pending[d] /\ callbacks'[d] = callbacks[d]
                                  /\ dispatching'[d] = dispatching[d]
      /\ pending[c] = <<>>
  BY <1>0, <1>1, <1>2 DEF Fields, SourcesInv
<1>6. TasksInv'
  BY <1>0, <1>1, TasksKept DEF Marking
<1>7. SourcesInv'
  BY <1>0, <1>1, <1>5 DEF SourcesInv
<1>8. MainThreadContexts' = MainThreadContexts /\ MainThreadContexts \subseteq Contexts
      /\ "impl" \in Contexts
  BY <1>1 DEF MainThreadContexts, Contexts
<1>9. callbacks["impl"] = <<>> => callbacks'["impl"] = <<>>
  BY <1>5, <1>8
<1>10. main.at.pc # "loop" => \A d \in MainThreadContexts : ~dispatching'[d]
  BY <1>0, <1>2, <1>5, <1>8 DEF PhaseInv
<1>11. PhaseInv'
  BY <1>0, <1>1, <1>8, <1>9, <1>10 DEF PhaseInv
<1>12. \A d \in Contexts : Holds(d)' = Holds(d)
  BY <1>5, RangeNone DEF Holds
<1>13. Accounted'
  BY <1>0, <1>1, <1>12 DEF Accounted
<1>14. queued \in Nat /\ queued >= queued
  BY <1>0 DEF Fields
<1>15. FlushProgress'
  BY <1>0, <1>1, <1>12, <1>14, ProgressKept
<1> QED BY <1>4, <1>6, <1>7, <1>11, <1>13, <1>15 DEF ThreadInv

LEMMA CallbackKeeps ==
    ASSUME ThreadInv, NEW c \in Contexts, NEW then \in Reactions(c), DispatchCallback(c, then)
    PROVE  ThreadInv'
<1>0. Fields /\ TasksInv /\ SourcesInv /\ PhaseInv /\ Accounted /\ FlushProgress
  BY DEF ThreadInv
<1>1. /\ dispatching[c] /\ pending[c] # <<>>
      /\ invoked' = invoked \cup {Head(pending[c])}
      /\ pending' = [pending EXCEPT ![c] = Tail(pending[c])]
      /\ Effect(then)
      /\ UNCHANGED <<type, impl, ran, dispatching, main>>
  BY DEF DispatchCallback
<1>2. /\ NoCallback \/ \E d \in Contexts \ {"impl"} : QueueCallback(d)
      /\ Queueing
      /\ \/ UNCHANGED <<task_queue, posted>>
         \/ /\ task_queue' = Append(task_queue, Task(posted + 1, "none"))
            /\ posted' = posted + 1
  BY <1>1, EffectProperties
<1>3. /\ pending[c] \in Seq(Nat) /\ pending \in [Contexts -> Seq(Nat)]
      /\ Head(pending[c]) \in Nat /\ Tail(pending[c]) \in Seq(Nat)
      /\ Range(pending[c]) = {Head(pending[c])} \cup Range(Tail(pending[c]))
  BY <1>0, <1>1, RangeTail DEF Fields
<1>4. /\ pending' \in [Contexts -> Seq(Nat)] /\ pending'[c] = Tail(pending[c])
      /\ \A d \in Contexts \ {c} : pending'[d] = pending[d]
      /\ invoked' \in SUBSET Nat
  BY <1>0, <1>1, <1>3 DEF Fields
<1>5. TasksInv' /\ task_queue' \in Seq(Tasks) /\ posted' \in Nat
  <2>1. (Marking' <=> Marking) /\ main'.tasks = main.tasks
        /\ (main'.at.resetting => main.at.resetting) /\ ran' = ran
    BY <1>1 DEF Marking
  <2>2. CASE UNCHANGED <<task_queue, posted>>
    BY <1>0, <2>1, <2>2, TasksKept DEF Fields
  <2>3. CASE task_queue' = Append(task_queue, Task(posted + 1, "none")) /\ posted' = posted + 1
    BY <1>0, <2>1, <2>3, TasksPosted
  <2> QED BY <1>2, <2>2, <2>3
<1>6. /\ callbacks' \in [Contexts -> Seq(Nat)] /\ queued' \in Nat /\ queued' >= queued
      /\ needs_flush' \in [Contexts -> BOOLEAN]
      /\ \A d \in Contexts : needs_flush[d] => needs_flush'[d]
      /\ \A d \in Contexts : callbacks'[d] # <<>> => needs_flush'[d]
      /\ \A d \in Contexts : \A i \in Range(callbacks'[d]) :
           i \in Range(callbacks[d]) \/ (i \in Nat /\ i > queued)
  BY <1>0, <1>2, QueueingKeeps
<1>7. Fields'
  BY <1>0, <1>1, <1>4, <1>5, <1>6 DEF Fields
<1>8. SourcesInv'
  BY <1>0, <1>1, <1>4, <1>6 DEF SourcesInv
<1>9. callbacks'["impl"] = callbacks["impl"] /\ needs_flush'["impl"] = needs_flush["impl"]
  BY <1>0, <1>2, ImplUntouched
<1>10. MainThreadContexts' = MainThreadContexts
  BY <1>1 DEF MainThreadContexts
<1>11. PhaseInv'
  BY <1>0, <1>1, <1>9, <1>10 DEF PhaseInv
<1>12. \A i : Taken(i)' <=> Taken(i)
  BY <1>1, <1>3, <1>4 DEF Taken
<1>13. Accounted'
  BY <1>0, <1>2, <1>12, AccountedKept
<1>14. \A d \in Contexts : \A i \in Holds(d)' : i \in Holds(d) \/ (i \in Nat /\ i > queued)
  BY <1>3, <1>4, <1>6 DEF Holds
<1>15. FlushProgress'
  BY <1>0, <1>1, <1>6, <1>14, ProgressKept
<1> QED BY <1>5, <1>7, <1>8, <1>11, <1>13, <1>15 DEF ThreadInv

LEMMA SourceDoneKeeps ==
    ASSUME ThreadInv, NEW c \in Contexts, CallbacksDispatched(c) PROVE ThreadInv'
<1>0. Fields /\ TasksInv /\ SourcesInv /\ PhaseInv /\ Accounted /\ FlushProgress
  BY DEF ThreadInv
<1>1. /\ dispatching[c] /\ pending[c] = <<>>
      /\ needs_flush' = [needs_flush EXCEPT ![c] = callbacks[c] # <<>>]
      /\ dispatching' = [dispatching EXCEPT ![c] = FALSE]
      /\ UNCHANGED <<type, impl, task_queue, posted, ran, callbacks, pending, queued,
                     invoked, main>>
  BY DEF CallbacksDispatched, AfterDispatch
<1>2. needs_flush' \in [Contexts -> BOOLEAN] /\ dispatching' \in [Contexts -> BOOLEAN]
  BY <1>0, <1>1 DEF Fields
<1>3. /\ needs_flush'[c] <=> callbacks[c] # <<>>
      /\ dispatching'[c] = FALSE
      /\ \A d \in Contexts \ {c} : /\ needs_flush'[d] = needs_flush[d]
                                  /\ dispatching'[d] = dispatching[d]
  BY <1>0, <1>1 DEF Fields
<1>4. Fields'
  BY <1>0, <1>1, <1>2 DEF Fields
<1>5. TasksInv'
  BY <1>0, <1>1, TasksKept DEF Marking
<1>6. SourcesInv'
  BY <1>0, <1>1, <1>3 DEF SourcesInv
<1>7. MainThreadContexts' = MainThreadContexts /\ MainThreadContexts \subseteq Contexts
      /\ "impl" \in Contexts
  BY <1>1 DEF MainThreadContexts, Contexts
<1>8. needs_flush[c]
  BY <1>0, <1>1 DEF SourcesInv
<1>9. ~needs_flush["impl"] => ~needs_flush'["impl"]
  BY <1>3, <1>7, <1>8
<1>10. main.at.pc # "loop" => \A d \in MainThreadContexts : ~dispatching'[d]
  BY <1>0, <1>3, <1>7 DEF PhaseInv
<1>11. PhaseInv'
  BY <1>0, <1>1, <1>7, <1>9, <1>10 DEF PhaseInv
<1>12. Accounted' /\ FlushProgress'
  BY <1>0, <1>1, <1>7 DEF Accounted, FlushProgress, Holds, Clean
<1> QED BY <1>4, <1>5, <1>6, <1>11, <1>12 DEF ThreadInv

-----------------------------------------------------------------------------
(* meta_thread_flush_callbacks, its beginnings. *)
LEMMA EnterKeeps ==
    ASSUME ThreadInv,
           UNCHANGED <<type, impl, task_queue, posted, ran, callbacks, needs_flush, pending,
                       dispatching, queued, invoked>>,
           main' = [main EXCEPT !.at.pc = "steal", !.callbacks = queued],
           \/ main.at.pc = "loop" /\ \A c \in MainThreadContexts : ~dispatching[c]
           \/ main.at.pc = "join" /\ impl = "gone"
    PROVE  ThreadInv'
<1>0. Fields /\ TasksInv /\ SourcesInv /\ PhaseInv /\ Accounted /\ FlushProgress
  BY DEF ThreadInv
<1>1. /\ main' \in Mains
      /\ main'.at = [main.at EXCEPT !.pc = "steal"]
      /\ main'.tasks = main.tasks /\ main'.callbacks = queued
  BY <1>0 DEF Fields, Mains, Ats
<1>2. /\ main'.at.pc = "steal" /\ main'.at.resetting = main.at.resetting
      /\ main'.at.list = main.at.list
  BY <1>0, <1>1 DEF Fields, Mains, Ats
<1>3. TasksInv'
  BY <1>0, <1>1, <1>2, TasksKept DEF Marking
<1>4. Fields'
  BY <1>0, <1>1 DEF Fields
<1>5. MainThreadContexts' = MainThreadContexts
  BY DEF MainThreadContexts
<1>6. PhaseInv'
  BY <1>0, <1>2, <1>5 DEF PhaseInv
<1>7. SourcesInv' /\ Accounted'
  BY <1>0, <1>2 DEF SourcesInv, Accounted, Holds
<1>8. queued <= queued
  BY <1>0 DEF Fields
<1>9. FlushProgress'
  BY <1>0, <1>1, <1>2, <1>8 DEF FlushProgress
<1> QED BY <1>3, <1>4, <1>6, <1>7, <1>9 DEF ThreadInv

(* The flush takes the callbacks of the main thread's own contexts. *)
LEMMA FlushStealKeeps ==
    ASSUME ThreadInv, FlushSteal PROVE ThreadInv'
<1>0. Fields /\ TasksInv /\ SourcesInv /\ PhaseInv /\ Accounted /\ FlushProgress
  BY DEF ThreadInv
<1> DEFINE l == callbacks["main"] \o (IF type = "USER" THEN callbacks["impl"] ELSE <<>>)
<1>1. /\ main.at.pc = "steal"
      /\ main' = [main EXCEPT !.at.pc = "run", !.at.again = FALSE, !.at.list = l]
      /\ callbacks' = [c \in Contexts |->
                         IF c \in MainThreadContexts THEN <<>> ELSE callbacks[c]]
      /\ UNCHANGED <<type, impl, task_queue, posted, ran, needs_flush, pending, dispatching,
                     queued, invoked>>
  BY DEF FlushSteal
<1>2. MainThreadContexts' = MainThreadContexts /\ MainThreadContexts \subseteq Contexts
      /\ "impl" \in Contexts /\ "main" \in Contexts
  BY <1>1 DEF MainThreadContexts, Contexts
<1>3. /\ l \in Seq(Nat)
      /\ \A i : i \in Range(l) <=> \E c \in MainThreadContexts : i \in Range(callbacks[c])
  <2>1. callbacks["main"] \in Seq(Nat) /\ callbacks["impl"] \in Seq(Nat)
    BY <1>0, <1>2 DEF Fields
  <2>2. CASE type = "USER"
    BY <2>1, <2>2, RangeConcat DEF MainThreadContexts
  <2>3. CASE type # "USER"
    BY <2>1, <2>3, RangeConcat, RangeNone DEF MainThreadContexts
  <2> QED BY <2>2, <2>3
<1> HIDE DEF l
<1>4. /\ main' \in Mains
      /\ main'.tasks = main.tasks /\ main'.callbacks = main.callbacks
      /\ main'.at.pc = "run" /\ main'.at.resetting = main.at.resetting
      /\ main'.at.list = l
  <2>1. main'.at = [[[main.at EXCEPT !.pc = "run"] EXCEPT !.again = FALSE] EXCEPT !.list = l]
        /\ main'.tasks = main.tasks /\ main'.callbacks = main.callbacks
    BY <1>0, <1>1 DEF Fields, Mains, Ats
  <2>2. /\ main'.at \in Ats /\ main'.at.pc = "run"
        /\ main'.at.resetting = main.at.resetting /\ main'.at.list = l
    BY <1>0, <1>3, <2>1 DEF Fields, Mains, Ats
  <2>3. main' = [main EXCEPT !.at = main'.at]
    BY <1>0, <1>1 DEF Fields, Mains
  <2> QED BY <1>0, <2>1, <2>2, <2>3 DEF Fields, Mains
<1>5. /\ callbacks' \in [Contexts -> Seq(Nat)]
      /\ \A c \in MainThreadContexts : callbacks'[c] = <<>>
      /\ \A c \in Contexts \ MainThreadContexts : callbacks'[c] = callbacks[c]
  BY <1>0, <1>1, <1>2, RangeNone DEF Fields
<1>6. Fields'
  BY <1>0, <1>1, <1>4, <1>5 DEF Fields
<1>7. TasksInv'
  BY <1>0, <1>1, <1>4, TasksKept DEF Marking
<1>8. SourcesInv'
  BY <1>0, <1>1, <1>2, <1>5 DEF SourcesInv
<1>9. main.at.resetting => callbacks'["impl"] = <<>>
  <2>1. CASE type = "USER"
    BY <1>5, <2>1 DEF MainThreadContexts
  <2>2. CASE type = "KERNEL" /\ main.at.resetting
    <3>1. impl = "gone" /\ ~needs_flush["impl"]
      BY <1>0, <1>1, <2>2 DEF PhaseInv
    <3>2. callbacks["impl"] = <<>>
      BY <1>0, <1>2, <3>1 DEF SourcesInv
    <3> QED BY <1>2, <1>5, <3>2
  <2> QED BY <1>0, <2>1, <2>2 DEF Fields
<1>10. PhaseInv'
  BY <1>0, <1>1, <1>2, <1>4, <1>9 DEF PhaseInv
<1>11. \A c \in MainThreadContexts : pending[c] = <<>>
  BY <1>0, <1>1, <1>2 DEF PhaseInv, SourcesInv
<1>12. main.at.list = <<>>
  BY <1>0, <1>1 DEF FlushProgress
<1>13. Accounted'
  <2> SUFFICES ASSUME NEW i
               PROVE  i \in 1..queued <=> \/ i \in invoked \/ i \in Range(l)
                                          \/ \E c \in Contexts : i \in Holds(c)'
    BY <1>1, <1>4 DEF Accounted
  <2>1. i \in 1..queued <=> i \in invoked \/ \E c \in Contexts : i \in Holds(c)
    BY <1>0, <1>12, RangeNone DEF Accounted
  <2>2. (\E c \in Contexts : i \in Holds(c)) <=>
          i \in Range(l) \/ \E c \in Contexts \ MainThreadContexts : i \in Holds(c)
    BY <1>2, <1>3, <1>11, RangeNone DEF Holds
  <2>3. (\E c \in Contexts : i \in Holds(c)') <=>
          \E c \in Contexts \ MainThreadContexts : i \in Holds(c)
    BY <1>1, <1>2, <1>5, <1>11, RangeNone DEF Holds
  <2> QED BY <2>1, <2>2, <2>3
<1>14. \A c \in MainThreadContexts : Clean(c)'
  BY <1>1, <1>5, <1>11, RangeNone DEF Clean, Holds
<1>15. FlushProgress'
  BY <1>0, <1>1, <1>2, <1>4, <1>14 DEF FlushProgress
<1> QED BY <1>6, <1>7, <1>8, <1>10, <1>13, <1>15 DEF ThreadInv

LEMMA FlushRunKeeps ==
    ASSUME ThreadInv, NEW then \in Reactions("main"), FlushRun(then) PROVE ThreadInv'
<1>0. Fields /\ TasksInv /\ SourcesInv /\ PhaseInv /\ Accounted /\ FlushProgress
  BY DEF ThreadInv
<1> DEFINE l == main.at.list
<1>1. /\ main.at.pc = "run" /\ l # <<>>
      /\ invoked' = invoked \cup {Head(l)}
      /\ main' = [main EXCEPT !.at.list = Tail(@), !.at.again = TRUE]
      /\ Effect(then)
      /\ UNCHANGED <<type, impl, ran, pending, dispatching>>
  BY DEF FlushRun
<1>2. /\ NoCallback \/ \E d \in Contexts \ {"impl"} : QueueCallback(d)
      /\ Queueing
      /\ \/ UNCHANGED <<task_queue, posted>>
         \/ /\ task_queue' = Append(task_queue, Task(posted + 1, "none"))
            /\ posted' = posted + 1
  <2>1. "main" \in Contexts
    BY DEF Contexts
  <2> QED BY <1>1, <2>1, EffectProperties
<1>3. /\ Head(l) \in Nat /\ Tail(l) \in Seq(Nat) /\ Range(l) = {Head(l)} \cup Range(Tail(l))
  <2>1. l \in Seq(Nat)
    BY <1>0 DEF Fields, Mains, Ats
  <2> QED BY <1>1, <2>1, RangeTail
<1>4. /\ main' \in Mains
      /\ main'.tasks = main.tasks /\ main'.callbacks = main.callbacks
      /\ main'.at.pc = "run" /\ main'.at.resetting = main.at.resetting
      /\ main'.at.list = Tail(l)
  <2>1. main'.at = [[main.at EXCEPT !.list = Tail(l)] EXCEPT !.again = TRUE]
        /\ main'.tasks = main.tasks /\ main'.callbacks = main.callbacks
    BY <1>0, <1>1 DEF Fields, Mains, Ats
  <2>2. /\ main'.at \in Ats /\ main'.at.pc = "run"
        /\ main'.at.resetting = main.at.resetting /\ main'.at.list = Tail(l)
    BY <1>0, <1>1, <1>3, <2>1 DEF Fields, Mains, Ats
  <2>3. main' = [main EXCEPT !.at = main'.at]
    BY <1>0, <1>1 DEF Fields, Mains
  <2> QED BY <1>0, <2>1, <2>2, <2>3 DEF Fields, Mains
<1>5. TasksInv' /\ task_queue' \in Seq(Tasks) /\ posted' \in Nat
  <2>1. (Marking' <=> Marking) /\ main'.tasks = main.tasks
        /\ (main'.at.resetting => main.at.resetting) /\ ran' = ran
    BY <1>1, <1>4 DEF Marking
  <2>2. CASE UNCHANGED <<task_queue, posted>>
    BY <1>0, <2>1, <2>2, TasksKept DEF Fields
  <2>3. CASE task_queue' = Append(task_queue, Task(posted + 1, "none")) /\ posted' = posted + 1
    BY <1>0, <2>1, <2>3, TasksPosted
  <2> QED BY <1>2, <2>2, <2>3
<1>6. /\ callbacks' \in [Contexts -> Seq(Nat)] /\ queued' \in Nat /\ queued' >= queued
      /\ needs_flush' \in [Contexts -> BOOLEAN]
      /\ \A d \in Contexts : needs_flush[d] => needs_flush'[d]
      /\ \A d \in Contexts : callbacks'[d] # <<>> => needs_flush'[d]
      /\ \A d \in Contexts : \A i \in Range(callbacks'[d]) :
           i \in Range(callbacks[d]) \/ (i \in Nat /\ i > queued)
  BY <1>0, <1>2, QueueingKeeps
<1>a. invoked' \in SUBSET Nat
  BY <1>0, <1>1, <1>3 DEF Fields
<1>7. Fields'
  BY <1>0, <1>1, <1>4, <1>5, <1>6, <1>a DEF Fields
<1>8. SourcesInv'
  BY <1>0, <1>1, <1>6 DEF SourcesInv
<1>9. callbacks'["impl"] = callbacks["impl"] /\ needs_flush'["impl"] = needs_flush["impl"]
  BY <1>0, <1>2, ImplUntouched
<1>10. MainThreadContexts' = MainThreadContexts /\ MainThreadContexts \subseteq Contexts
  BY <1>1 DEF MainThreadContexts, Contexts
<1>11. PhaseInv'
  BY <1>0, <1>1, <1>4, <1>9, <1>10 DEF PhaseInv
<1>12. \A i : Taken(i)' <=> Taken(i)
  BY <1>1, <1>3, <1>4 DEF Taken
<1>13. Accounted'
  BY <1>0, <1>2, <1>12, AccountedKept
<1>14. main.callbacks \in Nat /\ queued \in Nat /\ main.callbacks <= queued
  BY <1>0 DEF Fields, Mains, FlushProgress
<1>15. \A d \in Contexts : \A i \in Holds(d)' : i \in Holds(d) \/ (i \in Nat /\ i > queued)
  BY <1>1, <1>6 DEF Holds
<1>16. \A i \in Nat : i > queued => i > main.callbacks
  BY <1>14
<1>17. \A c \in MainThreadContexts : Clean(c)'
  <2>1. \A c \in MainThreadContexts : Clean(c)
    BY <1>0, <1>1 DEF FlushProgress
  <2> QED BY <1>4, <1>10, <1>15, <1>16, <2>1 DEF Clean
<1>18. main'.callbacks <= queued'
  BY <1>4, <1>6, <1>14
<1>19. FlushProgress'
  BY <1>4, <1>10, <1>17, <1>18 DEF FlushProgress
<1> QED BY <1>5, <1>7, <1>8, <1>11, <1>13, <1>19 DEF ThreadInv

(* The flush goes on to the sources of other threads, or starts over. *)
LEMMA MoveKeeps ==
    ASSUME ThreadInv,
           UNCHANGED <<type, impl, task_queue, posted, ran, callbacks, needs_flush, pending,
                       dispatching, queued, invoked>>,
           main' \in Mains, main'.tasks = main.tasks, main'.callbacks = main.callbacks,
           main'.at.list = main.at.list, main'.at.resetting = main.at.resetting,
           main.at.pc \in {"run", "wait"}, main.at.list = <<>>,
           main'.at.pc \in {"wait", "steal"},
           main'.at.pc = "wait" => \A c \in Contexts \ main'.at.todo : Clean(c)
    PROVE  ThreadInv'
<1>0. Fields /\ TasksInv /\ SourcesInv /\ PhaseInv /\ Accounted /\ FlushProgress
  BY DEF ThreadInv
<1>1. TasksInv'
  BY <1>0, TasksKept DEF Marking
<1>2. Fields'
  BY <1>0 DEF Fields
<1>3. MainThreadContexts' = MainThreadContexts
  BY DEF MainThreadContexts
<1>4. PhaseInv'
  BY <1>0, <1>3 DEF PhaseInv
<1>5. SourcesInv' /\ Accounted'
  BY <1>0 DEF SourcesInv, Accounted, Holds
<1>6. \A c : Clean(c)' <=> Clean(c)
  BY DEF Clean, Holds
<1>7. FlushProgress'
  BY <1>0, <1>3, <1>6 DEF FlushProgress
<1> QED BY <1>1, <1>2, <1>4, <1>5, <1>7 DEF ThreadInv

LEMMA FlushRanKeeps ==
    ASSUME ThreadInv, FlushRan PROVE ThreadInv'
<1>0. Fields /\ FlushProgress
  BY DEF ThreadInv
<1>1. /\ main.at.pc = "run" /\ main.at.list = <<>>
      /\ main' = [main EXCEPT !.at.pc = "wait", !.at.todo = Contexts \ MainThreadContexts]
      /\ UNCHANGED <<type, impl, task_queue, posted, ran, callbacks, needs_flush, pending,
                     dispatching, queued, invoked>>
  BY DEF FlushRan
<1> DEFINE T == Contexts \ MainThreadContexts
<1>2. T \in SUBSET Contexts
  OBVIOUS
<1>3. \A c \in Contexts \ T : Clean(c)
  BY <1>0, <1>1 DEF FlushProgress
<1> HIDE DEF T
<1>4. main'.at = [[main.at EXCEPT !.pc = "wait"] EXCEPT !.todo = T]
      /\ main'.tasks = main.tasks /\ main'.callbacks = main.callbacks
  BY <1>0, <1>1 DEF Fields, Mains, Ats, T
<1>5. /\ main'.at \in Ats /\ main'.at.pc = "wait" /\ main'.at.todo = T
      /\ main'.at.resetting = main.at.resetting /\ main'.at.list = main.at.list
  BY <1>0, <1>2, <1>4 DEF Fields, Mains, Ats
<1>6. main' = [main EXCEPT !.at = main'.at]
  BY <1>0, <1>1 DEF Fields, Mains
<1>7. main' \in Mains
  BY <1>0, <1>5, <1>6 DEF Fields, Mains
<1> QED BY <1>1, <1>3, <1>4, <1>5, <1>7, MoveKeeps

LEMMA FlushBlockKeeps ==
    ASSUME ThreadInv, NEW c \in Contexts, FlushBlock(c) PROVE ThreadInv'
<1>0. Fields /\ FlushProgress
  BY DEF ThreadInv
<1>1. /\ main.at.pc = "wait"
      /\ main' = [main EXCEPT !.at.on = c, !.at.again = TRUE]
      /\ UNCHANGED <<type, impl, task_queue, posted, ran, callbacks, needs_flush, pending,
                     dispatching, queued, invoked>>
  BY DEF FlushBlock
<1>2. main'.at = [[main.at EXCEPT !.on = c] EXCEPT !.again = TRUE]
      /\ main'.tasks = main.tasks /\ main'.callbacks = main.callbacks
  BY <1>0, <1>1 DEF Fields, Mains, Ats
<1>3. /\ main'.at \in Ats /\ main'.at.pc = "wait" /\ main'.at.todo = main.at.todo
      /\ main'.at.resetting = main.at.resetting /\ main'.at.list = main.at.list
  BY <1>0, <1>1, <1>2 DEF Fields, Mains, Ats
<1>4. main' = [main EXCEPT !.at = main'.at]
  BY <1>0, <1>1 DEF Fields, Mains
<1>5. main' \in Mains
  BY <1>0, <1>3, <1>4 DEF Fields, Mains
<1>6. main.at.list = <<>> /\ \A d \in Contexts \ main'.at.todo : Clean(d)
  BY <1>0, <1>1, <1>3 DEF FlushProgress
<1> QED BY <1>1, <1>2, <1>3, <1>5, <1>6, MoveKeeps

(* A source that needs no flush holds no callback, stolen or not. *)
LEMMA FlushPassKeeps ==
    ASSUME ThreadInv, NEW c \in Contexts, FlushPass(c) PROVE ThreadInv'
<1>0. Fields /\ SourcesInv /\ FlushProgress
  BY DEF ThreadInv
<1>1. /\ main.at.pc = "wait" /\ ~needs_flush[c]
      /\ main' = [main EXCEPT !.at.on = "none", !.at.todo = @ \ {c}]
      /\ UNCHANGED <<type, impl, task_queue, posted, ran, callbacks, needs_flush, pending,
                     dispatching, queued, invoked>>
  BY DEF FlushPass
<1> DEFINE T == main.at.todo \ {c}
<1>2. T \in SUBSET Contexts
  BY <1>0 DEF Fields, Mains, Ats
<1>3. callbacks[c] = <<>> /\ pending[c] = <<>>
  BY <1>0, <1>1 DEF SourcesInv
<1>4. Clean(c)
  BY <1>3, RangeNone DEF Clean, Holds
<1>5. \A d \in Contexts \ T : Clean(d)
  BY <1>0, <1>1, <1>4 DEF FlushProgress
<1>6. main'.at = [[main.at EXCEPT !.on = "none"] EXCEPT !.todo = T]
      /\ main'.tasks = main.tasks /\ main'.callbacks = main.callbacks
  BY <1>0, <1>1 DEF Fields, Mains, Ats
<1> HIDE DEF T
<1>7. /\ main'.at \in Ats /\ main'.at.pc = "wait" /\ main'.at.todo = T
      /\ main'.at.resetting = main.at.resetting /\ main'.at.list = main.at.list
  BY <1>0, <1>1, <1>2, <1>6 DEF Fields, Mains, Ats
<1>8. main' = [main EXCEPT !.at = main'.at]
  BY <1>0, <1>1 DEF Fields, Mains
<1>9. main' \in Mains
  BY <1>0, <1>7, <1>8 DEF Fields, Mains
<1>10. main.at.list = <<>>
  BY <1>0, <1>1 DEF FlushProgress
<1> QED BY <1>1, <1>5, <1>6, <1>7, <1>9, <1>10, MoveKeeps

LEMMA FlushAgainKeeps ==
    ASSUME ThreadInv, FlushAgain PROVE ThreadInv'
<1>0. Fields /\ FlushProgress
  BY DEF ThreadInv
<1>1. /\ main.at.pc = "wait"
      /\ main' = [main EXCEPT !.at.pc = "steal"]
      /\ UNCHANGED <<type, impl, task_queue, posted, ran, callbacks, needs_flush, pending,
                     dispatching, queued, invoked>>
  BY DEF FlushAgain
<1>2. main' \in Mains /\ main'.at = [main.at EXCEPT !.pc = "steal"]
      /\ main'.tasks = main.tasks /\ main'.callbacks = main.callbacks
  BY <1>0, <1>1 DEF Fields, Mains, Ats
<1>3. /\ main'.at.pc = "steal"
      /\ main'.at.resetting = main.at.resetting /\ main'.at.list = main.at.list
  BY <1>0, <1>2 DEF Fields, Mains, Ats
<1>4. main.at.list = <<>>
  BY <1>0, <1>1 DEF FlushProgress
<1> QED BY <1>1, <1>2, <1>3, <1>4, MoveKeeps

(* The flush ends when it has dealt with every context. *)
LEMMA FlushedAll ==
    ASSUME ThreadInv, main.at.pc = "wait", main.at.todo = {}
    PROVE  1..main.callbacks \subseteq invoked
<1>1. Fields /\ Accounted /\ FlushProgress
  BY DEF ThreadInv
<1>2. main.at.list = <<>> /\ main.callbacks <= queued /\ \A c \in Contexts : Clean(c)
  BY <1>1 DEF FlushProgress
<1>3. main.callbacks \in Nat /\ queued \in Nat
  BY <1>1 DEF Fields, Mains
<1>4. ASSUME NEW i \in 1..main.callbacks PROVE i \in invoked
  <2>1. i \in 1..queued /\ ~(i > main.callbacks)
    BY <1>2, <1>3
  <2>2. \A c \in Contexts : i \notin Holds(c)
    BY <1>2, <2>1 DEF Clean
  <2>3. i \notin Range(main.at.list)
    BY <1>2, RangeNone
  <2> QED BY <1>1, <2>1, <2>2, <2>3 DEF Accounted
<1> QED BY <1>4

LEMMA FlushDoneKeeps ==
    ASSUME ThreadInv, FlushDone PROVE ThreadInv'
<1>0. Fields /\ TasksInv /\ SourcesInv /\ PhaseInv /\ Accounted /\ FlushProgress
  BY DEF ThreadInv
<1>1. /\ main.at.pc = "wait" /\ main.at.todo = {}
      /\ main' = [main EXCEPT !.at = AtLoop]
      /\ UNCHANGED <<task_queue, posted, ran, callbacks, needs_flush, pending,
                     dispatching, queued, invoked>>
  BY DEF FlushDone
<1>2. AtLoop \in Ats /\ AtLoop.pc = "loop" /\ AtLoop.resetting = FALSE /\ AtLoop.list = <<>>
  BY RangeNone DEF AtLoop, Ats
<1>3. /\ main' \in Mains /\ main'.at = AtLoop
      /\ main'.tasks = main.tasks /\ main'.callbacks = main.callbacks
  BY <1>0, <1>1, <1>2 DEF Fields, Mains
<1>4. /\ type' \in {"USER", "KERNEL"} /\ impl' \in {"running", "gone"}
      /\ type' = "USER" => impl' = "gone"
      /\ type' = "KERNEL" => impl' = "running"
  <2>1. CASE main.at.resetting
    BY <1>0, <2>1 DEF FlushDone, Fields
  <2>2. CASE ~main.at.resetting
    BY <1>0, <2>2 DEF FlushDone, Fields, PhaseInv
  <2> QED BY <2>1, <2>2
<1>5. Fields'
  BY <1>0, <1>1, <1>3, <1>4 DEF Fields
<1>6. TasksInv'
  BY <1>0, <1>1, <1>2, <1>3, TasksKept DEF Marking
<1>7. PhaseInv'
  BY <1>2, <1>3, <1>4 DEF PhaseInv
<1>8. main.at.list = <<>>
  BY <1>0, <1>1 DEF FlushProgress
<1>9. SourcesInv' /\ Accounted'
  BY <1>0, <1>1, <1>2, <1>3, <1>8 DEF SourcesInv, Accounted, Holds
<1>10. 1..main.callbacks \subseteq invoked
  BY <1>1, FlushedAll
<1>11. FlushProgress'
  BY <1>0, <1>1, <1>2, <1>3, <1>10 DEF FlushProgress
<1> QED BY <1>5, <1>6, <1>7, <1>9, <1>11 DEF ThreadInv

-----------------------------------------------------------------------------
(* meta_thread_reset_thread_type puts the marker behind what was posted. *)
LEMMA ResetKeeps ==
    ASSUME ThreadInv, meta_thread_reset_thread_type PROVE ThreadInv'
<1>0. Fields /\ TasksInv /\ SourcesInv /\ PhaseInv /\ Accounted /\ FlushProgress
  BY DEF ThreadInv
<1> DEFINE p == IF type = "USER" THEN "drain" ELSE "join"
           q == task_queue
<1>1. /\ main.at.pc = "loop" /\ \A c \in MainThreadContexts : ~dispatching[c]
      /\ task_queue' = Append(task_queue, TERMINATE)
      /\ main' = [main EXCEPT !.at.resetting = TRUE, !.tasks = posted, !.at.pc = p]
      /\ UNCHANGED <<type, impl, posted, ran, callbacks, needs_flush, pending,
                     dispatching, queued, invoked>>
  BY DEF meta_thread_reset_thread_type, MainFree, Marked
<1>2. p \in {"drain", "join"}
  OBVIOUS
<1>3. /\ main' \in Mains
      /\ main'.tasks = posted /\ main'.callbacks = main.callbacks
      /\ main'.at.pc = p /\ main'.at.resetting = TRUE /\ main'.at.list = main.at.list
  <2> HIDE DEF p
  <2>1. main'.at = [[main.at EXCEPT !.resetting = TRUE] EXCEPT !.pc = p]
        /\ main'.tasks = posted /\ main'.callbacks = main.callbacks
    BY <1>0, <1>1 DEF Fields, Mains, Ats
  <2>2. /\ main'.at \in Ats /\ main'.at.pc = p
        /\ main'.at.resetting = TRUE /\ main'.at.list = main.at.list
    BY <1>0, <1>2, <2>1 DEF Fields, Mains, Ats
  <2>3. main' = [[main EXCEPT !.at = main'.at] EXCEPT !.tasks = posted]
    BY <1>0, <1>1 DEF Fields, Mains
  <2> QED BY <1>0, <2>1, <2>2, <2>3 DEF Fields, Mains
<1>4. type = "KERNEL" => impl = "running"
  BY <1>0, <1>1 DEF PhaseInv, Fields
<1>5. Marking' /\ ~Marking
  BY <1>0, <1>1, <1>3, <1>4 DEF Marking, Fields
<1>6. TERMINATE \in Tasks
  BY DEF TERMINATE, Tasks
<1>7. /\ q \in Seq(Tasks) /\ q' \in Seq(Tasks) /\ Len(q') = Len(q) + 1
      /\ \A i \in 1..Len(q) : q'[i] = q[i]
      /\ q'[Len(q) + 1] = TERMINATE
  BY <1>0, <1>1, <1>6, AppendProperties DEF Fields
<1>8. Len(q) \in Nat /\ Len(ran) \in Nat
  BY <1>0, LenProperties DEF Fields
<1>9. /\ \A i \in 1..Len(q) : q[i].id = Len(ran) + i
      /\ posted = Len(ran) + Len(q)
  BY <1>0, <1>5 DEF TasksInv, Numbered
<1>10. Mark' = Len(q) + 1
  BY <1>1, <1>3, <1>8, <1>9 DEF Mark
<1>11. Mark' \in 1..Len(q') /\ posted' = Len(ran') + Len(q') - 1
  BY <1>1, <1>7, <1>8, <1>9, <1>10
<1>12. ASSUME NEW i \in 1..Len(q'), i # Mark'
       PROVE  q'[i].id = Len(ran') + (IF i < Mark' THEN i ELSE i - 1)
  <2>1. i \in 1..Len(q) /\ i < Mark'
    BY <1>7, <1>8, <1>10, <1>12
  <2> QED BY <1>1, <1>7, <1>9, <2>1
<1>13. TasksInv'
  BY <1>0, <1>1, <1>5, <1>7, <1>10, <1>11, <1>12 DEF TasksInv, Numbered
<1>14. Fields'
  BY <1>0, <1>1, <1>3, <1>7 DEF Fields
<1>15. MainThreadContexts' = MainThreadContexts
  BY <1>1 DEF MainThreadContexts
<1>16. PhaseInv'
  BY <1>0, <1>1, <1>3, <1>4, <1>15 DEF PhaseInv, Fields
<1>17. SourcesInv' /\ Accounted'
  BY <1>0, <1>1, <1>3 DEF SourcesInv, Accounted, Holds
<1>18. FlushProgress'
  BY <1>0, <1>1, <1>2, <1>3 DEF FlushProgress
<1> QED BY <1>13, <1>14, <1>16, <1>17, <1>18 DEF ThreadInv

-----------------------------------------------------------------------------
LEMMA ThreadStart == Init => ThreadInv
<1> SUFFICES ASSUME Init PROVE ThreadInv
  OBVIOUS
<1>1. AtLoop \in Ats /\ AtLoop.pc = "loop" /\ AtLoop.resetting = FALSE /\ AtLoop.list = <<>>
  BY RangeNone DEF AtLoop, Ats
<1>2. /\ main \in Mains /\ main.at = AtLoop /\ main.callbacks = 0
  BY <1>1 DEF Init, Mains
<1>3. /\ task_queue = <<>> /\ ran = <<>> /\ posted = 0 /\ queued = 0 /\ invoked = {}
      /\ callbacks = [c \in Contexts |-> <<>>] /\ pending = [c \in Contexts |-> <<>>]
      /\ needs_flush = [c \in Contexts |-> FALSE] /\ dispatching = [c \in Contexts |-> FALSE]
      /\ type \in {"USER", "KERNEL"}
      /\ impl = IF type = "KERNEL" THEN "running" ELSE "gone"
  BY DEF Init
<1>4. Len(task_queue) = 0 /\ Len(ran) = 0
  BY <1>3, EmptySeq
<1>5. Fields
  <2>1. /\ callbacks \in [Contexts -> Seq(Nat)] /\ pending \in [Contexts -> Seq(Nat)]
        /\ task_queue \in Seq(Tasks) /\ ran \in Seq(Nat)
    BY <1>3, RangeNone
  <2>2. needs_flush \in [Contexts -> BOOLEAN] /\ dispatching \in [Contexts -> BOOLEAN]
    BY <1>3
  <2>3. posted \in Nat /\ queued \in Nat
    BY <1>3
  <2> QED BY <1>2, <1>3, <2>1, <2>2, <2>3 DEF Fields
<1>6. TasksInv
  <2>1. ~Marking
    BY <1>1, <1>2 DEF Marking
  <2>2. ran = [i \in 1..Len(ran) |-> i]
    BY <1>3, <1>4
  <2> QED BY <1>1, <1>2, <1>3, <1>4, <2>1, <2>2 DEF TasksInv, Numbered
<1>7. SourcesInv
  BY <1>3 DEF SourcesInv
<1>8. PhaseInv
  BY <1>1, <1>2, <1>3 DEF PhaseInv
<1>9. \A c \in Contexts : Holds(c) = {}
  BY <1>3, RangeNone DEF Holds
<1>10. Accounted
  BY <1>1, <1>2, <1>3, <1>9, RangeNone DEF Accounted
<1>11. FlushProgress
  BY <1>1, <1>2, <1>3 DEF FlushProgress
<1> QED BY <1>5, <1>6, <1>7, <1>8, <1>10, <1>11 DEF ThreadInv

LEMMA ThreadStep == ThreadInv /\ [Next]_vars => ThreadInv'
<1> SUFFICES ASSUME ThreadInv, [Next]_vars PROVE ThreadInv'
  OBVIOUS
<1>1. ASSUME NEW then \in Contexts \cup {"none"}, meta_thread_post_impl_task(then)
      PROVE  ThreadInv'
  BY <1>1, PostKeeps
<1>2. CASE meta_thread_run_impl_task_sync
  BY <1>2, SyncKeeps
<1>3. CASE SyncDone
  BY <1>3, SyncDoneKeeps
<1>4. CASE meta_thread_impl_dispatch
  BY <1>4, ImplDispatchKeeps
<1>5. ASSUME NEW c \in Contexts, SourceStep(c) PROVE ThreadInv'
  BY <1>5, StealKeeps, CallbackKeeps, SourceDoneKeeps DEF SourceStep
<1>6. CASE meta_thread_flush_callbacks
  BY <1>6, EnterKeeps DEF meta_thread_flush_callbacks, MainFree
<1>7. CASE FlushStep
  BY <1>7, FlushStealKeeps, FlushRanKeeps, FlushAgainKeeps, FlushDoneKeeps, FlushRunKeeps,
     FlushBlockKeeps, FlushPassKeeps DEF FlushStep
<1>8. CASE meta_thread_reset_thread_type
  BY <1>8, ResetKeeps
<1>9. CASE Joined
  BY <1>9, EnterKeeps DEF Joined
<1>10. CASE UNCHANGED vars
  <2>1. UNCHANGED <<type, impl, task_queue, posted, ran, callbacks, needs_flush, pending,
                    dispatching, queued, invoked, main>>
    BY <1>10 DEF vars
  <2> QED BY <2>1 DEF ThreadInv, Fields, TasksInv, Numbered, Mark, Marking, SourcesInv,
                      PhaseInv, Accounted, FlushProgress, Holds, Clean, MainThreadContexts
<1> QED BY <1>1, <1>2, <1>3, <1>4, <1>5, <1>6, <1>7, <1>8, <1>9, <1>10 DEF Next

(* The marker is there once while a thread is torn down, else not at all. *)
LEMMA OneMarker ==
    ASSUME Fields, TasksInv
    PROVE  Cardinality({i \in DOMAIN task_queue : task_queue[i] = TERMINATE})
             = IF Marking THEN 1 ELSE 0
<1> DEFINE M == {i \in DOMAIN task_queue : task_queue[i] = TERMINATE}
<1>1. /\ DOMAIN task_queue = 1..Len(task_queue) /\ Len(task_queue) \in Nat
      /\ Len(ran) \in Nat /\ main.tasks \in Nat
  BY LenProperties DEF Fields, Mains
<1>2. TERMINATE.id = 0
  BY DEF TERMINATE
<1>3. CASE Marking
  <2>1. /\ Mark \in 1..Len(task_queue) /\ task_queue[Mark] = TERMINATE
        /\ \A i \in 1..Len(task_queue) : i # Mark =>
             task_queue[i].id = Len(ran) + (IF i < Mark THEN i ELSE i - 1)
    BY <1>3 DEF TasksInv, Numbered
  <2>2. ASSUME NEW i \in 1..Len(task_queue), i # Mark PROVE task_queue[i] # TERMINATE
    <3>1. task_queue[i].id = Len(ran) + (IF i < Mark THEN i ELSE i - 1)
      BY <2>1, <2>2
    <3>2. Mark \in 1..Len(task_queue)
      BY <2>1
    <3>3. Len(ran) + (IF i < Mark THEN i ELSE i - 1) # 0
      BY <1>1, <2>2, <3>2
    <3> QED BY <1>2, <3>1, <3>3
  <2>3. M = {Mark}
    BY <1>1, <2>1, <2>2
  <2> QED BY <1>3, <2>3, FS_Singleton
<1>4. CASE ~Marking
  <2>1. ASSUME NEW i \in 1..Len(task_queue) PROVE task_queue[i] # TERMINATE
    <3>1. task_queue[i].id = Len(ran) + i
      BY <1>4 DEF TasksInv, Numbered
    <3>2. Len(ran) + i # 0
      BY <1>1
    <3> QED BY <1>2, <3>1, <3>2
  <2>2. M = {}
    BY <1>1, <2>1
  <2> QED BY <1>4, <2>2, FS_EmptySet
<1> QED BY <1>3, <1>4

LEMMA ThreadImplied == ThreadInv => FlushInv
<1> SUFFICES ASSUME ThreadInv PROVE FlushInv
  OBVIOUS
<1>0. Fields /\ TasksInv /\ SourcesInv /\ PhaseInv /\ Accounted /\ FlushProgress
  BY DEF ThreadInv
<1>1. Cardinality({i \in DOMAIN task_queue : task_queue[i] = TERMINATE})
        = IF main.at.pc = "drain" \/ (main.at.pc = "join" /\ impl = "running") THEN 1 ELSE 0
  BY <1>0, OneMarker DEF Marking
<1>2. invoked \subseteq 1..queued
  BY <1>0 DEF Accounted
<1>3. TypeOK
  BY <1>0, <1>1, <1>2 DEF TypeOK, Fields, TasksInv, SourcesInv, PhaseInv
<1>4. FlushedBefore
  BY <1>0 DEF FlushedBefore, FlushProgress
<1> QED BY <1>3, <1>4 DEF FlushInv

(* Tasks run once and in the order they were posted, every callback is in  *)
(* one place until it has run, and meta_thread_flush_callbacks returns     *)
(* only when all callbacks queued before it have run to their end, those   *)
(* in the hands of other threads included (meta-thread.c:957-1022).        *)
THEOREM ThreadFlushCorrect == Spec => []FlushInv
<1>1. Init => ThreadInv
  BY ThreadStart
<1>2. ThreadInv /\ [Next]_vars => ThreadInv'
  BY ThreadStep
<1> QED BY <1>1, <1>2, ThreadImplied, PTL DEF Spec

(* Only the end of a flush ends a change of the thread type, and by then   *)
(* nothing is left of the old thread.                                      *)
LEMMA ResetEnds ==
    ASSUME ThreadInv, [Next]_vars, main.at.resetting, ~main'.at.resetting
    PROVE  /\ 1..main.tasks \subseteq Range(ran)
           /\ callbacks["impl"] = <<>> /\ pending["impl"] = <<>>
<1>0. Fields /\ TasksInv /\ SourcesInv /\ PhaseInv /\ Accounted /\ FlushProgress
  BY DEF ThreadInv
<1>1. main.at.pc \notin {"loop", "sync"}
  BY <1>0 DEF PhaseInv
<1>2. main' # main
  OBVIOUS
<1>3. FlushDone
  <2>1. ASSUME NEW p, main' = [main EXCEPT !.at.pc = p] \/ main' = [main EXCEPT !.at.pc = p, !.callbacks = queued]
        PROVE  FALSE
    <3>1. main'.at = [main.at EXCEPT !.pc = p]
      BY <1>0, <2>1 DEF Fields, Mains, Ats
    <3>2. main'.at.resetting = main.at.resetting
      BY <1>0, <3>1 DEF Fields, Mains, Ats
    <3> QED BY <3>2
  <2>2. ~meta_thread_impl_dispatch
    BY <1>2, <2>1 DEF meta_thread_impl_dispatch
  <2>3. ~Joined
    BY <2>1 DEF Joined
  <2>4. ~FlushAgain
    BY <2>1 DEF FlushAgain
  <2>5. ASSUME FlushSteal PROVE FALSE
    <3>1. PICK l : main' = [main EXCEPT !.at.pc = "run", !.at.again = FALSE, !.at.list = l]
      BY <2>5 DEF FlushSteal
    <3>2. main'.at = [[[main.at EXCEPT !.pc = "run"] EXCEPT !.again = FALSE] EXCEPT !.list = l]
      BY <1>0, <3>1 DEF Fields, Mains, Ats
    <3>3. main'.at.resetting = main.at.resetting
      BY <1>0, <3>2 DEF Fields, Mains, Ats
    <3> QED BY <3>3
  <2>6. ~FlushRan
    BY <1>0, ZenonT(60) DEF FlushRan, Fields, Mains, Ats
  <2>7. ASSUME NEW then, FlushRun(then) PROVE FALSE
    <3>1. main' = [main EXCEPT !.at.list = Tail(@), !.at.again = TRUE]
      BY <2>7 DEF FlushRun
    <3>2. main'.at = [[main.at EXCEPT !.list = Tail(main.at.list)] EXCEPT !.again = TRUE]
      BY <1>0, <3>1 DEF Fields, Mains, Ats
    <3>3. main'.at.resetting = main.at.resetting
      BY <1>0, <3>2 DEF Fields, Mains, Ats
    <3> QED BY <3>3
  <2>8. ASSUME NEW c, FlushBlock(c) \/ FlushPass(c) PROVE FALSE
    <3>1. \/ main' = [main EXCEPT !.at.on = c, !.at.again = TRUE]
          \/ main' = [main EXCEPT !.at.on = "none", !.at.todo = @ \ {c}]
      BY <2>8 DEF FlushBlock, FlushPass
    <3>2. \/ main'.at = [[main.at EXCEPT !.on = c] EXCEPT !.again = TRUE]
          \/ main'.at = [[main.at EXCEPT !.on = "none"] EXCEPT !.todo = main.at.todo \ {c}]
      BY <1>0, <3>1 DEF Fields, Mains, Ats
    <3>3. main'.at.resetting = main.at.resetting
      BY <1>0, <3>2 DEF Fields, Mains, Ats
    <3> QED BY <3>3
  <2>9. /\ ~meta_thread_run_impl_task_sync /\ ~SyncDone /\ ~meta_thread_flush_callbacks
        /\ ~meta_thread_reset_thread_type
    BY <1>1 DEF meta_thread_run_impl_task_sync, SyncDone, meta_thread_flush_callbacks,
                meta_thread_reset_thread_type, MainFree
  <2>10. /\ \A then : ~meta_thread_post_impl_task(then)
         /\ \A c : ~SourceStep(c)
         /\ ~UNCHANGED vars
    BY <1>2 DEF meta_thread_post_impl_task, SourceStep, StealCallbacks, CallbacksDispatched,
                DispatchCallback, vars
  <2> QED BY <2>2, <2>3, <2>4, <2>5, <2>6, <2>7, <2>8, <2>9, <2>10 DEF Next, FlushStep
<1>4. main.at.pc = "wait"
  BY <1>3 DEF FlushDone
<1>5. main.tasks <= Len(ran)
  BY <1>0, <1>4 DEF TasksInv, Numbered, Marking
<1>6. main.tasks \in Nat /\ Len(ran) \in Nat /\ DOMAIN ran = 1..Len(ran)
  BY <1>0, LenProperties DEF Fields, Mains
<1>7. \A i \in 1..Len(ran) : ran[i] = i
  BY <1>0 DEF TasksInv
<1>8. 1..main.tasks \subseteq Range(ran)
  <2>1. \A i \in 1..main.tasks : i \in 1..Len(ran)
    BY <1>5, <1>6
  <2> QED BY <1>6, <1>7, <2>1 DEF Range
<1>9. callbacks["impl"] = <<>>
  BY <1>0, <1>4 DEF PhaseInv
<1>10. ~dispatching["impl"]
  <2>1. CASE type = "USER"
    BY <1>0, <1>4, <2>1 DEF PhaseInv, MainThreadContexts
  <2>2. CASE type = "KERNEL"
    <3>1. ~needs_flush["impl"]
      BY <1>0, <1>4, <2>2 DEF PhaseInv
    <3> QED BY <1>0, <3>1 DEF SourcesInv, Contexts
  <2> QED BY <1>0, <2>1, <2>2 DEF Fields
<1>11. pending["impl"] = <<>>
  BY <1>0, <1>10 DEF SourcesInv, Contexts
<1> QED BY <1>8, <1>9, <1>11

(* A change of the thread type hands nothing over: when the new thread     *)
(* starts, every task posted before the change has run in the old one, and *)
(* no callback of the impl context is left (meta-thread.c:889-912).        *)
THEOREM ThreadResetCorrect == Spec => NothingCrossesReset
<1>1. Init => ThreadInv
  BY ThreadStart
<1>2. ThreadInv /\ [Next]_vars => ThreadInv'
  BY ThreadStep
<1>3. ThreadInv /\ [Next]_vars =>
        [main.at.resetting /\ ~main'.at.resetting =>
           /\ 1..main.tasks \subseteq Range(ran)
           /\ callbacks["impl"] = <<>> /\ pending["impl"] = <<>>]_vars
  BY ResetEnds
<1> QED BY <1>1, <1>2, <1>3, PTL DEF Spec, NothingCrossesReset

-----------------------------------------------------------------------------
(* The scheduling priority of the thread *)
Priorities == {"NORMAL", "REALTIME", "HIGH_PRIORITY"}

Threads == [count : Int, recorded : Priorities, actual : Priorities, refused : BOOLEAN]

(* What the thread has is what was recorded, and is what it should have,   *)
(* unless a request was refused.                                           *)
Synced(t) == t.refused \/ (t.actual = t.recorded /\ t.recorded = ShouldUse(t))

(* Inhibitions held: the one of the probing and one per waiting device.    *)
Held == Cardinality(Holders) + (IF probed THEN 0 ELSE 1)

(* The invariant: fields, and, until a render device changes the thread    *)
(* type, a count that is exact and a thread that is synchronised with it.  *)
SchedulingFields ==
    /\ thread_type \in {"USER", "KERNEL"} /\ inhibits \in 0..1 /\ render_devices \in Nat
    /\ th \in Threads /\ probed \in BOOLEAN
    /\ device \in [Devices -> {"absent", "pending", "set"}]
    /\ inhibits = 1 => render_devices > 0

Exact ==
    render_devices = 0 => /\ thread_type = "KERNEL"
                  /\ th.count = Held
                  /\ Synced(th)
                  /\ NoRealtimeModeSet

SchedulingInv == SchedulingFields /\ Exact

-----------------------------------------------------------------------------
(* One synchronisation. *)
LEMMA SyncProperties ==
    ASSUME NEW t \in Threads, NEW u \in sync_scheduling_priority_in_impl(t)
    PROVE  /\ u \in Threads /\ u.count = t.count
           /\ t.refused => u.refused
           /\ t.refused \/ t.actual = t.recorded => Synced(u)
<1> DEFINE p == ShouldUse(t)
<1>1. p \in Priorities
  BY SchedulingAssumption DEF ShouldUse, Priorities
<1>2. CASE u = t /\ p = t.recorded
  BY <1>2 DEF Synced
<1>3. CASE u = [t EXCEPT !.recorded = p, !.actual = p]
  <2>1. u \in Threads /\ u.count = t.count /\ u.refused = t.refused
        /\ u.actual = p /\ u.recorded = p
    BY <1>1, <1>3 DEF Threads
  <2>2. ShouldUse(u) = p
    BY <2>1 DEF ShouldUse
  <2> QED BY <2>1, <2>2 DEF Synced
<1>4. CASE u = [t EXCEPT !.refused = TRUE]
  BY <1>4 DEF Synced, Threads
<1> QED BY <1>2, <1>3, <1>4 DEF sync_scheduling_priority_in_impl

(* An inhibition is taken. *)
LEMMA InhibitProperties ==
    ASSUME NEW t \in Threads, NEW u \in meta_thread_inhibit_realtime_in_impl(t)
    PROVE  /\ u \in Threads
           /\ t.refused => u.refused
           /\ thread_type = "KERNEL" => u.count = t.count + 1
           /\ thread_type = "KERNEL" /\ t.count \in Nat /\ Synced(t) => Synced(u)
<1> DEFINE v == [t EXCEPT !.count = @ + 1]
<1>1. /\ v \in Threads /\ v.count = t.count + 1 /\ v.refused = t.refused
      /\ v.actual = t.actual /\ v.recorded = t.recorded
  BY DEF Threads
<1>2. CASE thread_type = "USER"
  BY <1>2 DEF meta_thread_inhibit_realtime_in_impl
<1>3. CASE thread_type # "USER" /\ v.count = 1
  <2>1. u \in sync_scheduling_priority_in_impl(v)
    BY <1>3 DEF meta_thread_inhibit_realtime_in_impl
  <2>2. /\ u \in Threads /\ u.count = v.count
        /\ v.refused => u.refused
        /\ v.refused \/ v.actual = v.recorded => Synced(u)
    BY <1>1, <2>1, SyncProperties
  <2> HIDE DEF v
  <2> QED BY <1>1, <2>2 DEF Synced
<1>4. CASE thread_type # "USER" /\ v.count # 1
  <2>1. u = v
    BY <1>4 DEF meta_thread_inhibit_realtime_in_impl
  <2>2. t.count \in Nat => v.count # 0 /\ t.count # 0
    BY <1>1, <1>4 DEF Threads
  <2>3. t.count \in Nat => ShouldUse(v) = ShouldUse(t)
    BY <2>2 DEF ShouldUse
  <2> HIDE DEF v
  <2> QED BY <1>1, <2>1, <2>3 DEF Synced
<1> QED BY <1>2, <1>3, <1>4

(* An inhibition is released. *)
LEMMA UninhibitProperties ==
    ASSUME NEW t \in Threads, NEW u \in meta_thread_uninhibit_realtime_in_impl(t)
    PROVE  /\ u \in Threads
           /\ t.refused => u.refused
           /\ thread_type = "KERNEL" => u.count = t.count - 1
           /\ thread_type = "KERNEL" /\ t.count \in Nat \ {0} /\ Synced(t) => Synced(u)
<1> DEFINE v == [t EXCEPT !.count = @ - 1]
<1>1. /\ v \in Threads /\ v.count = t.count - 1 /\ v.refused = t.refused
      /\ v.actual = t.actual /\ v.recorded = t.recorded
  BY DEF Threads
<1>2. CASE thread_type = "USER"
  BY <1>2 DEF meta_thread_uninhibit_realtime_in_impl
<1>3. CASE thread_type # "USER" /\ v.count = 0
  <2>1. u \in sync_scheduling_priority_in_impl(v)
    BY <1>3 DEF meta_thread_uninhibit_realtime_in_impl
  <2>2. /\ u \in Threads /\ u.count = v.count
        /\ v.refused => u.refused
        /\ v.refused \/ v.actual = v.recorded => Synced(u)
    BY <1>1, <2>1, SyncProperties
  <2> HIDE DEF v
  <2> QED BY <1>1, <2>2 DEF Synced
<1>4. CASE thread_type # "USER" /\ v.count # 0
  <2>1. u = v
    BY <1>4 DEF meta_thread_uninhibit_realtime_in_impl
  <2>2. t.count \in Nat \ {0} => ShouldUse(v) = ShouldUse(t)
    BY <1>4 DEF ShouldUse
  <2> HIDE DEF v
  <2> QED BY <1>1, <2>1, <2>2 DEF Synced
<1> QED BY <1>2, <1>3, <1>4

(* A new kernel thread holds the inhibition of the probing. *)
LEMMA StartProperties ==
    ASSUME NEW t \in Threads, NEW u \in thread_impl_func(t)
    PROVE  /\ u \in Threads /\ u.count = 1
           /\ t.recorded = "NORMAL" => Synced(u)
<1> DEFINE fresh == [t EXCEPT !.count = 0, !.actual = "NORMAL"]
           first == [fresh EXCEPT !.count = @ + 1]
<1>1. /\ fresh \in Threads /\ fresh.count = 0 /\ fresh.actual = "NORMAL"
      /\ fresh.recorded = t.recorded
  <2> DEFINE a == [t EXCEPT !.count = 0]
  <2>1. a \in Threads /\ a.count = 0 /\ a.recorded = t.recorded
    BY DEF Threads
  <2>2. fresh = [a EXCEPT !.actual = "NORMAL"]
    OBVIOUS
  <2>3. "NORMAL" \in Priorities
    BY DEF Priorities
  <2> HIDE DEF a, fresh
  <2> QED BY <2>1, <2>2, <2>3 DEF Threads
<1>2. fresh.count + 1 = 1
  BY <1>1
<1>6. /\ first \in Threads /\ first.count = 1 /\ first.actual = "NORMAL"
      /\ first.recorded = t.recorded
  <2> HIDE DEF fresh
  <2> QED BY <1>1 DEF Threads
<1>3. PICK v \in sync_scheduling_priority_in_impl(first) :
        u \in sync_scheduling_priority_in_impl(v)
  BY <1>2 DEF thread_impl_func
<1> HIDE DEF fresh, first
<1>4. /\ v \in Threads /\ v.count = 1
      /\ t.recorded = "NORMAL" => Synced(v)
  BY <1>3, <1>6, SyncProperties
<1>5. t.recorded = "NORMAL" => v.refused \/ v.actual = v.recorded
  BY <1>4 DEF Synced
<1> QED BY <1>3, <1>4, <1>5, SyncProperties

(* How many devices await a mode set when one device changes. *)
LEMMA HoldersChange ==
    ASSUME SchedulingFields, NEW d \in Devices, \A e \in Devices \ {d} : device'[e] = device[e]
    PROVE  /\ Cardinality(Holders) \in Nat
           /\ Cardinality(Holders') = Cardinality(Holders)
                + (IF device'[d] = "pending" THEN 1 ELSE 0)
                - (IF device[d] = "pending" THEN 1 ELSE 0)
           /\ device[d] = "pending" => Cardinality(Holders) > 0
<1> DEFINE R == Holders \ {d}
<1>1. IsFiniteSet(Holders) /\ IsFiniteSet(R)
  BY SchedulingAssumption, FS_Subset DEF Holders
<1>2. Cardinality(Holders) \in Nat /\ Cardinality(R) \in Nat
  BY <1>1, FS_CardinalityType
<1>3. Holders = IF device[d] = "pending" THEN R \cup {d} ELSE R
  BY DEF Holders
<1>4. Holders' = IF device'[d] = "pending" THEN R \cup {d} ELSE R
  BY DEF Holders, SchedulingFields
<1>5. Cardinality(R \cup {d}) = Cardinality(R) + 1
  BY <1>1, FS_AddElement
<1> HIDE DEF R
<1>6. Cardinality(Holders) = Cardinality(R) + (IF device[d] = "pending" THEN 1 ELSE 0)
  BY <1>2, <1>3, <1>5
<1>7. Cardinality(Holders') = Cardinality(R) + (IF device'[d] = "pending" THEN 1 ELSE 0)
  BY <1>2, <1>4, <1>5
<1> QED BY <1>2, <1>6, <1>7

(* What remains to be shown of a step once the thread's record is known. *)
LEMMA UntypedStep ==
    ASSUME SchedulingFields, Exact, render_devices = 0 => th'.count = Held', render_devices = 0 => Synced(th'),
           th' \in Threads, device' \in [Devices -> {"absent", "pending", "set"}],
           probed' \in BOOLEAN, UNCHANGED <<thread_type, inhibits, render_devices>>,
           th.refused => th'.refused,
           render_devices = 0 => slow' = slow \/ slow' # "REALTIME" \/ th'.refused
    PROVE  SchedulingInv'
<1>1. SchedulingFields'
  BY DEF SchedulingFields
<1>2. Exact'
  <2>1. thread_type' = thread_type /\ render_devices' = render_devices
    OBVIOUS
  <2>2. Synced(th)' <=> Synced(th')
    BY DEF Synced, ShouldUse
  <2>3. render_devices = 0 => NoRealtimeModeSet'
    BY DEF NoRealtimeModeSet, Exact
  <2> QED BY <2>1, <2>2, <2>3 DEF Exact
<1> QED BY <1>1, <1>2 DEF SchedulingInv

(* A slow call is made with an inhibition. *)
LEMMA InhibitedIsNotRealtime ==
    ASSUME NEW u \in Threads, u.count # 0, Synced(u), u.actual = "REALTIME"
    PROVE  u.refused
BY SchedulingAssumption DEF Synced, ShouldUse

(* The invariant holds in every initial state and is kept by every step. *)
LEMMA SchedulingStart == SchedulingInit => SchedulingInv
<1> SUFFICES ASSUME SchedulingInit PROVE SchedulingInv
  OBVIOUS
<1> DEFINE t == [count |-> 0, recorded |-> "NORMAL", actual |-> "NORMAL", refused |-> FALSE]
<1>1. t \in Threads /\ t.recorded = "NORMAL"
  BY DEF Threads, Priorities
<1>2. th \in thread_impl_func(t)
  BY DEF SchedulingInit
<1> HIDE DEF t
<1>3. th \in Threads /\ th.count = 1 /\ Synced(th)
  BY <1>1, <1>2, StartProperties
<1>4. Holders = {}
  BY DEF SchedulingInit, Holders
<1>5. Held = 1
  BY <1>4, FS_EmptySet DEF Held, SchedulingInit
<1>6. SchedulingFields
  <2>1. /\ thread_type = "KERNEL" /\ inhibits = 0 /\ render_devices = 0 /\ probed = FALSE
        /\ device = [d \in Devices |-> "absent"]
    BY DEF SchedulingInit
  <2>2. device \in [Devices -> {"absent", "pending", "set"}]
    BY <2>1
  <2>3. inhibits \in 0..1 /\ render_devices \in Nat /\ (inhibits = 1 => render_devices > 0)
    BY <2>1
  <2>4. thread_type \in {"USER", "KERNEL"} /\ probed \in BOOLEAN
    BY <2>1
  <2> QED BY <1>3, <2>2, <2>3, <2>4 DEF SchedulingFields
<1>7. Exact
  BY <1>3, <1>5 DEF SchedulingInit, Exact, NoRealtimeModeSet
<1> QED BY <1>6, <1>7 DEF SchedulingInv

LEMMA SchedulingStep == SchedulingInv /\ [SchedulingNext]_schedulingVars => SchedulingInv'
<1> SUFFICES ASSUME SchedulingInv, [SchedulingNext]_schedulingVars PROVE SchedulingInv'
  OBVIOUS
<1>0. SchedulingFields /\ Exact
  BY DEF SchedulingInv
<1>a. th \in Threads /\ (render_devices = 0 => thread_type = "KERNEL" /\ Synced(th) /\ th.count = Held)
  BY <1>0 DEF SchedulingFields, Exact
<1>b. Cardinality(Holders) \in Nat
  BY SchedulingAssumption, FS_Subset, FS_CardinalityType DEF Holders
<1>c. Held \in Nat
  BY <1>b DEF Held
<1>1. ASSUME NEW d \in Devices, AddDevice(d) PROVE SchedulingInv'
  <2>1. PICK u \in meta_thread_inhibit_realtime_in_impl(th) :
          \/ th' = u /\ device' = [device EXCEPT ![d] = "pending"]
          \/ /\ th' \in meta_thread_uninhibit_realtime_in_impl(u)
             /\ device' = [device EXCEPT ![d] = "set"]
    BY <1>1 DEF AddDevice
  <2>2. /\ u \in Threads /\ (th.refused => u.refused)
        /\ render_devices = 0 => u.count = th.count + 1 /\ Synced(u)
    BY <1>a, <1>c, <2>1, InhibitProperties
  <2>3. device[d] # "pending" /\ UNCHANGED <<thread_type, inhibits, render_devices, probed, slow>>
    BY <1>1 DEF AddDevice
  <2>4. CASE th' = u /\ device' = [device EXCEPT ![d] = "pending"]
    <3>1. Cardinality(Holders') = Cardinality(Holders) + 1
      <4>1. device'[d] = "pending" /\ \A e \in Devices \ {d} : device'[e] = device[e]
        BY <1>0, <2>4 DEF SchedulingFields
      <4> QED BY <1>0, <1>b, <2>3, <4>1, HoldersChange
    <3>2. Held' = Held + 1
      BY <1>b, <2>3, <3>1 DEF Held
    <3>3. device' \in [Devices -> {"absent", "pending", "set"}] /\ probed' \in BOOLEAN
      BY <1>0, <2>3, <2>4 DEF SchedulingFields
    <3> QED BY <1>0, <1>a, <2>2, <2>3, <2>4, <3>2, <3>3, UntypedStep
  <2>5. CASE /\ th' \in meta_thread_uninhibit_realtime_in_impl(u)
             /\ device' = [device EXCEPT ![d] = "set"]
    <3>1. Cardinality(Holders') = Cardinality(Holders)
      <4>1. device'[d] = "set" /\ \A e \in Devices \ {d} : device'[e] = device[e]
        BY <1>0, <2>5 DEF SchedulingFields
      <4> QED BY <1>0, <1>b, <2>3, <4>1, HoldersChange
    <3>2. Held' = Held
      BY <1>b, <2>3, <3>1 DEF Held
    <3>3. device' \in [Devices -> {"absent", "pending", "set"}] /\ probed' \in BOOLEAN
      BY <1>0, <2>3, <2>5 DEF SchedulingFields
    <3>4. render_devices = 0 => u.count \in Nat \ {0}
      BY <1>a, <1>c, <2>2
    <3>5. /\ th' \in Threads /\ (u.refused => th'.refused)
          /\ render_devices = 0 => th'.count = u.count - 1 /\ Synced(th')
      BY <1>a, <2>2, <2>5, <3>4, UninhibitProperties
    <3>6. render_devices = 0 => th'.count = Held'
      BY <1>a, <1>c, <2>2, <3>2, <3>5
    <3> QED BY <1>0, <2>2, <2>3, <3>3, <3>5, <3>6, UntypedStep
  <2> QED BY <2>1, <2>4, <2>5
<1>2. ASSUME NEW d \in Devices, RemoveDevice(d) PROVE SchedulingInv'
  <2>1. /\ device' = [device EXCEPT ![d] = "absent"]
        /\ UNCHANGED <<thread_type, inhibits, render_devices, probed, slow>>
    BY <1>2 DEF RemoveDevice
  <2>2. /\ Cardinality(Holders') = Cardinality(Holders)
                                     - (IF device[d] = "pending" THEN 1 ELSE 0)
        /\ device[d] = "pending" => Cardinality(Holders) > 0
    <3>1. device'[d] = "absent" /\ \A e \in Devices \ {d} : device'[e] = device[e]
      BY <1>0, <2>1 DEF SchedulingFields
    <3> QED BY <1>0, <1>b, <3>1, HoldersChange
  <2>3. Held' = Held - (IF device[d] = "pending" THEN 1 ELSE 0)
    BY <1>b, <2>1, <2>2 DEF Held
  <2>4. device[d] = "pending" => Held > 0
    BY <1>b, <2>2 DEF Held
  <2>5. device' \in [Devices -> {"absent", "pending", "set"}] /\ probed' \in BOOLEAN
    BY <1>0, <2>1 DEF SchedulingFields
  <2>6. CASE device[d] = "pending"
    <3>1. th' \in meta_thread_uninhibit_realtime_in_impl(th)
      BY <1>2, <2>6 DEF RemoveDevice
    <3>2. /\ th' \in Threads /\ (th.refused => th'.refused)
          /\ render_devices = 0 => th'.count = th.count - 1 /\ Synced(th')
      BY <1>a, <1>c, <2>4, <2>6, <3>1, UninhibitProperties
    <3>3. render_devices = 0 => th'.count = Held'
      BY <1>a, <2>3, <2>6, <3>2
    <3> QED BY <1>0, <2>1, <2>5, <3>2, <3>3, UntypedStep
  <2>7. CASE device[d] # "pending"
    <3>1. th' = th /\ Held' = Held
      BY <1>2, <1>c, <2>3, <2>7 DEF RemoveDevice
    <3> QED BY <1>0, <1>a, <2>1, <2>5, <3>1, UntypedStep
  <2> QED BY <2>6, <2>7
<1>3. ASSUME NEW d \in Devices, ProcessModeSet(d) PROVE SchedulingInv'
  <2>0. PICK u \in meta_thread_inhibit_realtime_in_impl(th) :
          /\ slow' = IF thread_type = "USER" THEN "NORMAL" ELSE u.actual
          /\ \E v \in meta_thread_uninhibit_realtime_in_impl(u) :
               th' \in IF device[d] = "pending"
                       THEN meta_thread_uninhibit_realtime_in_impl(v) ELSE {v}
    BY <1>3 DEF ProcessModeSet
  <2>1. PICK v \in meta_thread_uninhibit_realtime_in_impl(u) :
          th' \in IF device[d] = "pending"
                  THEN meta_thread_uninhibit_realtime_in_impl(v) ELSE {v}
    BY <2>0
  <2>2. /\ device' = [device EXCEPT ![d] = "set"]
        /\ UNCHANGED <<thread_type, inhibits, render_devices, probed>>
    BY <1>3 DEF ProcessModeSet
  <2>3. /\ Cardinality(Holders') = Cardinality(Holders)
                                     - (IF device[d] = "pending" THEN 1 ELSE 0)
        /\ device[d] = "pending" => Cardinality(Holders) > 0
    <3>1. device'[d] = "set" /\ \A e \in Devices \ {d} : device'[e] = device[e]
      BY <1>0, <2>2 DEF SchedulingFields
    <3> QED BY <1>0, <1>b, <3>1, HoldersChange
  <2>4. Held' = Held - (IF device[d] = "pending" THEN 1 ELSE 0)
    BY <1>b, <2>2, <2>3 DEF Held
  <2>5. device[d] = "pending" => Held > 0
    BY <1>b, <2>3 DEF Held
  <2>6. device' \in [Devices -> {"absent", "pending", "set"}] /\ probed' \in BOOLEAN
    BY <1>0, <2>2 DEF SchedulingFields
  <2>7. /\ u \in Threads /\ (th.refused => u.refused)
        /\ render_devices = 0 => u.count = Held + 1 /\ Synced(u)
    BY <1>a, <1>c, <2>0, InhibitProperties
  <2>8. render_devices = 0 => u.count \in Nat \ {0} /\ u.count # 0
    BY <1>c, <2>7
  <2>9. /\ v \in Threads /\ (u.refused => v.refused)
        /\ render_devices = 0 => v.count = u.count - 1 /\ Synced(v)
    BY <1>a, <2>1, <2>7, <2>8, UninhibitProperties
  <2>10. render_devices = 0 => v.count = Held
    BY <1>c, <2>7, <2>9
  <2>11. render_devices = 0 => slow' # "REALTIME" \/ u.refused
    BY <1>a, <2>0, <2>7, <2>8, InhibitedIsNotRealtime
  <2>12. CASE device[d] = "pending"
    <3>1. th' \in meta_thread_uninhibit_realtime_in_impl(v)
      BY <2>1, <2>12
    <3>2. /\ th' \in Threads /\ (v.refused => th'.refused)
          /\ render_devices = 0 => th'.count = v.count - 1 /\ Synced(th')
      BY <1>a, <1>c, <2>5, <2>9, <2>10, <2>12, <3>1, UninhibitProperties
    <3>3. render_devices = 0 => th'.count = Held'
      BY <2>4, <2>10, <2>12, <3>2
    <3> QED BY <1>0, <2>2, <2>6, <2>7, <2>9, <2>11, <3>2, <3>3, UntypedStep
  <2>13. CASE device[d] # "pending"
    <3>1. th' = v /\ Held' = Held
      BY <1>c, <2>1, <2>4, <2>13
    <3> QED BY <1>0, <2>2, <2>6, <2>7, <2>9, <2>10, <2>11, <3>1, UntypedStep
  <2> QED BY <2>12, <2>13
<1>4. ASSUME NEW d \in Devices, SlowCall(d) PROVE SchedulingInv'
  <2>1. PICK u \in meta_thread_inhibit_realtime_in_impl(th) :
          /\ slow' = IF thread_type = "USER" THEN "NORMAL" ELSE u.actual
          /\ th' \in meta_thread_uninhibit_realtime_in_impl(u)
    BY <1>4 DEF SlowCall
  <2>2. UNCHANGED <<thread_type, inhibits, render_devices, probed, device>>
    BY <1>4 DEF SlowCall
  <2>3. Held' = Held
    BY <2>2 DEF Held, Holders
  <2>4. device' \in [Devices -> {"absent", "pending", "set"}] /\ probed' \in BOOLEAN
    BY <1>0, <2>2 DEF SchedulingFields
  <2>5. /\ u \in Threads /\ (th.refused => u.refused)
        /\ render_devices = 0 => u.count = Held + 1 /\ Synced(u)
    BY <1>a, <1>c, <2>1, InhibitProperties
  <2>6. render_devices = 0 => u.count \in Nat \ {0} /\ u.count # 0
    BY <1>c, <2>5
  <2>7. /\ th' \in Threads /\ (u.refused => th'.refused)
        /\ render_devices = 0 => th'.count = u.count - 1 /\ Synced(th')
    BY <1>a, <2>1, <2>5, <2>6, UninhibitProperties
  <2>8. render_devices = 0 => th'.count = Held'
    BY <1>c, <2>3, <2>5, <2>7
  <2>9. render_devices = 0 => slow' # "REALTIME" \/ u.refused
    BY <1>a, <2>1, <2>5, <2>6, InhibitedIsNotRealtime
  <2> QED BY <1>0, <2>2, <2>4, <2>5, <2>7, <2>8, <2>9, UntypedStep
<1>5. CASE meta_kms_notify_probed
  <2>1. /\ probed = FALSE /\ probed' = TRUE
        /\ th' \in meta_thread_uninhibit_realtime_in_impl(th)
        /\ UNCHANGED <<thread_type, inhibits, render_devices, device, slow>>
    BY <1>0, <1>5 DEF meta_kms_notify_probed, SchedulingFields
  <2>2. Holders' = Holders
    BY <2>1 DEF Holders
  <2>3. Held = Held' + 1 /\ Held > 0
    BY <1>b, <2>1, <2>2 DEF Held
  <2>4. /\ th' \in Threads /\ (th.refused => th'.refused)
        /\ render_devices = 0 => th'.count = th.count - 1 /\ Synced(th')
    BY <1>a, <1>c, <2>1, <2>3, UninhibitProperties
  <2>5. Held' \in Nat
    BY <1>b, <2>2 DEF Held
  <2>6. render_devices = 0 => th'.count = Held'
    BY <1>a, <2>3, <2>4, <2>5
  <2>7. device' \in [Devices -> {"absent", "pending", "set"}]
    BY <1>0, <2>1 DEF SchedulingFields
  <2> QED BY <1>0, <2>1, <2>4, <2>6, <2>7, UntypedStep
<1>6. CASE meta_kms_inhibit_kernel_thread
  <2>1. SchedulingFields' /\ render_devices' > 0
    BY <1>0, <1>6 DEF meta_kms_inhibit_kernel_thread, SchedulingFields
  <2> QED BY <2>1 DEF SchedulingInv, Exact
<1>7. CASE meta_kms_uninhibit_kernel_thread
  <2>1. th' \in Threads
    BY <1>7, <1>a, StartProperties DEF meta_kms_uninhibit_kernel_thread
  <2>2. SchedulingFields' /\ render_devices' > 0
    BY <1>0, <1>7, <2>1 DEF meta_kms_uninhibit_kernel_thread, SchedulingFields
  <2> QED BY <2>2 DEF SchedulingInv, Exact
<1>8. CASE UNCHANGED schedulingVars
  <2>1. Held' = Held
    BY <1>8 DEF schedulingVars, Held, Holders
  <2> QED BY <1>0, <1>a, <1>8, <2>1, UntypedStep DEF schedulingVars, SchedulingFields
<1> QED BY <1>1, <1>2, <1>3, <1>4, <1>5, <1>6, <1>7, <1>8 DEF SchedulingNext

(* The invariant is as strong as the property: the last release, whoever   *)
(* makes it, restores the preferred priority.                              *)
LEMMA SchedulingImplied == SchedulingInv => Undisturbed
<1> SUFFICES ASSUME SchedulingInv PROVE Undisturbed
  OBVIOUS
<1>1. SchedulingTypeOK
  BY DEF SchedulingInv, SchedulingFields, Exact, SchedulingTypeOK, Held, Threads, Priorities
<1>2. ASSUME render_devices = 0, probed, Holders = {} PROVE th.actual = Preferred \/ th.refused
  <2>1. Cardinality(Holders) = 0
    BY <1>2, FS_EmptySet
  <2>2. th.count = 0
    BY <1>2, <2>1 DEF SchedulingInv, Exact, Held
  <2>3. ShouldUse(th) = Preferred
    BY <2>2 DEF ShouldUse
  <2> QED BY <1>2, <2>3 DEF SchedulingInv, Exact, Synced
<1> QED BY <1>1, <1>2 DEF SchedulingInv, Exact, Undisturbed, PriorityIsReal

(* However devices are added, fail, are set and go, and however often the  *)
(* kernel is called meanwhile: until a render device changes the thread    *)
(* type, realtime_inhibit_count is the number of inhibitions held, slow    *)
(* calls are made at normal priority, and the thread has its priority back *)
(* when the last inhibition is released (meta-thread.c:1382-1436).         *)
THEOREM SchedulingCorrect == SchedulingSpec => []Undisturbed
<1>1. SchedulingInit => SchedulingInv
  BY SchedulingStart
<1>2. SchedulingInv /\ [SchedulingNext]_schedulingVars => SchedulingInv'
  BY SchedulingStep
<1> QED BY <1>1, <1>2, SchedulingImplied, PTL DEF SchedulingSpec
=============================================================================
