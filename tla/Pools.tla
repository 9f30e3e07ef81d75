-------------------------------- MODULE Pools --------------------------------
(***************************************************************************)
(* base/thread_pool.cc: tasks that add_task queues, threads that run them, *)
(* and the destructor, which sets shutdown without the lock.               *)
(***************************************************************************)
EXTENDS Naturals, Sequences, FiniteSets, SequencesExt

CONSTANTS Threads, queue_size, Tasks  \* tasks are numbered as they are added

VARIABLE s  \* [queue, available, shutdown, pc, task, tried, started, told]

Init == s = [queue |-> <<>>, available |-> queue_size, shutdown |-> FALSE,
             pc |-> [t \in Threads |-> "lock"], task |-> [t \in Threads |-> 0],
             tried |-> 0, added |-> <<>>, started |-> <<>>, told |-> FALSE]

Awake(x) == \E t \in Threads : x.pc[t] = "waiting"

\* add_task, under the lock; notify_one wakes one of the waiting, if any.
\* Variants: the notification is left out; the space is not counted.
AddSilently == /\ ~s.shutdown /\ s.tried < Tasks /\ s.available > 0
               /\ s' = [s EXCEPT !.tried = @ + 1, !.queue = Append(@, s.tried + 1),
                                 !.added = Append(@, s.tried + 1), !.available = @ - 1]
add_task ==
  /\ ~s.shutdown /\ s.tried < Tasks
  /\ LET n == s.tried + 1
         x == [s EXCEPT !.tried = n, !.queue = Append(@, n), !.added = Append(@, n), !.available = @ - 1]
     IN IF s.available = 0 THEN s' = [s EXCEPT !.tried = n]
        ELSE IF Awake(s) THEN \E t \in Threads : s.pc[t] = "waiting" /\ s' = [x EXCEPT !.pc[t] = "lock"]
        ELSE s' = x

\* threadpool_thread: with the lock taken, wait, leave or take the first task; wait, which gives
\* the lock back, comes after the test of shutdown.
\* Variant: the last task is taken.
TakeLast(t) == s' = [s EXCEPT !.pc[t] = "run", !.task[t] = Last(s.queue), !.queue = Front(@),
                              !.available = @ + 1, !.started = Append(@, Last(s.queue))]
Take(t) == s' = [s EXCEPT !.pc[t] = "run", !.task[t] = Head(s.queue), !.queue = Tail(@),
                          !.available = @ + 1, !.started = Append(@, Head(s.queue))]
Locked(t) ==
  /\ s.pc[t] = "lock" /\ \A u \in Threads : s.pc[u] # "tested"
  /\ \/ s.shutdown /\ s' = [s EXCEPT !.pc[t] = "gone"]
     \/ ~s.shutdown /\ s.queue # <<>> /\ Take(t)
     \/ ~s.shutdown /\ s.queue = <<>> /\ s' = [s EXCEPT !.pc[t] = "tested"]
Wait(t) == s.pc[t] = "tested" /\ s' = [s EXCEPT !.pc[t] = "waiting"]
Run(t)  == s.pc[t] = "run" /\ s' = [s EXCEPT !.pc[t] = "lock", !.task[t] = 0]

\* ~ThreadPool
Destroy == ~s.shutdown /\ s' = [s EXCEPT !.shutdown = TRUE]
NotifyAll == /\ s.shutdown /\ ~s.told
             /\ s' = [s EXCEPT !.told = TRUE,
                               !.pc = [t \in Threads |-> IF @[t] = "waiting" THEN "lock" ELSE @[t]]]

Worker(t) == Locked(t) \/ Wait(t) \/ Run(t)
Next == add_task \/ (\E t \in Threads : Worker(t)) \/ Destroy \/ NotifyAll
Spec == Init /\ [][Next]_s
-----------------------------------------------------------------------------
\* add_task refuses exactly when queue_size tasks wait; no task is lost, run twice or overtaken.
TasksInOrder ==
  /\ s.available + Len(s.queue) = queue_size
  /\ s.started \o s.queue = s.added
=============================================================================
