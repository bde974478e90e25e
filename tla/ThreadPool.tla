----------------------------- MODULE ThreadPool -----------------------------
(***************************************************************************)
(* One thread pool of a worker process, src/core/ngx_thread_pool.c, with    *)
(* the eventfd notification of src/event/modules/ngx_epoll_module.c that    *)
(* brings completed tasks back to the event loop.                           *)
(*                                                                          *)
(* The event loop posts tasks, a pool thread runs each one and puts it on   *)
(* the list of done tasks, and the event loop, notified through an eventfd, *)
(* runs the completion handlers.  On exit the event loop posts one exit     *)
(* task per thread and waits for each.                                      *)
(*                                                                          *)
(* Grain of atomicity: what happens under tp->mtx up to its release or to   *)
(* pthread_cond_wait(), and what happens under the spinlock of the done     *)
(* list, is one step.  The linked lists are sequences.                      *)
(***************************************************************************)
EXTENDS Integers, Sequences, FiniteSets

CONSTANTS
  Tasks,       \* ngx_thread_task_t's of the requests of the worker
  ExitTask,    \* the task ngx_thread_pool_destroy() keeps on its stack
  NoTask,
  Threads,     \* the threads of the pool
  MaxQueue,    \* tp->max_queue
  MaxIndex,    \* NGX_MAX_UINT32_VALUE: events between two eventfd reads
  MaxFaults    \* bound: failing pthread and eventfd calls in a behaviour

ASSUME ThreadPoolAssumption ==
  /\ IsFiniteSet(Threads) /\ Threads # {}
  /\ ExitTask \notin Tasks
  /\ NoTask \notin Tasks \cup {ExitTask}
  /\ MaxQueue \in Nat
  /\ MaxIndex \in Nat \ {0}
  /\ MaxFaults \in Nat

VARIABLES
  queue,       \* tp->queue
  waiting,     \* tp->waiting
  thr,         \* where each thread is in ngx_thread_pool_cycle()
  job,         \* the task of each thread
  active,      \* task->event.active
  done,        \* ngx_thread_pool_done
  batch,       \* the done tasks ngx_thread_pool_handler() has taken
  main,        \* where the event loop is
  edge,        \* epoll has an event for the eventfd to report
  readable,    \* the counter of the eventfd is not 0
  index,       \* notify_event.index
  lock,        \* the flag ngx_thread_pool_destroy() waits on
  exits,       \* its loop counter n
  faults       \* failed calls so far

vars == <<queue, waiting, thr, job, active, done, batch, main, edge, readable,
          index, lock, exits, faults>>
poolVars == <<queue, waiting, thr, job>>
loopVars == <<done, batch, main, edge, readable, index>>
exitVars == <<lock, exits>>

AllTasks == Tasks \cup {ExitTask}

At(l)    == {t \in Threads : thr[t] = l}
Idle     == At("waiting") \cup At("woken")

Goto(t, l) == thr' = [thr EXCEPT ![t] = l]

(* ngx_thread_pool_init: the threads are created, none has run yet.         *)
Init ==
  /\ queue = <<>> /\ waiting = 0
  /\ thr = [t \in Threads |-> "start"]
  /\ job = [t \in Threads |-> NoTask]
  /\ active = [k \in AllTasks |-> FALSE]
  /\ done = <<>> /\ batch = <<>>
  /\ main = "loop"
  /\ edge = FALSE /\ readable = FALSE /\ index = 0
  /\ lock = FALSE /\ exits = 0
  /\ faults = 0

Fault == faults < MaxFaults /\ faults' = faults + 1

-----------------------------------------------------------------------------
(* ngx_thread_task_post                                                     *)

(* The task is still active, or the queue is full: nothing changes.         *)
Refused(k) == active[k] \/ waiting >= MaxQueue

(* pthread_cond_signal() wakes a waiting thread, if there is any.           *)
Signal ==
  IF At("waiting") = {}
  THEN UNCHANGED thr
  ELSE \E t \in At("waiting") : Goto(t, "woken")

Enqueue(k) ==
  /\ active' = [active EXCEPT ![k] = TRUE]
  /\ Signal
  /\ queue' = Append(queue, k)
  /\ waiting' = waiting + 1
  /\ UNCHANGED job

(* Mutant: the task is marked active before the queue length is checked.    *)
PostMarksFirst(k) ==
  /\ main \in {"loop", "batch"}
  /\ ~active[k]
  /\ IF waiting >= MaxQueue
     THEN active' = [active EXCEPT ![k] = TRUE] /\ UNCHANGED poolVars
     ELSE Enqueue(k)
  /\ UNCHANGED <<loopVars, exitVars, faults>>

(* A request posts a task, from an event handler or from the completion     *)
(* handler of another (or the same) task.                                   *)
ngx_thread_task_post(k) ==
  /\ main \in {"loop", "batch"}
  /\ ~Refused(k)
  /\ Enqueue(k)
  /\ UNCHANGED <<loopVars, exitVars, faults>>

(* pthread_cond_signal() fails: an error is returned for a task that is     *)
(* marked active and is on no list.                                         *)
PostSignalError(k) ==
  /\ Fault
  /\ main \in {"loop", "batch"}
  /\ ~Refused(k)
  /\ active' = [active EXCEPT ![k] = TRUE]
  /\ UNCHANGED <<poolVars, loopVars, exitVars>>

-----------------------------------------------------------------------------
(* ngx_thread_pool_cycle                                                    *)

(* The loop around pthread_cond_wait() and what follows it.                 *)
TakeTask(t) ==
  IF queue = <<>>
  THEN Goto(t, "waiting") /\ UNCHANGED <<queue, job>>
  ELSE /\ job' = [job EXCEPT ![t] = Head(queue)]
       /\ queue' = Tail(queue)
       /\ Goto(t, "run")

(* Lock, tp->waiting--, and take a task or wait for one.                    *)
NextTask(t) ==
  /\ thr[t] = "start"
  /\ waiting' = waiting - 1
  /\ TakeTask(t)
  /\ UNCHANGED <<active, loopVars, exitVars, faults>>

(* pthread_cond_wait() may return without a signal.                         *)
SpuriousWakeup(t) ==
  /\ thr[t] = "waiting"
  /\ Goto(t, "woken")
  /\ UNCHANGED <<queue, waiting, job, active, loopVars, exitVars, faults>>

(* Mutant: the number of waiting tasks is decremented on every wakeup.      *)
WakeupDecrements(t) ==
  /\ thr[t] = "woken"
  /\ waiting' = waiting - 1
  /\ TakeTask(t)
  /\ UNCHANGED <<active, loopVars, exitVars, faults>>

(* pthread_cond_wait() returns with the mutex.                              *)
Wakeup(t) ==
  /\ thr[t] = "woken"
  /\ TakeTask(t)
  /\ UNCHANGED <<waiting, active, loopVars, exitVars, faults>>

(* task->handler() returns.                                                 *)
RunTask(t) ==
  /\ thr[t] = "run"
  /\ job[t] # ExitTask
  /\ Goto(t, "done")
  /\ UNCHANGED <<queue, waiting, job, active, loopVars, exitVars, faults>>

(* Mutant: the event loop is notified before the task is on the list.       *)
PublishReversed(t) ==
  \/ /\ thr[t] = "done"
     /\ edge' = TRUE /\ readable' = TRUE
     /\ Goto(t, "notify")
     /\ UNCHANGED <<queue, waiting, job, active, done, batch, main, index, exitVars, faults>>
  \/ /\ thr[t] = "notify"
     /\ done' = Append(done, job[t])
     /\ job' = [job EXCEPT ![t] = NoTask]
     /\ Goto(t, "start")
     /\ UNCHANGED <<queue, waiting, active, batch, main, edge, readable, index, exitVars, faults>>

(* The task is appended to ngx_thread_pool_done, and then ngx_notify()      *)
(* writes to the eventfd, which makes epoll report it (again).              *)
Publish(t) ==
  \/ /\ thr[t] = "done"
     /\ done' = Append(done, job[t])
     /\ job' = [job EXCEPT ![t] = NoTask]
     /\ Goto(t, "notify")
     /\ UNCHANGED <<queue, waiting, active, batch, main, edge, readable, index, exitVars, faults>>
  \/ /\ thr[t] = "notify"
     /\ edge' = TRUE /\ readable' = TRUE
     /\ Goto(t, "start")
     /\ UNCHANGED <<queue, waiting, job, active, done, batch, main, index, exitVars, faults>>

(* The write fails; the result of ngx_notify() is ignored.                  *)
NotifyError(t) ==
  /\ Fault
  /\ thr[t] = "notify"
  /\ Goto(t, "start")
  /\ UNCHANGED <<queue, waiting, job, active, loopVars, exitVars>>

(* ngx_thread_pool_exit_handler                                             *)
ngx_thread_pool_exit_handler(t) ==
  /\ thr[t] = "run"
  /\ job[t] = ExitTask
  /\ lock' = FALSE
  /\ job' = [job EXCEPT ![t] = NoTask]
  /\ Goto(t, "exited")
  /\ UNCHANGED <<queue, waiting, active, loopVars, exits, faults>>

(* The thread returns after a failed pthread call: pthread_sigmask() or     *)
(* pthread_mutex_lock() before it takes part ("start"), pthread_cond_wait() *)
(* ("waiting"), pthread_mutex_unlock() with a task that is then lost.       *)
ThreadError(t) ==
  /\ Fault
  /\ \/ thr[t] \in {"start", "run"} /\ Goto(t, "exited")
     \/ thr[t] = "waiting" /\ Goto(t, "failed")
  /\ job' = [job EXCEPT ![t] = NoTask]
  /\ UNCHANGED <<queue, waiting, active, loopVars, exitVars>>

-----------------------------------------------------------------------------
(* The event loop: ngx_epoll_notify_handler and ngx_thread_pool_handler     *)

(* epoll reports the eventfd, which is edge-triggered.  It is read only     *)
(* once in MaxIndex events.                                                 *)
NotifyEvent ==
  /\ main = "loop"
  /\ edge
  /\ edge' = FALSE
  /\ IF index + 1 = MaxIndex
     THEN main' = "read" /\ index' = 0
     ELSE main' = "handler" /\ index' = index + 1
  /\ UNCHANGED <<poolVars, active, done, batch, readable, exitVars, faults>>

(* Mutant: the eventfd is read after the done tasks are taken.              *)
NotifyReadLate ==
  /\ main = "read"
  /\ \/ /\ batch = <<>> /\ done # <<>>
        /\ batch' = done /\ done' = <<>>
        /\ UNCHANGED <<main, edge, readable>>
     \/ /\ batch # <<>> \/ done = <<>>
        /\ readable' = FALSE /\ edge' = FALSE
        /\ main' = "batch"
        /\ UNCHANGED <<batch, done>>
  /\ UNCHANGED <<poolVars, active, index, exitVars, faults>>

(* The read empties the counter; epoll then also drops an event it has not  *)
(* reported yet.  The eventfd is blocking.                                  *)
NotifyRead ==
  /\ main = "read"
  /\ readable
  /\ readable' = FALSE /\ edge' = FALSE
  /\ main' = "handler"
  /\ UNCHANGED <<poolVars, active, done, batch, index, exitVars, faults>>

(* ngx_thread_pool_handler takes the whole list of done tasks ...           *)
TakeDone ==
  /\ main = "handler"
  /\ batch' = done /\ done' = <<>>
  /\ main' = "batch"
  /\ UNCHANGED <<poolVars, active, edge, readable, index, exitVars, faults>>

(* ... and calls their completion handlers, which may post tasks again.     *)
CompleteTask ==
  /\ main = "batch"
  /\ batch # <<>>
  /\ active' = [active EXCEPT ![Head(batch)] = FALSE]
  /\ batch' = Tail(batch)
  /\ UNCHANGED <<poolVars, done, main, edge, readable, index, exitVars, faults>>

HandlerReturns ==
  /\ main = "batch"
  /\ batch = <<>>
  /\ main' = "loop"
  /\ UNCHANGED <<poolVars, active, done, batch, edge, readable, index, exitVars, faults>>

-----------------------------------------------------------------------------
(* ngx_thread_pool_destroy                                                  *)

(* The worker process exits, which calls ngx_thread_pool_exit_worker.       *)
ngx_thread_pool_exit_worker ==
  /\ main = "loop"
  /\ main' = "destroy"
  /\ UNCHANGED <<poolVars, active, done, batch, edge, readable, index, exitVars, faults>>

(* Mutant: the flag is set after the exit task has been posted.             *)
PostExitTaskLockLate ==
  \/ /\ main = "destroy" /\ ~Refused(ExitTask)
     /\ Enqueue(ExitTask)
     /\ main' = "setlock"
     /\ UNCHANGED <<lock, done, batch, edge, readable, index, exits, faults>>
  \/ /\ main = "setlock"
     /\ lock' = TRUE
     /\ main' = "wait"
     /\ UNCHANGED <<poolVars, active, done, batch, edge, readable, index, exits, faults>>

(* lock = 1, and an exit task is posted; if that fails the pool is left     *)
(* with its threads running.                                                *)
PostExitTask ==
  /\ main = "destroy"
  /\ lock' = TRUE
  /\ IF Refused(ExitTask)
     THEN main' = "abandoned" /\ UNCHANGED <<poolVars, active>>
     ELSE main' = "wait" /\ Enqueue(ExitTask)
  /\ UNCHANGED <<done, batch, edge, readable, index, exits, faults>>

(* while (lock); after the last thread the mutex is destroyed.              *)
ThreadExited ==
  /\ main = "wait"
  /\ ~lock
  /\ active' = [active EXCEPT ![ExitTask] = FALSE]
  /\ exits' = exits + 1
  /\ main' = IF exits' = Cardinality(Threads) THEN "destroyed" ELSE "destroy"
  /\ UNCHANGED <<poolVars, done, batch, edge, readable, index, lock, faults>>

(* The process is gone, or it waits for a thread that failed.               *)
Stopped ==
  /\ main \in {"destroyed", "abandoned"} \/ (main = "wait" /\ faults > 0)
  /\ UNCHANGED vars

-----------------------------------------------------------------------------
Thread(t) ==
  \/ NextTask(t) \/ Wakeup(t) \/ RunTask(t) \/ Publish(t)
  \/ ngx_thread_pool_exit_handler(t)

Handler == NotifyEvent \/ NotifyRead \/ TakeDone \/ CompleteTask \/ HandlerReturns

Destroy == PostExitTask \/ ThreadExited

Next ==
  \/ \E k \in Tasks : ngx_thread_task_post(k) \/ PostSignalError(k)
  \/ \E t \in Threads : \/ Thread(t) \/ SpuriousWakeup(t)
                        \/ NotifyError(t) \/ ThreadError(t)
  \/ Handler \/ Destroy \/ ngx_thread_pool_exit_worker \/ Stopped

Spec == Init /\ [][Next]_vars

(* The scheduler runs every thread, tasks end, and the event loop returns   *)
(* to epoll_wait().  Nothing obliges a request to post or the worker to     *)
(* exit.                                                                    *)
Fairness ==
  /\ \A t \in Threads : WF_vars(Thread(t))
  /\ WF_vars(Handler) /\ WF_vars(Destroy)

LiveSpec == Spec /\ Fairness

-----------------------------------------------------------------------------
(* Properties                                                               *)

ThreadLabels == {"start", "waiting", "woken", "run", "done", "notify", "exited", "failed"}
MainLabels   == {"loop", "read", "handler", "batch", "destroy", "wait", "destroyed", "abandoned"}

(* The state has the declared shape, and tp->waiting never exceeds the      *)
(* max_queue of the configuration.                                          *)
TypeOK ==
  /\ queue \in Seq(AllTasks)
  /\ waiting \in Int /\ waiting <= MaxQueue
  /\ thr \in [Threads -> ThreadLabels]
  /\ job \in [Threads -> AllTasks \cup {NoTask}]
  /\ active \in [AllTasks -> BOOLEAN]
  /\ done \in Seq(AllTasks) /\ batch \in Seq(AllTasks)
  /\ main \in MainLabels
  /\ edge \in BOOLEAN /\ readable \in BOOLEAN
  /\ index \in 0 .. MaxIndex - 1
  /\ lock \in BOOLEAN
  /\ exits \in 0 .. Cardinality(Threads)
  /\ faults \in 0 .. MaxFaults

(* tp->waiting, which the code lets become negative, is the length of the   *)
(* queue less the threads that wait for a task; a thread whose              *)
(* pthread_cond_wait() failed stays subtracted.  The limit max_queue is     *)
(* compared with this number.                                               *)
WaitingAccounted ==
  waiting = Len(queue) - Cardinality(Idle \cup At("failed"))

(* How many places hold task k.                                             *)
TaskPlaces(k) ==
    Cardinality({i \in DOMAIN queue : queue[i] = k})
  + Cardinality({t \in Threads : job[t] = k})
  + Cardinality({i \in DOMAIN done : done[i] = k})
  + Cardinality({i \in DOMAIN batch : batch[i] = k})

(* A task is on one list, or with one thread, exactly while it is active:   *)
(* it is never queued, run or completed twice, and an active task is never  *)
(* forgotten unless a pthread call failed.                                  *)
ActiveTaskOwned ==
  \A k \in Tasks :
    /\ TaskPlaces(k) <= 1
    /\ TaskPlaces(k) = 1 => active[k]
    /\ active[k] /\ faults = 0 => TaskPlaces(k) = 1

(* No thread sleeps while a queued task has no thread of its own coming to  *)
(* take it: the signal of ngx_thread_task_post is never lost.               *)
NoIdleWhileQueued ==
  faults = 0 /\ At("waiting") # {}
    => Len(queue) <= Cardinality(At("start") \cup At("woken"))

(* A completed task never waits for the event loop unannounced: epoll has   *)
(* an event for it, its thread is about to write to the eventfd, or the     *)
(* handler is about to take the list.  The rare read of the eventfd does    *)
(* not lose it, and never blocks the event loop.                            *)
CompletionNotified ==
  /\ faults = 0 /\ done # <<>>
       => edge \/ At("notify") # {} \/ main \in {"read", "handler"}
  /\ main = "read" \/ edge => readable

(* When ngx_thread_pool_destroy destroys the mutex and the condition, no    *)
(* thread can use them any more and no task is left in the queue.           *)
DestroyIsClean ==
  main = "destroyed" => queue = <<>> /\ \A t \in Threads : thr[t] = "exited"

(* Every posted task is completed in the event loop, unless the worker      *)
(* exits first or a call fails.                                             *)
CompletionDelivered ==
  \A k \in Tasks :
    active[k] ~> \/ ~active[k] \/ faults > 0
                 \/ main \in {"destroy", "wait", "destroyed", "abandoned"}

(* ngx_thread_pool_destroy does not wait forever, unless a call has failed  *)
(* and a thread that was to take an exit task is gone.                      *)
DestroyEnds == main = "destroy" ~> main \in {"destroyed", "abandoned"} \/ faults > 0
=============================================================================
