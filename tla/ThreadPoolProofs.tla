-------------------------- MODULE ThreadPoolProofs --------------------------
(***************************************************************************)
(* Proofs about the thread pool of ThreadPool, for every number of threads, *)
(* tasks and faults, every max_queue and every interval between two reads   *)
(* of the eventfd.                                                          *)
(***************************************************************************)
EXTENDS ThreadPool, FiniteSetTheorems, TLAPS

(* Every action of the module, for the leaves that expand them all.         *)
LEMMA NextCases ==
  ASSUME [Next]_vars
  PROVE  \/ \E k \in Tasks : ngx_thread_task_post(k)
         \/ \E k \in Tasks : PostSignalError(k)
         \/ \E t \in Threads : NextTask(t)
         \/ \E t \in Threads : Wakeup(t)
         \/ \E t \in Threads : RunTask(t)
         \/ \E t \in Threads : Publish(t)
         \/ \E t \in Threads : ngx_thread_pool_exit_handler(t)
         \/ \E t \in Threads : SpuriousWakeup(t)
         \/ \E t \in Threads : NotifyError(t)
         \/ \E t \in Threads : ThreadError(t)
         \/ NotifyEvent
         \/ NotifyRead
         \/ TakeDone
         \/ CompleteTask
         \/ HandlerReturns
         \/ PostExitTask
         \/ ThreadExited
         \/ ngx_thread_pool_exit_worker
         \/ UNCHANGED vars
BY DEF Next, Thread, Handler, Destroy, Stopped

(* Behind the types: the exit counter is below the number of threads while  *)
(* exit tasks are still posted, and a thread has a task exactly while it    *)
(* runs it or has still to put it on the done list.                         *)
ExitsInBounds ==
  main \notin {"destroyed", "abandoned"} => exits < Cardinality(Threads)
JobHeld ==
  \A t \in Threads : job[t] # NoTask <=> thr[t] \in {"run", "done"}
TypeInv == TypeOK /\ ExitsInBounds /\ JobHeld

LEMMA TaskFacts ==
  Tasks \subseteq AllTasks /\ ExitTask \in AllTasks /\ NoTask \notin AllTasks
BY ThreadPoolAssumption DEF AllTasks

(* What the lists of the pool need of sequences.                            *)
LEMMA ListFacts ==
  ASSUME NEW S, NEW q \in Seq(S)
  PROVE  /\ <<>> \in Seq(S) /\ Len(q) \in Nat
         /\ q = <<>> <=> Len(q) = 0
         /\ q # <<>> => /\ Head(q) \in S /\ Tail(q) \in Seq(S)
                        /\ Len(Tail(q)) = Len(q) - 1
         /\ \A x \in S : Append(q, x) \in Seq(S) /\ Len(Append(q, x)) = Len(q) + 1
OBVIOUS

LEMMA ThreadCount == Cardinality(Threads) \in Nat \ {0}
BY ThreadPoolAssumption, FS_CardinalityType, FS_EmptySet

(* Posting a task, as far as the types go.                                  *)
LEMMA EnqueueTypes ==
  ASSUME TypeInv, NEW k \in AllTasks, ~Refused(k), Enqueue(k)
  PROVE  /\ queue' \in Seq(AllTasks)
         /\ waiting' \in Int /\ waiting' <= MaxQueue
         /\ thr' \in [Threads -> ThreadLabels]
         /\ active' \in [AllTasks -> BOOLEAN]
         /\ JobHeld'
<1> USE DEF TypeInv, TypeOK, Enqueue
<1>1. queue' \in Seq(AllTasks)
  BY ListFacts
<1>2. waiting' \in Int /\ waiting' <= MaxQueue
  BY ThreadPoolAssumption DEF Refused
<1>3. thr' \in [Threads -> ThreadLabels] /\ JobHeld'
  <2>1. CASE At("waiting") = {}
    BY <2>1 DEF Signal, JobHeld
  <2>2. CASE At("waiting") # {}
    BY <2>2 DEF Signal, At, Goto, ThreadLabels, JobHeld
  <2> QED
    BY <2>1, <2>2
<1>4. active' \in [AllTasks -> BOOLEAN]
  OBVIOUS
<1> QED
  BY <1>1, <1>2, <1>3, <1>4

(* Taking a task, as far as the types go.                                   *)
LEMMA TakeTaskTypes ==
  ASSUME TypeInv, NEW t \in Threads, thr[t] \in {"start", "woken"}, TakeTask(t)
  PROVE  /\ queue' \in Seq(AllTasks)
         /\ thr' \in [Threads -> ThreadLabels]
         /\ job' \in [Threads -> AllTasks \cup {NoTask}]
         /\ JobHeld'
<1> USE DEF TypeInv, TypeOK, JobHeld, TakeTask, Goto, ThreadLabels
<1>1. CASE queue = <<>>
  BY <1>1
<1>2. CASE queue # <<>>
  <2>1. Head(queue) \in AllTasks /\ Tail(queue) \in Seq(AllTasks)
    BY <1>2, ListFacts
  <2>2. queue' \in Seq(AllTasks) /\ job' \in [Threads -> AllTasks \cup {NoTask}]
    BY <1>2, <2>1
  <2>3. thr' \in [Threads -> ThreadLabels]
    BY <1>2
  <2>4. JobHeld'
    BY <1>2, <2>1, TaskFacts
  <2> QED
    BY <2>2, <2>3, <2>4
<1> QED
  BY <1>1, <1>2

LEMMA TypeInvStep ==
  ASSUME TypeInv, [Next]_vars
  PROVE  TypeInv'
<1> USE ThreadPoolAssumption, ThreadCount, TaskFacts
    DEF TypeInv, TypeOK, ExitsInBounds, JobHeld, ThreadLabels, MainLabels,
                 Goto, At, poolVars, loopVars, exitVars
<1>0. /\ queue # <<>> => Head(queue) \in AllTasks /\ Tail(queue) \in Seq(AllTasks)
      /\ batch # <<>> => Head(batch) \in AllTasks /\ Tail(batch) \in Seq(AllTasks)
      /\ \A k \in AllTasks : Append(queue, k) \in Seq(AllTasks)
      /\ \A k \in AllTasks : Append(done, k) \in Seq(AllTasks)
  BY ListFacts
<1>1. CASE \E k \in Tasks : ngx_thread_task_post(k)
  <2> PICK k \in Tasks : ngx_thread_task_post(k)
    BY <1>1
  <2>1. k \in AllTasks /\ ~Refused(k) /\ Enqueue(k)
    BY DEF ngx_thread_task_post
  <2> QED
    BY <2>1, EnqueueTypes DEF ngx_thread_task_post, Enqueue
<1>2. CASE \E k \in Tasks : PostSignalError(k)
  BY <1>2 DEF PostSignalError, Fault
<1>3. CASE \E t \in Threads : NextTask(t)
  <2> PICK t \in Threads : NextTask(t)
    BY <1>3
  <2>1. thr[t] \in {"start", "woken"} /\ TakeTask(t)
    BY DEF NextTask
  <2> QED
    BY <2>1, TakeTaskTypes DEF NextTask
<1>4. CASE \E t \in Threads : Wakeup(t)
  <2> PICK t \in Threads : Wakeup(t)
    BY <1>4
  <2>1. thr[t] \in {"start", "woken"} /\ TakeTask(t)
    BY DEF Wakeup
  <2> QED
    BY <2>1, TakeTaskTypes DEF Wakeup
<1>5. CASE \E t \in Threads : RunTask(t)
  BY <1>5 DEF RunTask
<1>6. CASE \E t \in Threads : Publish(t)
  <2> PICK t \in Threads : Publish(t)
    BY <1>6
  <2>1. CASE thr[t] = "done"
    <3>1. job[t] \in AllTasks
      BY <2>1
    <3>2. done' \in Seq(AllTasks)
      BY <2>1, <3>1, <1>0 DEF Publish
    <3> QED
      BY <2>1, <3>2 DEF Publish
  <2>2. CASE thr[t] = "notify"
    BY <2>2 DEF Publish
  <2> QED
    BY <2>1, <2>2 DEF Publish
<1>7. CASE \E t \in Threads : ngx_thread_pool_exit_handler(t)
  BY <1>7 DEF ngx_thread_pool_exit_handler
<1>8. CASE \E t \in Threads : SpuriousWakeup(t)
  BY <1>8 DEF SpuriousWakeup
<1>9. CASE \E t \in Threads : NotifyError(t)
  BY <1>9 DEF NotifyError, Fault
<1>10. CASE \E t \in Threads : ThreadError(t)
  BY <1>10 DEF ThreadError, Fault
<1>11. CASE NotifyEvent
  <2>1. index' \in 0 .. MaxIndex - 1 /\ main' \in {"read", "handler"}
    BY <1>11 DEF NotifyEvent
  <2>2. edge' \in BOOLEAN /\ exits < Cardinality(Threads)
    BY <1>11 DEF NotifyEvent
  <2>3. UNCHANGED <<poolVars, active, done, batch, readable, exitVars, faults>>
    BY <1>11 DEF NotifyEvent
  <2> QED
    BY <2>1, <2>2, <2>3
<1>12. CASE NotifyRead
  BY <1>12 DEF NotifyRead
<1>13. CASE TakeDone
  BY <1>13 DEF TakeDone
<1>14. CASE CompleteTask
  BY <1>14 DEF CompleteTask
<1>15. CASE HandlerReturns
  BY <1>15 DEF HandlerReturns
<1>16. CASE PostExitTask
  <2>1. CASE Refused(ExitTask)
    BY <1>16, <2>1 DEF PostExitTask
  <2>2. CASE ~Refused(ExitTask)
    BY <1>16, <2>2, EnqueueTypes DEF PostExitTask, Enqueue
  <2> QED
    BY <2>1, <2>2
<1>17. CASE ThreadExited
  BY <1>17 DEF ThreadExited
<1>18. CASE ngx_thread_pool_exit_worker
  BY <1>18 DEF ngx_thread_pool_exit_worker
<1>19. CASE UNCHANGED vars
  BY <1>19 DEF vars
<1> QED
  BY NextCases, <1>1, <1>2, <1>3, <1>4, <1>5, <1>6, <1>7, <1>8, <1>9, <1>10,
     <1>11, <1>12, <1>13, <1>14, <1>15, <1>16, <1>17, <1>18, <1>19

LEMMA TypeInvHolds == Spec => []TypeInv
<1> USE ThreadPoolAssumption, ThreadCount, TaskFacts
<1>1. Init => TypeInv
  <2> SUFFICES ASSUME Init PROVE TypeInv
    OBVIOUS
  <2>1. <<>> \in Seq(AllTasks)
    OBVIOUS
  <2>2. active \in [AllTasks -> BOOLEAN] /\ edge \in BOOLEAN
        /\ readable \in BOOLEAN /\ lock \in BOOLEAN
    BY DEF Init
  <2>3. index \in 0 .. MaxIndex - 1 /\ exits \in 0 .. Cardinality(Threads)
        /\ exits < Cardinality(Threads) /\ faults \in 0 .. MaxFaults
    BY DEF Init
  <2> QED
    BY <2>1, <2>2, <2>3 DEF Init, TypeInv, TypeOK, ExitsInBounds, JobHeld, ThreadLabels, MainLabels
<1>2. TypeInv /\ [Next]_vars => TypeInv'
  BY TypeInvStep
<1> QED
  BY <1>1, <1>2, PTL DEF Spec

(* The variables keep their types and tp->waiting stays within max_queue.   *)
THEOREM TypeCorrect == Spec => []TypeOK
<1>1. TypeInv => TypeOK
  BY DEF TypeInv
<1> QED
  BY <1>1, TypeInvHolds, PTL

-----------------------------------------------------------------------------
(* The sets of threads the counts are about.                                *)
NotCounted == Idle \cup At("failed")
Ready      == At("start") \cup At("woken")

LEMMA FiniteParts ==
  /\ IsFiniteSet(NotCounted) /\ Cardinality(NotCounted) \in Nat
  /\ IsFiniteSet(Ready) /\ Cardinality(Ready) \in Nat
<1>1. NotCounted \subseteq Threads /\ Ready \subseteq Threads
  BY DEF NotCounted, Ready, Idle, At
<1> QED
  BY <1>1, ThreadPoolAssumption, FS_Subset, FS_CardinalityType

(* A post makes the queue one longer and, if some thread waits, one more    *)
(* thread ready; it leaves the set of idle threads alone.                   *)
LEMMA EnqueueCounts ==
  ASSUME TypeInv, NEW k \in AllTasks, Enqueue(k)
  PROVE  /\ Len(queue') = Len(queue) + 1
         /\ NotCounted' = NotCounted
         /\ At("waiting") # {} => Cardinality(Ready') = Cardinality(Ready) + 1
         /\ At("waiting") = {} => At("waiting")' = {}
<1> USE DEF TypeInv, TypeOK, Enqueue, At
<1>1. Len(queue') = Len(queue) + 1
  BY ListFacts
<1>2. CASE At("waiting") = {}
  BY <1>1, <1>2 DEF Signal, NotCounted, Idle
<1>3. CASE At("waiting") # {}
  <2> PICK t \in Threads : thr[t] = "waiting" /\ Goto(t, "woken")
    BY <1>3 DEF Signal
  <2>1. Ready' = Ready \cup {t} /\ t \notin Ready
    BY DEF Goto, Ready
  <2>2. NotCounted' = NotCounted
    BY DEF Goto, NotCounted, Idle
  <2>3. Cardinality(Ready') = Cardinality(Ready) + 1
    BY <2>1, FiniteParts, FS_AddElement
  <2> QED
    BY <1>1, <1>3, <2>2, <2>3
<1> QED
  BY <1>2, <1>3

(* Taking a task makes the queue one shorter, and the thread is no longer   *)
(* ready; finding none puts it among the idle ones.                         *)
LEMMA TakeTaskCounts ==
  ASSUME TypeInv, NEW t \in Threads, thr[t] \in {"start", "woken"}, TakeTask(t)
  PROVE  /\ queue = <<>> => /\ Len(queue') = 0 /\ Len(queue) = 0
                            /\ NotCounted' = NotCounted \cup {t}
         /\ queue # <<>> => /\ Len(queue') = Len(queue) - 1
                            /\ NotCounted' = NotCounted \ {t}
                            /\ Ready' = Ready \ {t}
                            /\ At("waiting")' = At("waiting")
<1> USE DEF TypeInv, TypeOK, TakeTask, Goto, At
<1>1. CASE queue = <<>>
  <2>1. Len(queue) = 0 /\ queue' = queue
    BY <1>1
  <2>2. NotCounted' = NotCounted \cup {t}
    BY <1>1 DEF NotCounted, Idle
  <2> QED
    BY <1>1, <2>1, <2>2
<1>2. CASE queue # <<>>
  <2>1. Len(queue') = Len(queue) - 1
    BY <1>2, ListFacts
  <2>2. thr' = [thr EXCEPT ![t] = "run"]
    BY <1>2
  <2>3. NotCounted' = NotCounted \ {t} /\ Ready' = Ready \ {t}
    BY <2>2 DEF NotCounted, Idle, Ready
  <2>4. At("waiting")' = At("waiting")
    BY <2>2
  <2> QED
    BY <1>2, <2>1, <2>3, <2>4
<1> QED
  BY <1>1, <1>2

LEMMA WaitingAccountedStep ==
  ASSUME TypeInv, WaitingAccounted, [Next]_vars
  PROVE  WaitingAccounted'
<1> USE DEF TypeInv, TypeOK, At, Goto, poolVars, loopVars, exitVars
<1>0. /\ Len(queue) \in Nat
      /\ IsFiniteSet(NotCounted) /\ Cardinality(NotCounted) \in Nat
      /\ IsFiniteSet(Ready) /\ Cardinality(Ready) \in Nat
  BY ListFacts, FiniteParts
<1>w. waiting = Len(queue) - Cardinality(NotCounted)
  BY DEF WaitingAccounted, NotCounted
<1>g. SUFFICES waiting' = Len(queue') - Cardinality(NotCounted')
  BY DEF WaitingAccounted, NotCounted
<1>same. ASSUME NotCounted' = NotCounted, queue' = queue, waiting' = waiting
         PROVE  waiting' = Len(queue') - Cardinality(NotCounted')
  BY <1>w, <1>same
<1>1. CASE \E k \in Tasks : ngx_thread_task_post(k)
  <2> PICK k \in Tasks : ngx_thread_task_post(k)
    BY <1>1
  <2>1. k \in AllTasks /\ Enqueue(k)
    BY TaskFacts DEF ngx_thread_task_post
  <2>2. Len(queue') = Len(queue) + 1 /\ NotCounted' = NotCounted
    BY <2>1, EnqueueCounts
  <2>3. waiting' = waiting + 1
    BY <2>1 DEF Enqueue
  <2> QED
    BY <1>0, <1>w, <2>2, <2>3
<1>2. CASE \E k \in Tasks : PostSignalError(k)
  BY <1>2, <1>same DEF PostSignalError, NotCounted, Idle
<1>3. CASE \E t \in Threads : NextTask(t)
  <2> PICK t \in Threads : NextTask(t)
    BY <1>3
  <2>1. thr[t] = "start" /\ TakeTask(t) /\ waiting' = waiting - 1
    BY DEF NextTask
  <2>2. t \notin NotCounted
    BY <2>1 DEF NotCounted, Idle
  <2>3. CASE queue = <<>>
    <3>1. Cardinality(NotCounted') = Cardinality(NotCounted) + 1
      BY <1>0, <2>1, <2>2, <2>3, TakeTaskCounts, FS_AddElement
    <3> QED
      BY <1>0, <1>w, <2>1, <2>3, <3>1, TakeTaskCounts
  <2>4. CASE queue # <<>>
    <3>0. NotCounted' = NotCounted \ {t}
      BY <2>1, <2>4, TakeTaskCounts
    <3>1. NotCounted' = NotCounted
      BY <2>2, <3>0
    <3> QED
      BY <1>0, <1>w, <2>1, <2>4, <3>1, TakeTaskCounts
  <2> QED
    BY <2>3, <2>4
<1>4. CASE \E t \in Threads : Wakeup(t)
  <2> PICK t \in Threads : Wakeup(t)
    BY <1>4
  <2>1. thr[t] = "woken" /\ TakeTask(t) /\ waiting' = waiting
    BY DEF Wakeup
  <2>2. t \in NotCounted
    BY <2>1 DEF NotCounted, Idle
  <2>3. CASE queue = <<>>
    <3>1. NotCounted' = NotCounted
      BY <2>1, <2>2, <2>3, TakeTaskCounts
    <3> QED
      BY <1>0, <1>w, <2>1, <2>3, <3>1, TakeTaskCounts
  <2>4. CASE queue # <<>>
    <3>r. NotCounted' = NotCounted \ {t}
      BY <2>1, <2>4, TakeTaskCounts
    <3>1. Cardinality(NotCounted') = Cardinality(NotCounted) - 1
      BY <1>0, <2>2, <3>r, FS_RemoveElement
    <3> QED
      BY <1>0, <1>w, <2>1, <2>4, <3>1, TakeTaskCounts
  <2> QED
    BY <2>3, <2>4
<1>5. CASE \E t \in Threads : RunTask(t)
  BY <1>5, <1>same DEF RunTask, NotCounted, Idle
<1>6. CASE \E t \in Threads : Publish(t)
  BY <1>6, <1>same DEF Publish, NotCounted, Idle
<1>7. CASE \E t \in Threads : ngx_thread_pool_exit_handler(t)
  BY <1>7, <1>same DEF ngx_thread_pool_exit_handler, NotCounted, Idle
<1>8. CASE \E t \in Threads : SpuriousWakeup(t)
  BY <1>8, <1>same DEF SpuriousWakeup, NotCounted, Idle
<1>9. CASE \E t \in Threads : NotifyError(t)
  BY <1>9, <1>same DEF NotifyError, NotCounted, Idle
<1>10. CASE \E t \in Threads : ThreadError(t)
  BY <1>10, <1>same DEF ThreadError, NotCounted, Idle
<1>11. CASE NotifyEvent
  BY <1>11, <1>same DEF NotifyEvent, NotCounted, Idle
<1>12. CASE NotifyRead
  BY <1>12, <1>same DEF NotifyRead, NotCounted, Idle
<1>13. CASE TakeDone
  BY <1>13, <1>same DEF TakeDone, NotCounted, Idle
<1>14. CASE CompleteTask
  BY <1>14, <1>same DEF CompleteTask, NotCounted, Idle
<1>15. CASE HandlerReturns
  BY <1>15, <1>same DEF HandlerReturns, NotCounted, Idle
<1>16. CASE PostExitTask
  <2>1. CASE Refused(ExitTask)
    BY <1>16, <2>1, <1>same DEF PostExitTask, NotCounted, Idle
  <2>2. CASE ~Refused(ExitTask)
    <3>1. ExitTask \in AllTasks /\ Enqueue(ExitTask)
      BY <1>16, <2>2, TaskFacts DEF PostExitTask
    <3>2. Len(queue') = Len(queue) + 1 /\ NotCounted' = NotCounted
      BY <3>1, EnqueueCounts
    <3>3. waiting' = waiting + 1
      BY <3>1 DEF Enqueue
    <3> QED
      BY <1>0, <1>w, <3>2, <3>3
  <2> QED
    BY <2>1, <2>2
<1>17. CASE ThreadExited
  BY <1>17, <1>same DEF ThreadExited, NotCounted, Idle
<1>18. CASE ngx_thread_pool_exit_worker
  BY <1>18, <1>same DEF ngx_thread_pool_exit_worker, NotCounted, Idle
<1>19. CASE UNCHANGED vars
  BY <1>19, <1>same DEF vars, NotCounted, Idle
<1> QED
  BY NextCases, <1>1, <1>2, <1>3, <1>4, <1>5, <1>6, <1>7, <1>8, <1>9, <1>10,
     <1>11, <1>12, <1>13, <1>14, <1>15, <1>16, <1>17, <1>18, <1>19

(* tp->waiting is the length of the queue less the threads that wait for a  *)
(* task, whatever order posts, wakeups and failures come in.                *)
THEOREM WaitingAlwaysAccounted == Spec => []WaitingAccounted
<1>1. Init => WaitingAccounted
  <2> SUFFICES ASSUME Init PROVE WaitingAccounted
    OBVIOUS
  <2>1. Idle \cup At("failed") = {} /\ Len(queue) = 0
    BY DEF Init, Idle, At
  <2>2. Cardinality(Idle \cup At("failed")) = 0
    BY <2>1, FS_EmptySet
  <2>3. waiting = 0
    BY DEF Init
  <2> QED
    BY <2>1, <2>2, <2>3 DEF WaitingAccounted
<1>2. TypeInv /\ WaitingAccounted /\ [Next]_vars => WaitingAccounted'
  BY WaitingAccountedStep
<1> QED
  BY <1>1, <1>2, TypeInvHolds, PTL DEF Spec

-----------------------------------------------------------------------------
LEMMA FiniteReady == Cardinality(Ready') \in Nat
<1>1. Ready' \subseteq Threads
  BY DEF Ready, At
<1> QED
  BY <1>1, ThreadPoolAssumption, FS_Subset, FS_CardinalityType

(* A post readies a waiting thread for the task it adds, and a thread only  *)
(* goes to sleep when the queue is empty.                                   *)
LEMMA NoIdleWhileQueuedStep ==
  ASSUME TypeInv, NoIdleWhileQueued, [Next]_vars
  PROVE  NoIdleWhileQueued'
<1> USE DEF TypeInv, TypeOK, At, Goto, poolVars, loopVars, exitVars
<1>0. /\ Len(queue) \in Nat
      /\ IsFiniteSet(NotCounted) /\ Cardinality(NotCounted) \in Nat
      /\ IsFiniteSet(Ready) /\ Cardinality(Ready) \in Nat
  BY ListFacts, FiniteParts
<1>g. SUFFICES ASSUME faults' = 0, At("waiting")' # {}
              PROVE  Len(queue') <= Cardinality(Ready')
  BY DEF NoIdleWhileQueued, Ready
<1>n. faults = 0 /\ At("waiting") # {} => Len(queue) <= Cardinality(Ready)
  BY DEF NoIdleWhileQueued, Ready
<1>same. ASSUME Ready' = Ready, queue' = queue, faults' = faults,
                At("waiting")' = At("waiting")
         PROVE  Len(queue') <= Cardinality(Ready')
  BY <1>g, <1>n, <1>same
<1>1. CASE \E k \in Tasks : ngx_thread_task_post(k)
  <2> PICK k \in Tasks : ngx_thread_task_post(k)
    BY <1>1
  <2>1. k \in AllTasks /\ Enqueue(k) /\ faults' = faults
    BY TaskFacts DEF ngx_thread_task_post
  <2> QED
    BY <1>0, <1>g, <1>n, <2>1, EnqueueCounts
<1>2. CASE \E k \in Tasks : PostSignalError(k)
  BY <1>2, <1>g DEF PostSignalError, Fault
<1>3. CASE \E t \in Threads : NextTask(t)
  <2> PICK t \in Threads : NextTask(t)
    BY <1>3
  <2>1. thr[t] = "start" /\ TakeTask(t) /\ faults' = faults
    BY DEF NextTask
  <2>2. t \in Ready
    BY <2>1 DEF Ready
  <2>3. CASE queue = <<>>
    <3>1. Len(queue') = 0 /\ Cardinality(Ready') \in Nat
      BY <2>1, <2>3, TakeTaskCounts, FiniteReady
    <3> QED
      BY <3>1
  <2>4. CASE queue # <<>>
    <3>r. Ready' = Ready \ {t}
      BY <2>1, <2>4, TakeTaskCounts
    <3>1. Cardinality(Ready') = Cardinality(Ready) - 1
      BY <1>0, <2>2, <3>r, FS_RemoveElement
    <3>2. Len(queue') = Len(queue) - 1 /\ At("waiting")' = At("waiting")
      BY <2>1, <2>4, TakeTaskCounts
    <3> QED
      BY <1>0, <1>g, <1>n, <2>1, <3>1, <3>2
  <2> QED
    BY <2>3, <2>4
<1>4. CASE \E t \in Threads : Wakeup(t)
  <2> PICK t \in Threads : Wakeup(t)
    BY <1>4
  <2>1. thr[t] = "woken" /\ TakeTask(t) /\ faults' = faults
    BY DEF Wakeup
  <2>2. t \in Ready
    BY <2>1 DEF Ready
  <2>3. CASE queue = <<>>
    <3>1. Len(queue') = 0 /\ Cardinality(Ready') \in Nat
      BY <2>1, <2>3, TakeTaskCounts, FiniteReady
    <3> QED
      BY <3>1
  <2>4. CASE queue # <<>>
    <3>r. Ready' = Ready \ {t}
      BY <2>1, <2>4, TakeTaskCounts
    <3>1. Cardinality(Ready') = Cardinality(Ready) - 1
      BY <1>0, <2>2, <3>r, FS_RemoveElement
    <3>2. Len(queue') = Len(queue) - 1 /\ At("waiting")' = At("waiting")
      BY <2>1, <2>4, TakeTaskCounts
    <3> QED
      BY <1>0, <1>g, <1>n, <2>1, <3>1, <3>2
  <2> QED
    BY <2>3, <2>4
<1>5. CASE \E t \in Threads : RunTask(t)
  BY <1>5, <1>same DEF RunTask, Ready
<1>6. CASE \E t \in Threads : Publish(t)
  <2> PICK t \in Threads : Publish(t)
    BY <1>6
  <2>1. CASE thr[t] = "done"
    BY <2>1, <1>same DEF Publish, Ready
  <2>2. CASE thr[t] = "notify"
    <3>1. Ready' = Ready \cup {t} /\ t \notin Ready
      BY <2>2 DEF Publish, Ready
    <3>2. Cardinality(Ready') = Cardinality(Ready) + 1
      BY <1>0, <3>1, FS_AddElement
    <3>3. queue' = queue /\ faults' = faults /\ At("waiting")' = At("waiting")
      BY <2>2 DEF Publish
    <3> QED
      BY <1>0, <1>g, <1>n, <3>2, <3>3
  <2> QED
    BY <2>1, <2>2 DEF Publish
<1>7. CASE \E t \in Threads : ngx_thread_pool_exit_handler(t)
  BY <1>7, <1>same DEF ngx_thread_pool_exit_handler, Ready
<1>8. CASE \E t \in Threads : SpuriousWakeup(t)
  <2> PICK t \in Threads : SpuriousWakeup(t)
    BY <1>8
  <2>1. Ready' = Ready \cup {t} /\ t \notin Ready /\ t \in At("waiting")
    BY DEF SpuriousWakeup, Ready
  <2>2. Cardinality(Ready') = Cardinality(Ready) + 1
    BY <1>0, <2>1, FS_AddElement
  <2>3. queue' = queue /\ faults' = faults
    BY DEF SpuriousWakeup
  <2> QED
    BY <1>0, <1>g, <1>n, <2>1, <2>2, <2>3
<1>9. CASE \E t \in Threads : NotifyError(t)
  BY <1>9, <1>g DEF NotifyError, Fault
<1>10. CASE \E t \in Threads : ThreadError(t)
  BY <1>10, <1>g DEF ThreadError, Fault
<1>11. CASE NotifyEvent
  BY <1>11, <1>same DEF NotifyEvent, Ready
<1>12. CASE NotifyRead
  BY <1>12, <1>same DEF NotifyRead, Ready
<1>13. CASE TakeDone
  BY <1>13, <1>same DEF TakeDone, Ready
<1>14. CASE CompleteTask
  BY <1>14, <1>same DEF CompleteTask, Ready
<1>15. CASE HandlerReturns
  BY <1>15, <1>same DEF HandlerReturns, Ready
<1>16. CASE PostExitTask
  <2>1. CASE Refused(ExitTask)
    BY <1>16, <2>1, <1>same DEF PostExitTask, Ready
  <2>2. CASE ~Refused(ExitTask)
    <3>1. ExitTask \in AllTasks /\ Enqueue(ExitTask) /\ faults' = faults
      BY <1>16, <2>2, TaskFacts DEF PostExitTask
    <3> QED
      BY <1>0, <1>g, <1>n, <3>1, EnqueueCounts
  <2> QED
    BY <2>1, <2>2
<1>17. CASE ThreadExited
  BY <1>17, <1>same DEF ThreadExited, Ready
<1>18. CASE ngx_thread_pool_exit_worker
  BY <1>18, <1>same DEF ngx_thread_pool_exit_worker, Ready
<1>19. CASE UNCHANGED vars
  BY <1>19, <1>same DEF vars, Ready
<1> QED
  BY NextCases, <1>1, <1>2, <1>3, <1>4, <1>5, <1>6, <1>7, <1>8, <1>9, <1>10,
     <1>11, <1>12, <1>13, <1>14, <1>15, <1>16, <1>17, <1>18, <1>19

(* The signal of ngx_thread_task_post is never lost: without failing calls  *)
(* every queued task has a thread coming for it, or all threads are busy.   *)
THEOREM QueuedTasksAreAttended == Spec => []NoIdleWhileQueued
<1>1. Init => NoIdleWhileQueued
  BY DEF Init, NoIdleWhileQueued, At
<1>2. TypeInv /\ NoIdleWhileQueued /\ [Next]_vars => NoIdleWhileQueued'
  BY NoIdleWhileQueuedStep
<1> QED
  BY <1>1, <1>2, TypeInvHolds, PTL DEF Spec

-----------------------------------------------------------------------------
LEMMA CompletionNotifiedStep ==
  ASSUME TypeInv, CompletionNotified, [Next]_vars
  PROVE  CompletionNotified'
<1> USE DEF TypeInv, TypeOK, CompletionNotified, At, Goto, poolVars, loopVars, exitVars
<1>1. CASE \E k \in Tasks : ngx_thread_task_post(k)
  BY <1>1 DEF ngx_thread_task_post, Enqueue, Signal
<1>2. CASE \E k \in Tasks : PostSignalError(k)
  BY <1>2 DEF PostSignalError, Fault
<1>3. CASE \E t \in Threads : NextTask(t)
  BY <1>3 DEF NextTask, TakeTask
<1>4. CASE \E t \in Threads : Wakeup(t)
  BY <1>4 DEF Wakeup, TakeTask
<1>5. CASE \E t \in Threads : RunTask(t)
  BY <1>5 DEF RunTask
<1>6. CASE \E t \in Threads : Publish(t)
  BY <1>6 DEF Publish
<1>7. CASE \E t \in Threads : ngx_thread_pool_exit_handler(t)
  BY <1>7 DEF ngx_thread_pool_exit_handler
<1>8. CASE \E t \in Threads : SpuriousWakeup(t)
  BY <1>8 DEF SpuriousWakeup
<1>9. CASE \E t \in Threads : NotifyError(t)
  BY <1>9 DEF NotifyError, Fault
<1>10. CASE \E t \in Threads : ThreadError(t)
  BY <1>10 DEF ThreadError, Fault
<1>11. CASE NotifyEvent
  BY <1>11 DEF NotifyEvent
<1>12. CASE NotifyRead
  BY <1>12 DEF NotifyRead
<1>13. CASE TakeDone
  BY <1>13 DEF TakeDone
<1>14. CASE CompleteTask
  BY <1>14 DEF CompleteTask
<1>15. CASE HandlerReturns
  BY <1>15 DEF HandlerReturns
<1>16. CASE PostExitTask
  BY <1>16 DEF PostExitTask, Enqueue, Signal
<1>17. CASE ThreadExited
  BY <1>17 DEF ThreadExited
<1>18. CASE ngx_thread_pool_exit_worker
  BY <1>18 DEF ngx_thread_pool_exit_worker
<1>19. CASE UNCHANGED vars
  BY <1>19 DEF vars
<1> QED
  BY NextCases, <1>1, <1>2, <1>3, <1>4, <1>5, <1>6, <1>7, <1>8, <1>9, <1>10,
     <1>11, <1>12, <1>13, <1>14, <1>15, <1>16, <1>17, <1>18, <1>19

(* A completed task always has its notification under way, also across the  *)
(* rare read that empties the eventfd, and that read never blocks.          *)
THEOREM CompletionsAreNotified == Spec => []CompletionNotified
<1>1. Init => CompletionNotified
  BY DEF Init, CompletionNotified
<1>2. TypeInv /\ CompletionNotified /\ [Next]_vars => CompletionNotified'
  BY CompletionNotifiedStep
<1> QED
  BY <1>1, <1>2, TypeInvHolds, PTL DEF Spec

-----------------------------------------------------------------------------
(* How often task k is on a list, and how many threads have it.             *)
Occurs(q, k) == Cardinality({i \in DOMAIN q : q[i] = k})
Held(k)      == Cardinality({t \in Threads : job[t] = k})

LEMMA OccursType ==
  ASSUME NEW S, NEW q \in Seq(S), NEW k
  PROVE  /\ IsFiniteSet({i \in DOMAIN q : q[i] = k})
         /\ Occurs(q, k) \in Nat
         /\ Occurs(<<>>, k) = 0
<1>1. DOMAIN q = 1 .. Len(q) /\ Len(q) \in Nat
  OBVIOUS
<1>2. IsFiniteSet(1 .. Len(q))
  BY <1>1, FS_Interval
<1>3. IsFiniteSet({i \in DOMAIN q : q[i] = k})
  BY <1>1, <1>2, FS_Subset
<1>4. {i \in DOMAIN <<>> : <<>>[i] = k} = {}
  OBVIOUS
<1> QED
  BY <1>3, <1>4, FS_CardinalityType, FS_EmptySet DEF Occurs

(* Appending adds an occurrence of the task appended.                       *)
LEMMA OccursAppend ==
  ASSUME NEW S, NEW q \in Seq(S), NEW x \in S, NEW k
  PROVE  Occurs(Append(q, x), k) = IF x = k THEN Occurs(q, k) + 1 ELSE Occurs(q, k)
<1> DEFINE P == {i \in DOMAIN q : q[i] = k}
           R == {i \in DOMAIN Append(q, x) : Append(q, x)[i] = k}
<1>1. IsFiniteSet(P) /\ Occurs(q, k) = Cardinality(P)
  BY OccursType DEF Occurs
<1>2. Len(q) + 1 \notin P
  OBVIOUS
<1>3. CASE x = k
  <2>1. R = P \cup {Len(q) + 1}
    BY <1>3
  <2>2. Cardinality(R) = Cardinality(P) + 1
    BY <1>1, <1>2, <2>1, FS_AddElement
  <2> QED
    BY <1>1, <1>3, <2>2 DEF Occurs
<1>4. CASE x # k
  <2>1. R = P
    BY <1>4
  <2> QED
    BY <1>1, <1>4, <2>1 DEF Occurs
<1> QED
  BY <1>3, <1>4

(* Removing the head takes away an occurrence of the head.                  *)
LEMMA OccursTail ==
  ASSUME NEW S, NEW q \in Seq(S), q # <<>>, NEW k
  PROVE  Occurs(Tail(q), k) = IF Head(q) = k THEN Occurs(q, k) - 1 ELSE Occurs(q, k)
<1> DEFINE P == {i \in DOMAIN q : q[i] = k}
           R == {i \in DOMAIN Tail(q) : Tail(q)[i] = k}
           Q == P \ {1}
           f == [i \in R |-> i + 1]
<1>1. /\ Len(q) \in Nat \ {0} /\ DOMAIN q = 1 .. Len(q)
      /\ Tail(q) \in Seq(S) /\ DOMAIN Tail(q) = 1 .. Len(q) - 1
      /\ \A i \in 1 .. Len(q) - 1 : Tail(q)[i] = q[i + 1]
      /\ Head(q) = q[1]
  OBVIOUS
<1>2. IsFiniteSet(P) /\ IsFiniteSet(R)
  BY <1>1, OccursType
<1>3. f \in Bijection(R, Q)
  <2>1. \A i \in R : i \in Int /\ i + 1 \in Q
    BY <1>1
  <2>2. \A j \in Q : j - 1 \in R /\ (j - 1) + 1 = j
    BY <1>1
  <2>3. f \in [R -> Q]
    BY <2>1
  <2>4. \A i, j \in R : f[i] = f[j] => i = j
    BY <2>1
  <2>5. \A j \in Q : \E i \in R : f[i] = j
    BY <2>2
  <2>6. f \in Injection(R, Q)
    BY <2>3, <2>4 DEF Injection, IsInjective
  <2>7. f \in Surjection(R, Q)
    BY <2>3, <2>5 DEF Surjection
  <2> QED
    BY <2>6, <2>7 DEF Bijection
<1>4. ExistsBijection(R, Q)
  BY <1>3, Zenon DEF ExistsBijection
<1>5. Cardinality(Q) = Cardinality(R)
  BY <1>2, <1>4, FS_Bijection
<1>6. Cardinality(Q) = IF 1 \in P THEN Cardinality(P) - 1 ELSE Cardinality(P)
  BY <1>2, FS_RemoveElement
<1>7. 1 \in P <=> Head(q) = k
  BY <1>1
<1> QED
  BY <1>5, <1>6, <1>7 DEF Occurs

(* A thread takes a task that no other has, and drops it.                   *)
LEMMA HeldFacts ==
  ASSUME TypeInv, NEW k
  PROVE  /\ Held(k) \in Nat
         /\ \A x : \A t \in Threads :
              job' = [job EXCEPT ![t] = x]
                => Held(k)' = Held(k) + (IF x = k THEN 1 ELSE 0) - (IF job[t] = k THEN 1 ELSE 0)
<1> DEFINE H == {t \in Threads : job[t] = k}
<1>1. IsFiniteSet(H) /\ Held(k) = Cardinality(H) /\ Held(k) \in Nat
  <2>1. IsFiniteSet(H)
    BY ThreadPoolAssumption, FS_Subset
  <2> QED
    BY <2>1, FS_CardinalityType DEF Held
<1>2. ASSUME NEW t \in Threads, NEW x, job' = [job EXCEPT ![t] = x]
      PROVE  Held(k)' = Held(k) + (IF x = k THEN 1 ELSE 0) - (IF job[t] = k THEN 1 ELSE 0)
  <2> DEFINE G == {s \in Threads : job'[s] = k}
  <2>0. Held(k)' = Cardinality(G) /\ job'[t] = x
    BY <1>2 DEF Held, TypeInv, TypeOK
  <2>1. CASE x = k /\ job[t] # k
    <3>1. G = H \cup {t} /\ t \notin H
      BY <1>2, <2>1 DEF TypeInv, TypeOK
    <3>2. Cardinality(G) = Cardinality(H) + 1
      BY <1>1, <3>1, FS_AddElement
    <3> QED
      BY <1>1, <2>0, <2>1, <3>2
  <2>2. CASE x # k /\ job[t] = k
    <3>1. G = H \ {t} /\ t \in H
      BY <1>2, <2>2 DEF TypeInv, TypeOK
    <3>2. Cardinality(G) = Cardinality(H) - 1
      BY <1>1, <3>1, FS_RemoveElement
    <3> QED
      BY <1>1, <2>0, <2>2, <3>2
  <2>3. CASE x = k <=> job[t] = k
    <3>1. G = H
      BY <1>2, <2>3 DEF TypeInv, TypeOK
    <3>2. Held(k)' = Held(k)
      BY <1>1, <2>0, <3>1
    <3> QED
      BY <1>1, <2>3, <3>2
  <2> QED
    BY <2>1, <2>2, <2>3
<1> QED
  BY <1>1, <1>2

(* ActiveTaskOwned for one task, and what makes it inductive: the list that *)
(* ngx_thread_pool_handler has taken is empty when it takes another.        *)
OwnedOnce(k) ==
  /\ TaskPlaces(k) <= 1
  /\ TaskPlaces(k) = 1 => active[k]
  /\ active[k] /\ faults = 0 => TaskPlaces(k) = 1
BatchInHandler == batch # <<>> => main = "batch"
OwnerInv == ActiveTaskOwned /\ BatchInHandler

LEMMA PlacesSum ==
  ASSUME TypeInv, NEW k
  PROVE  /\ TaskPlaces(k) = Occurs(queue, k) + Held(k) + Occurs(done, k) + Occurs(batch, k)
         /\ Occurs(queue, k) \in Nat /\ Held(k) \in Nat
         /\ Occurs(done, k) \in Nat /\ Occurs(batch, k) \in Nat
         /\ TaskPlaces(k) \in Nat
<1>1. Occurs(queue, k) \in Nat /\ Occurs(done, k) \in Nat /\ Occurs(batch, k) \in Nat
  BY OccursType DEF TypeInv, TypeOK
<1>2. Held(k) \in Nat
  BY HeldFacts
<1>3. TaskPlaces(k) = Occurs(queue, k) + Held(k) + Occurs(done, k) + Occurs(batch, k)
  BY DEF TaskPlaces, Occurs, Held
<1> QED
  BY <1>1, <1>2, <1>3

(* A post puts a task that is nowhere at the end of the queue.              *)
LEMMA EnqueueOwns ==
  ASSUME TypeInv, TypeInv', NEW j \in AllTasks, NEW k \in Tasks, OwnedOnce(k),
         ~Refused(j), Enqueue(j), UNCHANGED <<done, batch, faults>>
  PROVE  OwnedOnce(k)'
<1>1. Occurs(queue', k) = IF j = k THEN Occurs(queue, k) + 1 ELSE Occurs(queue, k)
  BY OccursAppend DEF Enqueue, TypeInv, TypeOK
<1>2. Held(k)' = Held(k) /\ Occurs(done', k) = Occurs(done, k)
      /\ Occurs(batch', k) = Occurs(batch, k)
  BY DEF Enqueue, Held, Occurs
<1>3. /\ TaskPlaces(k) = Occurs(queue, k) + Held(k) + Occurs(done, k) + Occurs(batch, k)
      /\ TaskPlaces(k)' = Occurs(queue', k) + Held(k)' + Occurs(done', k) + Occurs(batch', k)
      /\ Occurs(queue, k) \in Nat /\ Held(k) \in Nat
      /\ Occurs(done, k) \in Nat /\ Occurs(batch, k) \in Nat /\ TaskPlaces(k) \in Nat
  <2>1. TaskPlaces(k)' = Occurs(queue', k) + Held(k)' + Occurs(done', k) + Occurs(batch', k)
    BY DEF TaskPlaces, Occurs, Held
  <2> QED
    BY <2>1, PlacesSum
<1>4. CASE j = k
  <2>1. ~active[k] /\ active'[k]
    BY <1>4 DEF Refused, Enqueue, TypeInv, TypeOK
  <2>2. TaskPlaces(k) <= 1 /\ TaskPlaces(k) # 1
    BY <2>1, Zenon DEF OwnedOnce
  <2>2a. TaskPlaces(k) = 0
    <3>1. TaskPlaces(k) \in Nat
      BY <1>3
    <3>2. \A n \in Nat : n <= 1 /\ n # 1 => n = 0
      OBVIOUS
    <3> QED
      BY <2>2, <3>1, <3>2, Zenon
  <2>3. TaskPlaces(k)' = 1
    BY <1>1, <1>2, <1>3, <1>4, <2>2a
  <2> QED
    BY <2>1, <2>3 DEF OwnedOnce
<1>5. CASE j # k
  <2>1. active'[k] = active[k]
    BY <1>5, TaskFacts DEF Enqueue, TypeInv, TypeOK
  <2>2. TaskPlaces(k)' = TaskPlaces(k)
    BY <1>1, <1>2, <1>3, <1>5
  <2> QED
    BY <2>1, <2>2 DEF OwnedOnce
<1> QED
  BY <1>4, <1>5

(* A thread that takes a task moves it from the queue to itself.            *)
LEMMA TakeTaskOwns ==
  ASSUME TypeInv, NEW t \in Threads, thr[t] \in {"start", "woken"}, TakeTask(t),
         NEW k \in Tasks, OwnedOnce(k), UNCHANGED <<active, done, batch, faults>>
  PROVE  OwnedOnce(k)'
<1>1. Occurs(done', k) = Occurs(done, k) /\ Occurs(batch', k) = Occurs(batch, k)
  BY DEF Occurs
<1>2. TaskPlaces(k)' = Occurs(queue', k) + Held(k)' + Occurs(done', k) + Occurs(batch', k)
  BY DEF TaskPlaces, Occurs, Held
<1>3. CASE queue = <<>>
  <2>1. Occurs(queue', k) = Occurs(queue, k) /\ Held(k)' = Held(k)
    BY <1>3 DEF TakeTask, Occurs, Held
  <2>2. TaskPlaces(k)' = TaskPlaces(k)
    BY <1>1, <1>2, <2>1, PlacesSum
  <2> QED
    BY <2>2 DEF OwnedOnce
<1>4. CASE queue # <<>>
  <2>1. Occurs(queue', k) = IF Head(queue) = k THEN Occurs(queue, k) - 1 ELSE Occurs(queue, k)
    BY <1>4, OccursTail DEF TakeTask, TypeInv, TypeOK
  <2>2. job[t] # k
    BY TaskFacts DEF TypeInv, TypeOK, JobHeld
  <2>3. Held(k)' = IF Head(queue) = k THEN Held(k) + 1 ELSE Held(k)
    <3>1. job' = [job EXCEPT ![t] = Head(queue)]
      BY <1>4 DEF TakeTask
    <3>2. Held(k)' = Held(k) + (IF Head(queue) = k THEN 1 ELSE 0) - (IF job[t] = k THEN 1 ELSE 0)
      BY <3>1, HeldFacts
    <3> QED
      BY <2>2, <3>2, HeldFacts
  <2>4. TaskPlaces(k)' = TaskPlaces(k)
    BY <1>1, <1>2, <2>1, <2>3, PlacesSum
  <2> QED
    BY <2>4 DEF OwnedOnce
<1> QED
  BY <1>3, <1>4

LEMMA OwnerInvStep ==
  ASSUME TypeInv, TypeInv', OwnerInv, [Next]_vars
  PROVE  OwnerInv'
<1>b. BatchInHandler'
  <2> USE DEF OwnerInv, BatchInHandler, poolVars, loopVars, exitVars
  <2>1. CASE TakeDone \/ CompleteTask \/ HandlerReturns \/ NotifyEvent \/ NotifyRead
    BY <2>1 DEF TakeDone, CompleteTask, HandlerReturns, NotifyEvent, NotifyRead
  <2>2. CASE PostExitTask \/ ThreadExited \/ ngx_thread_pool_exit_worker \/ UNCHANGED vars
    BY <2>2 DEF PostExitTask, ThreadExited, ngx_thread_pool_exit_worker, vars
  <2>3. CASE \E k \in Tasks : ngx_thread_task_post(k) \/ PostSignalError(k)
    BY <2>3 DEF ngx_thread_task_post, PostSignalError
  <2>4. CASE \E t \in Threads : NextTask(t) \/ Wakeup(t) \/ RunTask(t) \/ Publish(t)
    BY <2>4 DEF NextTask, Wakeup, RunTask, Publish
  <2>5. CASE \E t \in Threads : \/ ngx_thread_pool_exit_handler(t) \/ SpuriousWakeup(t)
                                \/ NotifyError(t) \/ ThreadError(t)
    BY <2>5 DEF ngx_thread_pool_exit_handler, SpuriousWakeup, NotifyError, ThreadError
  <2> QED
    BY NextCases, <2>1, <2>2, <2>3, <2>4, <2>5
<1>a. SUFFICES ASSUME NEW k \in Tasks PROVE OwnedOnce(k)'
  BY <1>b DEF OwnerInv, ActiveTaskOwned, OwnedOnce
<1>o. OwnedOnce(k) /\ k \in AllTasks /\ k # ExitTask /\ k # NoTask
  BY TaskFacts, ThreadPoolAssumption DEF OwnerInv, ActiveTaskOwned, OwnedOnce
<1>s. /\ TaskPlaces(k) = Occurs(queue, k) + Held(k) + Occurs(done, k) + Occurs(batch, k)
      /\ TaskPlaces(k)' = Occurs(queue', k) + Held(k)' + Occurs(done', k) + Occurs(batch', k)
      /\ Occurs(queue, k) \in Nat /\ Held(k) \in Nat
      /\ Occurs(done, k) \in Nat /\ Occurs(batch, k) \in Nat /\ TaskPlaces(k) \in Nat
  <2>1. TaskPlaces(k)' = Occurs(queue', k) + Held(k)' + Occurs(done', k) + Occurs(batch', k)
    BY DEF TaskPlaces, Occurs, Held
  <2> QED
    BY <2>1, PlacesSum
<1>same. ASSUME UNCHANGED <<queue, job, done, batch>>, active'[k] = active[k],
                faults' = faults
         PROVE  OwnedOnce(k)'
  <2>1. TaskPlaces(k)' = TaskPlaces(k)
    BY <1>same DEF TaskPlaces
  <2> QED
    BY <1>o, <1>same, <2>1 DEF OwnedOnce
<1> USE DEF poolVars, loopVars, exitVars
<1>1. CASE \E j \in Tasks : ngx_thread_task_post(j)
  <2> PICK j \in Tasks : ngx_thread_task_post(j)
    BY <1>1
  <2>1. j \in AllTasks /\ ~Refused(j) /\ Enqueue(j) /\ UNCHANGED <<done, batch, faults>>
    BY TaskFacts DEF ngx_thread_task_post
  <2> QED
    BY <1>o, <2>1, EnqueueOwns
<1>2. CASE \E j \in Tasks : PostSignalError(j)
  <2> PICK j \in Tasks : PostSignalError(j)
    BY <1>2
  <2>1. faults' # 0
    BY DEF PostSignalError, Fault, TypeInv, TypeOK
  <2>2. TaskPlaces(k)' = TaskPlaces(k)
    BY DEF PostSignalError, TaskPlaces
  <2>3. active[k] => active'[k]
    BY <1>o DEF PostSignalError, TypeInv, TypeOK
  <2> QED
    BY <1>o, <2>1, <2>2, <2>3 DEF OwnedOnce
<1>3. CASE \E t \in Threads : NextTask(t) \/ Wakeup(t)
  <2> PICK t \in Threads : NextTask(t) \/ Wakeup(t)
    BY <1>3
  <2>1. thr[t] \in {"start", "woken"} /\ TakeTask(t)
        /\ UNCHANGED <<active, done, batch, faults>>
    BY DEF NextTask, Wakeup
  <2> QED
    BY <1>o, <2>1, TakeTaskOwns
<1>4. CASE \E t \in Threads : RunTask(t) \/ SpuriousWakeup(t)
  BY <1>4, <1>same DEF RunTask, SpuriousWakeup
<1>5. CASE \E t \in Threads : Publish(t)
  <2> PICK t \in Threads : Publish(t)
    BY <1>5
  <2>1. CASE thr[t] = "done"
    <3>1. /\ done' = Append(done, job[t]) /\ job' = [job EXCEPT ![t] = NoTask]
          /\ UNCHANGED <<queue, active, batch, faults>>
      BY <2>1 DEF Publish
    <3>2. job[t] \in AllTasks
      BY <2>1 DEF TypeInv, TypeOK, JobHeld
    <3>3. Occurs(done', k) = IF job[t] = k THEN Occurs(done, k) + 1 ELSE Occurs(done, k)
      BY <3>1, <3>2, OccursAppend DEF TypeInv, TypeOK
    <3>4. Held(k)' = Held(k) + (IF NoTask = k THEN 1 ELSE 0) - (IF job[t] = k THEN 1 ELSE 0)
      BY <3>1, HeldFacts
    <3>5. Occurs(queue', k) = Occurs(queue, k) /\ Occurs(batch', k) = Occurs(batch, k)
      BY <3>1 DEF Occurs
    <3>6. TaskPlaces(k)' = TaskPlaces(k)
      BY <1>o, <1>s, <3>3, <3>4, <3>5
    <3> QED
      BY <1>o, <3>1, <3>6 DEF OwnedOnce
  <2>2. CASE thr[t] = "notify"
    BY <2>2, <1>same DEF Publish
  <2> QED
    BY <2>1, <2>2 DEF Publish
<1>6. CASE \E t \in Threads : ngx_thread_pool_exit_handler(t)
  <2> PICK t \in Threads : ngx_thread_pool_exit_handler(t)
    BY <1>6
  <2>1. /\ job' = [job EXCEPT ![t] = NoTask] /\ job[t] = ExitTask
        /\ UNCHANGED <<queue, active, done, batch, faults>>
    BY DEF ngx_thread_pool_exit_handler
  <2>2. Held(k)' = Held(k) + (IF NoTask = k THEN 1 ELSE 0) - (IF job[t] = k THEN 1 ELSE 0)
    BY <2>1, HeldFacts
  <2>3. Held(k)' = Held(k)
    BY <1>o, <1>s, <2>1, <2>2
  <2>4. TaskPlaces(k)' = TaskPlaces(k)
    BY <1>s, <2>1, <2>3
  <2> QED
    BY <1>o, <2>1, <2>4 DEF OwnedOnce
<1>7. CASE \E t \in Threads : NotifyError(t)
  <2>1. TaskPlaces(k)' = TaskPlaces(k) /\ faults' # 0 /\ active' = active
    BY <1>7 DEF NotifyError, Fault, TaskPlaces, TypeInv, TypeOK
  <2> QED
    BY <1>o, <2>1 DEF OwnedOnce
<1>8. CASE \E t \in Threads : ThreadError(t)
  <2> PICK t \in Threads : ThreadError(t)
    BY <1>8
  <2>1. /\ job' = [job EXCEPT ![t] = NoTask]
        /\ UNCHANGED <<queue, active, done, batch>>
    BY DEF ThreadError
  <2>2. faults' # 0
    BY DEF ThreadError, Fault, TypeInv, TypeOK
  <2>3. Held(k)' = Held(k) + (IF NoTask = k THEN 1 ELSE 0) - (IF job[t] = k THEN 1 ELSE 0)
    BY <2>1, HeldFacts
  <2>4. TaskPlaces(k)' <= TaskPlaces(k) /\ TaskPlaces(k)' \in Int
    BY <1>o, <1>s, <2>1, <2>3
  <2>5. TaskPlaces(k)' = 1 => TaskPlaces(k) = 1
    BY <1>o, <1>s, <2>4 DEF OwnedOnce
  <2> QED
    BY <1>o, <1>s, <2>1, <2>2, <2>4, <2>5 DEF OwnedOnce
<1>9. CASE NotifyEvent \/ NotifyRead \/ HandlerReturns \/ ngx_thread_pool_exit_worker
  BY <1>9, <1>same DEF NotifyEvent, NotifyRead, HandlerReturns, ngx_thread_pool_exit_worker
<1>10. CASE TakeDone
  <2>1. batch = <<>> /\ batch' = done /\ done' = <<>>
        /\ UNCHANGED <<queue, job, active, faults>>
    BY <1>10 DEF TakeDone, OwnerInv, BatchInHandler
  <2>2. /\ Occurs(queue', k) = Occurs(queue, k) /\ Held(k)' = Held(k)
        /\ Occurs(batch', k) = Occurs(done, k)
    BY <2>1 DEF Occurs, Held
  <2>3. Occurs(done', k) = 0 /\ Occurs(batch, k) = 0
    BY <2>1, OccursType DEF TypeInv, TypeOK
  <2>4. TaskPlaces(k)' = TaskPlaces(k)
    BY <1>s, <2>2, <2>3
  <2> QED
    BY <1>o, <2>1, <2>4 DEF OwnedOnce
<1>11. CASE CompleteTask
  <2>1. /\ batch # <<>> /\ batch' = Tail(batch)
        /\ active' = [active EXCEPT ![Head(batch)] = FALSE]
        /\ UNCHANGED <<queue, job, done, faults>>
    BY <1>11 DEF CompleteTask
  <2>2. Occurs(batch', k) = IF Head(batch) = k THEN Occurs(batch, k) - 1 ELSE Occurs(batch, k)
    BY <2>1, OccursTail DEF TypeInv, TypeOK
  <2>3. /\ Occurs(queue', k) = Occurs(queue, k) /\ Held(k)' = Held(k)
        /\ Occurs(done', k) = Occurs(done, k)
    BY <2>1 DEF Occurs, Held
  <2>3a. Occurs(batch', k) \in Nat
    BY OccursType DEF TypeInv, TypeOK
  <2>4. CASE Head(batch) = k
    <3>1. ~active'[k]
      BY <1>o, <2>1, <2>4 DEF TypeInv, TypeOK
    <3>2. TaskPlaces(k)' = 0
      <4>1. TaskPlaces(k) <= 1 /\ TaskPlaces(k)' = TaskPlaces(k) - 1 /\ TaskPlaces(k)' \in Nat
        BY <1>o, <1>s, <2>2, <2>3, <2>3a, <2>4 DEF OwnedOnce
      <4> QED
        BY <1>s, <4>1
    <3> QED
      BY <3>1, <3>2 DEF OwnedOnce
  <2>5. CASE Head(batch) # k
    <3>1. active'[k] = active[k]
      BY <1>o, <2>1, <2>5 DEF TypeInv, TypeOK
    <3>2. TaskPlaces(k)' = TaskPlaces(k)
      BY <1>s, <2>2, <2>3, <2>5
    <3> QED
      BY <1>o, <2>1, <3>1, <3>2 DEF OwnedOnce
  <2> QED
    BY <2>4, <2>5
<1>12. CASE PostExitTask
  <2>1. CASE Refused(ExitTask)
    BY <1>12, <2>1, <1>same DEF PostExitTask
  <2>2. CASE ~Refused(ExitTask)
    <3>1. Enqueue(ExitTask) /\ UNCHANGED <<done, batch, faults>>
      BY <1>12, <2>2 DEF PostExitTask
    <3> QED
      BY <1>o, <2>2, <3>1, EnqueueOwns, TaskFacts
  <2> QED
    BY <2>1, <2>2
<1>13. CASE ThreadExited
  <2>1. active'[k] = active[k]
    BY <1>13, <1>o DEF ThreadExited, TypeInv, TypeOK
  <2> QED
    BY <1>13, <2>1, <1>same DEF ThreadExited
<1>14. CASE UNCHANGED vars
  BY <1>14, <1>same DEF vars
<1> QED
  BY NextCases, <1>1, <1>2, <1>3, <1>4, <1>5, <1>6, <1>7, <1>8, <1>9, <1>10,
     <1>11, <1>12, <1>13, <1>14

(* A task is queued, with one thread, done or being completed, and in one   *)
(* of these places only, exactly while task->event.active is set, however   *)
(* many requests post and threads run; only a failing pthread call loses    *)
(* one.                                                                     *)
THEOREM TasksAreOwned == Spec => []ActiveTaskOwned
<1>1. Init => OwnerInv
  <2> SUFFICES ASSUME Init, NEW k \in Tasks PROVE OwnedOnce(k)
    BY DEF Init, OwnerInv, ActiveTaskOwned, OwnedOnce, BatchInHandler
  <2>1. k \in AllTasks /\ k # NoTask
    BY TaskFacts
  <2>2. /\ {i \in DOMAIN queue : queue[i] = k} = {}
        /\ {i \in DOMAIN done : done[i] = k} = {}
        /\ {i \in DOMAIN batch : batch[i] = k} = {}
        /\ {t \in Threads : job[t] = k} = {}
        /\ ~active[k]
    BY <2>1 DEF Init
  <2>3. TaskPlaces(k) = 0
    BY <2>2, FS_EmptySet DEF TaskPlaces
  <2> QED
    BY <2>2, <2>3 DEF OwnedOnce
<1>2. TypeInv /\ TypeInv' /\ OwnerInv /\ [Next]_vars => OwnerInv'
  BY OwnerInvStep
<1>3. OwnerInv => ActiveTaskOwned
  BY DEF OwnerInv
<1> QED
  BY <1>1, <1>2, <1>3, TypeInvHolds, PTL DEF Spec
=============================================================================
