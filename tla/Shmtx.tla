------------------------------- MODULE Shmtx -------------------------------
(***************************************************************************)
(* The inter-process mutex of src/core/ngx_shmtx.c, in its atomic-ops       *)
(* build (NGX_HAVE_ATOMIC_OPS, NGX_HAVE_POSIX_SEM).  The lock word holds    *)
(* the pid of the owner; a process that cannot get it spins and then, when  *)
(* the mutex has a semaphore, announces itself in the "wait" counter and    *)
(* sleeps.  The master process releases the mutex of a dead child.          *)
(*                                                                          *)
(* Grain of atomicity.  "*lock == 0 && cmp_set(lock, 0, pid)" is one step:  *)
(* a read that sees a non-zero word fails at the read, a read that sees     *)
(* zero is decided at the cmp_set, and the value read is not kept.  For     *)
(* the same reason the read/cmp_set loop of ngx_shmtx_wakeup is one step.   *)
(* Everything else that another process can observe is a step of its own.   *)
(***************************************************************************)
EXTENDS Integers, FiniteSets

CONSTANTS
  Workers,     \* the processes that use the mutex, named by their pid
  Master,      \* the master process, which only forces the mutex open
  NoPid,       \* the value 0 of the lock word
  Semaphore,   \* mtx->semaphore: sem_init() succeeded
  SpinTries,   \* attempts of the inner spin loop (11 for spin = 2048; 0 on
               \* one cpu and for the accept mutex)
  MaxFaults    \* bound: deaths of workers and semaphore errors in a behaviour

ASSUME ShmtxAssumption ==
  /\ IsFiniteSet(Workers)
  /\ Master \notin Workers
  /\ NoPid \notin Workers \cup {Master}
  /\ Semaphore \in BOOLEAN
  /\ SpinTries \in Nat
  /\ MaxFaults \in Nat

VARIABLES
  lock,        \* *mtx->lock
  wait,        \* *mtx->wait, read as a signed number by ngx_shmtx_wakeup
  sem,         \* the value of mtx->sem
  pc,          \* where each process is
  tries,       \* spin attempts already made in this round of the outer loop
  faults       \* how many of those have happened

vars == <<lock, wait, sem, pc, tries, faults>>

Procs == Workers \cup {Master}

Goto(p, l) == pc' = [pc EXCEPT ![p] = l]

Init ==
  /\ lock = NoPid
  /\ wait = 0
  /\ sem = 0
  /\ pc = [p \in Procs |-> "idle"]
  /\ tries = [p \in Workers |-> 0]
  /\ faults = 0

-----------------------------------------------------------------------------
(* ngx_shmtx_trylock: one attempt, no waiting.                              *)
ngx_shmtx_trylock(p) ==
  /\ pc[p] = "idle"
  /\ lock = NoPid
  /\ lock' = p
  /\ Goto(p, "cs")
  /\ UNCHANGED <<wait, sem, tries, faults>>

(* The call of ngx_shmtx_lock.                                              *)
ngx_shmtx_lock(p) ==
  /\ pc[p] = "idle"
  /\ Goto(p, "try")
  /\ tries' = [tries EXCEPT ![p] = 0]
  /\ UNCHANGED <<lock, wait, sem, faults>>

(* Mutant: the word is stored, not compared and set.                        *)
AcquireByStore(p) ==
  /\ pc[p] = "try"
  /\ lock' = p
  /\ Goto(p, "cs")
  /\ UNCHANGED <<wait, sem, tries, faults>>

(* The attempt at the top of the loop, or one of the spin loop, succeeds.   *)
Acquire(p) ==
  /\ pc[p] = "try"
  /\ lock = NoPid
  /\ lock' = p
  /\ Goto(p, "cs")
  /\ UNCHANGED <<wait, sem, tries, faults>>

(* An attempt fails and the spin loop has attempts left.                    *)
Spin(p) ==
  /\ pc[p] = "try"
  /\ lock # NoPid
  /\ tries[p] < SpinTries
  /\ tries' = [tries EXCEPT ![p] = @ + 1]
  /\ UNCHANGED <<lock, wait, sem, pc, faults>>

(* The last attempt of a round fails: wait on the semaphore, or, without    *)
(* one, yield the cpu and start the round again.                            *)
GiveUp(p) ==
  /\ pc[p] = "try"
  /\ lock # NoPid
  /\ tries[p] = SpinTries
  /\ IF Semaphore THEN Goto(p, "addwait") /\ UNCHANGED tries
                  ELSE tries' = [tries EXCEPT ![p] = 0] /\ UNCHANGED pc
  /\ UNCHANGED <<lock, wait, sem, faults>>

(* Mutant: sleep right after the announcement, without another attempt.     *)
AddWaitAndSleep(p) ==
  /\ pc[p] = "addwait"
  /\ wait' = wait + 1
  /\ Goto(p, "semwait")
  /\ UNCHANGED <<lock, sem, tries, faults>>

(* ngx_atomic_fetch_add(mtx->wait, 1)                                       *)
AddWait(p) ==
  /\ pc[p] = "addwait"
  /\ wait' = wait + 1
  /\ Goto(p, "recheck")
  /\ UNCHANGED <<lock, sem, tries, faults>>

(* The attempt made after the announcement.                                 *)
Recheck(p) ==
  /\ pc[p] = "recheck"
  /\ \/ lock = NoPid /\ lock' = p /\ Goto(p, "subwait")
     \/ lock # NoPid /\ UNCHANGED lock /\ Goto(p, "semwait")
  /\ UNCHANGED <<wait, sem, tries, faults>>

(* ngx_atomic_fetch_add(mtx->wait, -1)                                      *)
SubWait(p) ==
  /\ pc[p] = "subwait"
  /\ wait' = wait - 1
  /\ Goto(p, "cs")
  /\ UNCHANGED <<lock, sem, tries, faults>>

(* sem_wait() returns; an EINTR only repeats the call.                      *)
SemWait(p) ==
  /\ pc[p] = "semwait"
  /\ sem > 0
  /\ sem' = sem - 1
  /\ Goto(p, "try")
  /\ tries' = [tries EXCEPT ![p] = 0]
  /\ UNCHANGED <<lock, wait, faults>>

(* sem_wait() fails with anything but EINTR: logged, and the outer loop     *)
(* goes on although the semaphore was not taken.                            *)
SemWaitError(p) ==
  /\ faults < MaxFaults
  /\ pc[p] = "semwait"
  /\ Goto(p, "try")
  /\ tries' = [tries EXCEPT ![p] = 0]
  /\ faults' = faults + 1
  /\ UNCHANGED <<lock, wait, sem>>

-----------------------------------------------------------------------------
(* Mutant: no ngx_shmtx_wakeup after the release.                           *)
AfterReleaseSilent(q) == Goto(q, "idle")

(* What the release of the lock word by q leads to.                         *)
AfterRelease(q) == Goto(q, IF Semaphore THEN "wakeup" ELSE "idle")

ngx_shmtx_unlock(p) ==
  /\ pc[p] = "cs"
  /\ lock = p
  /\ lock' = NoPid
  /\ AfterRelease(p)
  /\ UNCHANGED <<wait, sem, tries, faults>>

(* ngx_shmtx_wakeup: take one waiter off the counter, if there is any.      *)
ngx_shmtx_wakeup(q) ==
  /\ pc[q] = "wakeup"
  /\ \/ wait <= 0 /\ UNCHANGED wait /\ Goto(q, "idle")
     \/ wait > 0 /\ wait' = wait - 1 /\ Goto(q, "post")
  /\ UNCHANGED <<lock, sem, tries, faults>>

(* sem_post()                                                               *)
SemPost(q) ==
  /\ pc[q] = "post"
  /\ sem' = sem + 1
  /\ Goto(q, "idle")
  /\ UNCHANGED <<lock, wait, tries, faults>>

(* sem_post() fails: logged, the sleeper stays where it is.                 *)
SemPostError(q) ==
  /\ faults < MaxFaults
  /\ pc[q] = "post"
  /\ Goto(q, "idle")
  /\ faults' = faults + 1
  /\ UNCHANGED <<lock, wait, sem, tries>>

-----------------------------------------------------------------------------
(* A worker dies (a signal, an abort) anywhere in or out of the mutex.      *)
Crash(p) ==
  /\ faults < MaxFaults
  /\ pc[p] \notin {"dead", "reaped"}
  /\ Goto(p, "dead")
  /\ faults' = faults + 1
  /\ UNCHANGED <<lock, wait, sem, tries>>

(* Mutant: the child is reaped, its mutexes are not opened.                 *)
ReapOnly(p) ==
  /\ pc[Master] = "idle"
  /\ pc[p] = "dead"
  /\ Goto(p, "reaped")
  /\ UNCHANGED <<lock, wait, sem, tries, faults>>

(* The SIGCHLD handler of the master: waitpid() and then                    *)
(* ngx_unlock_mutexes(pid), which calls ngx_shmtx_force_unlock.             *)
ngx_shmtx_force_unlock(p) ==
  /\ pc[Master] = "idle"
  /\ pc[p] = "dead"
  /\ LET after == IF lock = p /\ Semaphore THEN "wakeup" ELSE "idle"
     IN  pc' = [pc EXCEPT ![p] = "reaped", ![Master] = after]
  /\ lock' = IF lock = p THEN NoPid ELSE lock
  /\ UNCHANGED <<wait, sem, tries, faults>>

(* The master starts another worker in the slot of the reaped one.          *)
Respawn(p) ==
  /\ pc[Master] = "idle"
  /\ pc[p] = "reaped"
  /\ Goto(p, "idle")
  /\ UNCHANGED <<lock, wait, sem, tries, faults>>

-----------------------------------------------------------------------------
(* The steps of ngx_shmtx_lock after the call.                              *)
Locking(p) ==
  \/ Acquire(p) \/ Spin(p) \/ GiveUp(p) \/ AddWait(p)
  \/ Recheck(p) \/ SubWait(p) \/ SemWait(p)

Waking(q) == ngx_shmtx_wakeup(q) \/ SemPost(q)

Use(p) ==
  \/ ngx_shmtx_trylock(p) \/ ngx_shmtx_lock(p)
  \/ Locking(p) \/ ngx_shmtx_unlock(p)

Fail(p) ==
  \/ Crash(p) \/ ngx_shmtx_force_unlock(p) \/ Respawn(p) \/ SemWaitError(p)

Next ==
  \/ \E p \in Workers : Use(p) \/ Fail(p)
  \/ \E q \in Procs : Waking(q) \/ SemPostError(q)

Spec == Init /\ [][Next]_vars

(* A process that is inside the mutex keeps running: the scheduler of the   *)
(* operating system is fair, critical sections are short and a posted       *)
(* semaphore wakes a sleeper.  Nothing obliges a process to ask again.      *)
(* The master's handler calls waitpid() until no dead child is left, so it  *)
(* reaches every dead child however many others die meanwhile.              *)
Fairness ==
  /\ \A p \in Workers : /\ WF_vars(Locking(p))
                        /\ WF_vars(ngx_shmtx_unlock(p))
                        /\ SF_vars(ngx_shmtx_force_unlock(p))
  /\ \A q \in Procs : WF_vars(Waking(q))

LiveSpec == Spec /\ Fairness

-----------------------------------------------------------------------------
(* Properties                                                               *)

Labels == {"idle", "try", "addwait", "recheck", "subwait", "semwait", "cs",
           "wakeup", "post", "dead", "reaped"}

(* The state of the mutex and of its users has the declared shape; the      *)
(* master is only ever idle or waking a sleeper.                            *)
TypeOK ==
  /\ lock \in Workers \cup {NoPid}
  /\ wait \in Int
  /\ sem \in Nat
  /\ pc \in [Procs -> Labels]
  /\ pc[Master] \in {"idle", "wakeup", "post"}
  /\ tries \in [Workers -> 0 .. SpinTries]
  /\ faults \in 0 .. MaxFaults

(* Between the cmp_set that takes the lock word and the one that returns it.*)
Holds(p) == pc[p] \in {"subwait", "cs"}

(* At most one process is past a successful cmp_set of ngx_shmtx_lock or    *)
(* ngx_shmtx_trylock, whatever crashes and forced unlocks happen around it. *)
MutualExclusion ==
  \A p, q \in Workers : Holds(p) /\ Holds(q) => p = q

(* The lock word always names a process that is inside the mutex, or one    *)
(* that died there and that the master has still to reap: the mutex is      *)
(* never left locked with nobody who will unlock it.                        *)
LockAccounted ==
  /\ \A p \in Workers : Holds(p) => lock = p
  /\ lock # NoPid => Holds(lock) \/ pc[lock] = "dead"

(* Processes that have announced themselves in mtx->wait, and those that    *)
(* took one announcement off it and owe it a sem_post().                    *)
Announced == {p \in Workers : pc[p] \in {"recheck", "subwait", "semwait"}}
Posting   == {q \in Procs : pc[q] = "post"}

(* Without a fault every announcement is matched: what mtx->wait and the    *)
(* semaphore hold, with the posts under way, is the number of announced     *)
(* processes.  mtx->wait itself may be negative for a while.                *)
WaitAccounted ==
  faults = 0 => wait + sem + Cardinality(Posting) = Cardinality(Announced)

(* Processes that will try the lock word, or wake someone who does, without *)
(* waiting for anybody.                                                     *)
Stirring == {q \in Procs : pc[q] \in {"try", "addwait", "recheck", "wakeup", "post"}}

(* No lost wakeup: while nothing has failed, a process never sleeps in     *)
(* sem_wait() on a free mutex with nobody left to wake it.                  *)
NoLostWakeup ==
  faults = 0 /\ lock = NoPid /\ (\E p \in Workers : pc[p] = "semwait")
    => sem > 0 \/ Stirring # {}

(* The lock word goes from owner to owner only through 0, and it leaves an  *)
(* owner only by that owner's ngx_shmtx_unlock or, once it is dead, by the  *)
(* master's ngx_shmtx_force_unlock.                                         *)
OnlyOwnerOrReaperReleases ==
  [][lock # NoPid /\ lock' # lock =>
       /\ lock' = NoPid
       /\ \/ pc[lock] = "cs" /\ pc'[lock] # "cs"
          \/ pc[lock] = "dead" /\ pc'[lock] = "reaped"]_vars

(* What remains of the state for a user of the mutex: its owner and the     *)
(* processes that are still to be reaped.                                   *)
Unreaped == {p \in Workers : pc[p] = "dead"}

Abstract == INSTANCE MutexSpec WITH owner <- lock, dead <- Unreaped

(* The lock word with its spinning, waiting and waking implements the mutex *)
(* of MutexSpec: every step of ngx_shmtx.c is one of its steps or none.     *)
ImplementsMutex == Abstract!Spec

(* Progress: whenever some process wants the mutex, some process gets it,    *)
(* unless a process dies or a semaphore call fails.  (Not always the same   *)
(* one: the mutex is not fair.)                                             *)
LockProgress ==
  (\E p \in Workers : pc[p] \in {"try", "addwait", "recheck", "semwait"})
    ~> (\E p \in Workers : pc[p] = "cs") \/ faults > 0

(* A mutex whose owner died is opened again by the master.                  *)
DeadOwnerReleased ==
  \A p \in Workers : (lock = p /\ pc[p] = "dead") ~> (lock # p)
=============================================================================
