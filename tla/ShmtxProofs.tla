---------------------------- MODULE ShmtxProofs ----------------------------
(***************************************************************************)
(* Proofs about the mutex of Shmtx, for every finite set of workers, every  *)
(* number of spin attempts and every number of faults.                      *)
(***************************************************************************)
EXTENDS Shmtx, FiniteSetTheorems, TLAPS

(* Every action of the module, for the leaves that expand them all.         *)
LEMMA NextCases ==
  ASSUME [Next]_vars
  PROVE  \/ \E p \in Workers : ngx_shmtx_trylock(p)
         \/ \E p \in Workers : ngx_shmtx_lock(p)
         \/ \E p \in Workers : Acquire(p)
         \/ \E p \in Workers : Spin(p)
         \/ \E p \in Workers : GiveUp(p)
         \/ \E p \in Workers : AddWait(p)
         \/ \E p \in Workers : Recheck(p)
         \/ \E p \in Workers : SubWait(p)
         \/ \E p \in Workers : SemWait(p)
         \/ \E p \in Workers : ngx_shmtx_unlock(p)
         \/ \E p \in Workers : Crash(p)
         \/ \E p \in Workers : ngx_shmtx_force_unlock(p)
         \/ \E p \in Workers : Respawn(p)
         \/ \E p \in Workers : SemWaitError(p)
         \/ \E q \in Procs : ngx_shmtx_wakeup(q)
         \/ \E q \in Procs : SemPost(q)
         \/ \E q \in Procs : SemPostError(q)
         \/ UNCHANGED vars
BY DEF Next, Use, Fail, Locking, Waking

(* The variables keep their types: the lock word is 0 or a worker's pid,    *)
(* the semaphore never goes below zero, the master never locks.             *)
THEOREM TypeCorrect == Spec => []TypeOK
<1> USE ShmtxAssumption
<1>1. Init => TypeOK
  BY DEF Init, TypeOK, Procs, Labels
<1>2. ASSUME TypeOK, [Next]_vars PROVE TypeOK'
  <2> USE <1>2 DEF TypeOK, Procs, Labels, Goto
  <2>1. CASE \E p \in Workers : ngx_shmtx_trylock(p)
    BY <2>1 DEF ngx_shmtx_trylock
  <2>2. CASE \E p \in Workers : ngx_shmtx_lock(p)
    BY <2>2 DEF ngx_shmtx_lock
  <2>3. CASE \E p \in Workers : Acquire(p)
    BY <2>3 DEF Acquire
  <2>4. CASE \E p \in Workers : Spin(p)
    BY <2>4 DEF Spin
  <2>5. CASE \E p \in Workers : GiveUp(p)
    BY <2>5 DEF GiveUp
  <2>6. CASE \E p \in Workers : AddWait(p)
    BY <2>6 DEF AddWait
  <2>7. CASE \E p \in Workers : Recheck(p)
    BY <2>7 DEF Recheck
  <2>8. CASE \E p \in Workers : SubWait(p)
    BY <2>8 DEF SubWait
  <2>9. CASE \E p \in Workers : SemWait(p)
    BY <2>9 DEF SemWait
  <2>10. CASE \E p \in Workers : ngx_shmtx_unlock(p)
    BY <2>10 DEF ngx_shmtx_unlock, AfterRelease
  <2>11. CASE \E p \in Workers : Crash(p)
    BY <2>11 DEF Crash
  <2>12. CASE \E p \in Workers : ngx_shmtx_force_unlock(p)
    BY <2>12 DEF ngx_shmtx_force_unlock
  <2>13. CASE \E p \in Workers : Respawn(p)
    BY <2>13 DEF Respawn
  <2>14. CASE \E q \in Procs : ngx_shmtx_wakeup(q)
    BY <2>14 DEF ngx_shmtx_wakeup
  <2>15. CASE \E q \in Procs : SemPost(q)
    BY <2>15 DEF SemPost
  <2>17. CASE \E p \in Workers : SemWaitError(p)
    BY <2>17 DEF SemWaitError
  <2>18. CASE \E q \in Procs : SemPostError(q)
    BY <2>18 DEF SemPostError
  <2>16. CASE UNCHANGED vars
    BY <2>16 DEF vars
  <2> QED
    BY NextCases, <2>1, <2>2, <2>3, <2>4, <2>5, <2>6, <2>7, <2>8, <2>9, <2>10,
       <2>11, <2>12, <2>13, <2>14, <2>15, <2>16, <2>17, <2>18
<1> QED
  BY <1>1, <1>2, PTL DEF Spec

-----------------------------------------------------------------------------
(* The lock word and the program counters agree.  This is the inductive     *)
(* invariant behind mutual exclusion: a holder's pid is in the lock word,   *)
(* and a pid in the lock word belongs to a holder or to a dead process.     *)
LEMMA LockAccountedStep ==
  ASSUME TypeOK, LockAccounted, [Next]_vars
  PROVE  LockAccounted'
<1> USE ShmtxAssumption DEF TypeOK, LockAccounted, Holds, Procs, Goto
<1>1. CASE \E p \in Workers : ngx_shmtx_trylock(p)
  BY <1>1 DEF ngx_shmtx_trylock
<1>2. CASE \E p \in Workers : ngx_shmtx_lock(p)
  BY <1>2 DEF ngx_shmtx_lock
<1>3. CASE \E p \in Workers : Acquire(p)
  BY <1>3 DEF Acquire
<1>4. CASE \E p \in Workers : Spin(p)
  BY <1>4 DEF Spin
<1>5. CASE \E p \in Workers : GiveUp(p)
  BY <1>5 DEF GiveUp
<1>6. CASE \E p \in Workers : AddWait(p)
  BY <1>6 DEF AddWait
<1>7. CASE \E p \in Workers : Recheck(p)
  BY <1>7 DEF Recheck
<1>8. CASE \E p \in Workers : SubWait(p)
  BY <1>8 DEF SubWait
<1>9. CASE \E p \in Workers : SemWait(p)
  BY <1>9 DEF SemWait
<1>10. CASE \E p \in Workers : ngx_shmtx_unlock(p)
  BY <1>10 DEF ngx_shmtx_unlock, AfterRelease
<1>11. CASE \E p \in Workers : Crash(p)
  BY <1>11 DEF Crash
<1>12. CASE \E p \in Workers : ngx_shmtx_force_unlock(p)
  BY <1>12 DEF ngx_shmtx_force_unlock
<1>13. CASE \E p \in Workers : Respawn(p)
  BY <1>13 DEF Respawn
<1>14. CASE \E q \in Procs : ngx_shmtx_wakeup(q)
  BY <1>14 DEF ngx_shmtx_wakeup
<1>15. CASE \E q \in Procs : SemPost(q)
  BY <1>15 DEF SemPost
<1>17. CASE \E p \in Workers : SemWaitError(p)
  BY <1>17 DEF SemWaitError
<1>18. CASE \E q \in Procs : SemPostError(q)
  BY <1>18 DEF SemPostError
<1>16. CASE UNCHANGED vars
  BY <1>16 DEF vars
<1> QED
  BY NextCases, <1>1, <1>2, <1>3, <1>4, <1>5, <1>6, <1>7, <1>8, <1>9, <1>10, <1>11, <1>12, <1>13, <1>14, <1>15, <1>16, <1>17, <1>18

(* The mutex is never locked on behalf of nobody: ngx_shmtx.c with the      *)
(* forced unlock of ngx_process.c keeps the owner in the lock word until    *)
(* that owner, or the master after its death, gives it back.                *)
THEOREM LockAlwaysAccounted == Spec => []LockAccounted
<1>1. Init => LockAccounted
  BY ShmtxAssumption DEF Init, LockAccounted, Holds, Procs
<1>2. TypeOK /\ LockAccounted /\ [Next]_vars => LockAccounted'
  BY LockAccountedStep
<1> QED
  BY <1>1, <1>2, TypeCorrect, PTL DEF Spec

(* Mutual exclusion between any number of workers, with faults, forced     *)
(* unlocks and respawned workers.                                           *)
THEOREM MutualExclusionHolds == Spec => []MutualExclusion
<1>1. LockAccounted => MutualExclusion
  BY DEF LockAccounted, MutualExclusion
<1> QED
  BY <1>1, LockAlwaysAccounted, PTL

(* The lock word changes hands only through 0, released by its owner or,    *)
(* after the owner's death, by the master.                                  *)
THEOREM ReleaseDiscipline == Spec => OnlyOwnerOrReaperReleases
<1> DEFINE Step == lock # NoPid /\ lock' # lock =>
              /\ lock' = NoPid
              /\ \/ pc[lock] = "cs" /\ pc'[lock] # "cs"
                 \/ pc[lock] = "dead" /\ pc'[lock] = "reaped"
<1>1. ASSUME TypeOK, LockAccounted, [Next]_vars PROVE [Step]_vars
  <2> USE <1>1, ShmtxAssumption DEF TypeOK, LockAccounted, Holds, Procs, Goto
  <2>1. CASE \E p \in Workers : ngx_shmtx_trylock(p)
    BY <2>1 DEF ngx_shmtx_trylock
  <2>2. CASE \E p \in Workers : ngx_shmtx_lock(p)
    BY <2>2 DEF ngx_shmtx_lock
  <2>3. CASE \E p \in Workers : Acquire(p)
    BY <2>3 DEF Acquire
  <2>4. CASE \E p \in Workers : Spin(p)
    BY <2>4 DEF Spin
  <2>5. CASE \E p \in Workers : GiveUp(p)
    BY <2>5 DEF GiveUp
  <2>6. CASE \E p \in Workers : AddWait(p)
    BY <2>6 DEF AddWait
  <2>7. CASE \E p \in Workers : Recheck(p)
    BY <2>7 DEF Recheck
  <2>8. CASE \E p \in Workers : SubWait(p)
    BY <2>8 DEF SubWait
  <2>9. CASE \E p \in Workers : SemWait(p)
    BY <2>9 DEF SemWait
  <2>10. CASE \E p \in Workers : ngx_shmtx_unlock(p)
    BY <2>10 DEF ngx_shmtx_unlock, AfterRelease
  <2>11. CASE \E p \in Workers : Crash(p)
    BY <2>11 DEF Crash
  <2>12. CASE \E p \in Workers : ngx_shmtx_force_unlock(p)
    BY <2>12 DEF ngx_shmtx_force_unlock
  <2>13. CASE \E p \in Workers : Respawn(p)
    BY <2>13 DEF Respawn
  <2>14. CASE \E q \in Procs : ngx_shmtx_wakeup(q)
    BY <2>14 DEF ngx_shmtx_wakeup
  <2>15. CASE \E q \in Procs : SemPost(q)
    BY <2>15 DEF SemPost
  <2>17. CASE \E p \in Workers : SemWaitError(p)
    BY <2>17 DEF SemWaitError
  <2>18. CASE \E q \in Procs : SemPostError(q)
    BY <2>18 DEF SemPostError
  <2>16. CASE UNCHANGED vars
    BY <2>16 DEF vars
  <2> QED
    BY NextCases, <2>1, <2>2, <2>3, <2>4, <2>5, <2>6, <2>7, <2>8, <2>9, <2>10, <2>11, <2>12, <2>13, <2>14, <2>15, <2>16, <2>17, <2>18
<1> QED
  BY <1>1, TypeCorrect, LockAlwaysAccounted, PTL DEF Spec, OnlyOwnerOrReaperReleases

-----------------------------------------------------------------------------
(* Every step of the mutex is a step of MutexSpec or leaves its state alone;*)
(* LockAccounted is needed for the owner that unlocks.                      *)
LEMMA AbstractStep ==
  ASSUME TypeOK, LockAccounted, [Next]_vars
  PROVE  [Abstract!Next]_<<lock, Unreaped>>
<1> USE ShmtxAssumption DEF TypeOK, Procs, Goto, Unreaped
<1>1. CASE \E p \in Workers : ngx_shmtx_trylock(p)
  BY <1>1 DEF ngx_shmtx_trylock, Abstract!Next, Abstract!Take
<1>2. CASE \E p \in Workers : ngx_shmtx_lock(p)
  BY <1>2 DEF ngx_shmtx_lock
<1>3. CASE \E p \in Workers : Acquire(p)
  BY <1>3 DEF Acquire, Abstract!Next, Abstract!Take
<1>4. CASE \E p \in Workers : Spin(p)
  BY <1>4 DEF Spin
<1>5. CASE \E p \in Workers : GiveUp(p)
  BY <1>5 DEF GiveUp
<1>6. CASE \E p \in Workers : AddWait(p)
  BY <1>6 DEF AddWait
<1>7. CASE \E p \in Workers : Recheck(p)
  BY <1>7 DEF Recheck, Abstract!Next, Abstract!Take
<1>8. CASE \E p \in Workers : SubWait(p)
  BY <1>8 DEF SubWait
<1>9. CASE \E p \in Workers : SemWait(p)
  BY <1>9 DEF SemWait
<1>10. CASE \E p \in Workers : ngx_shmtx_unlock(p)
  BY <1>10 DEF ngx_shmtx_unlock, AfterRelease, Abstract!Next, Abstract!Give
<1>11. CASE \E p \in Workers : Crash(p)
  BY <1>11 DEF Crash, Abstract!Next, Abstract!Die
<1>12. CASE \E p \in Workers : ngx_shmtx_force_unlock(p)
  BY <1>12 DEF ngx_shmtx_force_unlock, Abstract!Next, Abstract!Reap
<1>13. CASE \E p \in Workers : Respawn(p)
  BY <1>13 DEF Respawn
<1>14. CASE \E q \in Procs : ngx_shmtx_wakeup(q)
  BY <1>14 DEF ngx_shmtx_wakeup
<1>15. CASE \E q \in Procs : SemPost(q)
  BY <1>15 DEF SemPost
<1>16. CASE \E p \in Workers : SemWaitError(p)
  BY <1>16 DEF SemWaitError
<1>17. CASE \E q \in Procs : SemPostError(q)
  BY <1>17 DEF SemPostError
<1>18. CASE UNCHANGED vars
  BY <1>18 DEF vars
<1> QED
  BY NextCases, <1>1, <1>2, <1>3, <1>4, <1>5, <1>6, <1>7, <1>8, <1>9, <1>10,
     <1>11, <1>12, <1>13, <1>14, <1>15, <1>16, <1>17, <1>18

(* ngx_shmtx.c implements the mutex its users rely on, for any number of    *)
(* workers and faults.                                                      *)
THEOREM ShmtxImplementsMutex == Spec => ImplementsMutex
<1>1. Init => Abstract!Init
  BY ShmtxAssumption DEF Init, Abstract!Init, Unreaped, Procs
<1>2. TypeOK /\ LockAccounted /\ [Next]_vars => [Abstract!Next]_<<lock, Unreaped>>
  BY AbstractStep
<1> QED
  BY <1>1, <1>2, TypeCorrect, LockAlwaysAccounted, PTL
     DEF Spec, ImplementsMutex, Abstract!Spec, Abstract!mutexVars

-----------------------------------------------------------------------------
(* Counting the announced processes and the posts under way.                *)

LEMMA FiniteParts ==
  /\ IsFiniteSet(Announced) /\ Cardinality(Announced) \in Nat
  /\ IsFiniteSet(Posting) /\ Cardinality(Posting) \in Nat
<1>1. IsFiniteSet(Procs)
  BY ShmtxAssumption, FS_AddElement DEF Procs
<1>2. Announced \subseteq Workers /\ Posting \subseteq Procs
  BY DEF Announced, Posting
<1> QED
  BY <1>1, <1>2, ShmtxAssumption, FS_Subset, FS_CardinalityType

(* A set that gains or loses one element.                                   *)
LEMMA CardinalityOneMore ==
  ASSUME NEW S, NEW T, NEW x, IsFiniteSet(S), x \notin S, T = S \cup {x}
  PROVE  Cardinality(T) = Cardinality(S) + 1
BY FS_AddElement

LEMMA CardinalityOneLess ==
  ASSUME NEW S, NEW T, NEW x, IsFiniteSet(S), x \in S, T = S \ {x}
  PROVE  Cardinality(T) = Cardinality(S) - 1
BY FS_RemoveElement

LEMMA WaitAccountedStep ==
  ASSUME TypeOK, WaitAccounted, [Next]_vars
  PROVE  WaitAccounted'
<1> USE ShmtxAssumption DEF TypeOK, Procs, Goto
<1> DEFINE A == Cardinality(Announced)
           P == Cardinality(Posting)
<1>0. /\ IsFiniteSet(Announced) /\ A \in Nat
      /\ IsFiniteSet(Posting) /\ P \in Nat
  BY FiniteParts
<1>same. ASSUME Announced' = Announced, Posting' = Posting,
                wait' = wait, sem' = sem, faults' = faults
         PROVE  WaitAccounted'
  BY <1>same DEF WaitAccounted
<1>1. CASE \E p \in Workers : ngx_shmtx_trylock(p)
  BY <1>1, <1>same DEF ngx_shmtx_trylock, Announced, Posting
<1>2. CASE \E p \in Workers : ngx_shmtx_lock(p)
  BY <1>2, <1>same DEF ngx_shmtx_lock, Announced, Posting
<1>3. CASE \E p \in Workers : Acquire(p)
  BY <1>3, <1>same DEF Acquire, Announced, Posting
<1>4. CASE \E p \in Workers : Spin(p)
  BY <1>4, <1>same DEF Spin, Announced, Posting
<1>5. CASE \E p \in Workers : GiveUp(p)
  BY <1>5, <1>same DEF GiveUp, Announced, Posting
<1>6. CASE \E p \in Workers : AddWait(p)
  <2> PICK p \in Workers : AddWait(p)
    BY <1>6
  <2>1. Announced' = Announced \cup {p} /\ p \notin Announced /\ Posting' = Posting
    BY DEF AddWait, Announced, Posting
  <2>2. Cardinality(Announced') = A + 1
    BY <1>0, <2>1, CardinalityOneMore
  <2> QED
    BY <1>0, <2>1, <2>2 DEF AddWait, WaitAccounted
<1>7. CASE \E p \in Workers : Recheck(p)
  BY <1>7, <1>same DEF Recheck, Announced, Posting
<1>8. CASE \E p \in Workers : SubWait(p)
  <2> PICK p \in Workers : SubWait(p)
    BY <1>8
  <2>1. Announced' = Announced \ {p} /\ p \in Announced /\ Posting' = Posting
    BY DEF SubWait, Announced, Posting
  <2>2. Cardinality(Announced') = A - 1
    BY <1>0, <2>1, CardinalityOneLess
  <2> QED
    BY <1>0, <2>1, <2>2 DEF SubWait, WaitAccounted
<1>9. CASE \E p \in Workers : SemWait(p)
  <2> PICK p \in Workers : SemWait(p)
    BY <1>9
  <2>1. Announced' = Announced \ {p} /\ p \in Announced /\ Posting' = Posting
    BY DEF SemWait, Announced, Posting
  <2>2. Cardinality(Announced') = A - 1
    BY <1>0, <2>1, CardinalityOneLess
  <2> QED
    BY <1>0, <2>1, <2>2 DEF SemWait, WaitAccounted
<1>10. CASE \E p \in Workers : ngx_shmtx_unlock(p)
  BY <1>10, <1>same DEF ngx_shmtx_unlock, AfterRelease, Announced, Posting
<1>11. CASE \E p \in Workers : Crash(p)
  BY <1>11 DEF Crash, WaitAccounted
<1>12. CASE \E p \in Workers : ngx_shmtx_force_unlock(p)
  BY <1>12, <1>same DEF ngx_shmtx_force_unlock, Announced, Posting
<1>13. CASE \E p \in Workers : Respawn(p)
  BY <1>13, <1>same DEF Respawn, Announced, Posting
<1>14. CASE \E q \in Procs : ngx_shmtx_wakeup(q)
  <2> PICK q \in Procs : ngx_shmtx_wakeup(q)
    BY <1>14
  <2>1. CASE wait <= 0
    BY <2>1, <1>same DEF ngx_shmtx_wakeup, Announced, Posting
  <2>2. CASE wait > 0
    <3>1. Posting' = Posting \cup {q} /\ q \notin Posting /\ Announced' = Announced
      BY <2>2 DEF ngx_shmtx_wakeup, Announced, Posting
    <3>2. Cardinality(Posting') = P + 1
      BY <1>0, <3>1, CardinalityOneMore
    <3> QED
      BY <1>0, <2>2, <3>1, <3>2 DEF ngx_shmtx_wakeup, WaitAccounted
  <2> QED
    BY <2>1, <2>2
<1>15. CASE \E q \in Procs : SemPost(q)
  <2> PICK q \in Procs : SemPost(q)
    BY <1>15
  <2>1. Posting' = Posting \ {q} /\ q \in Posting /\ Announced' = Announced
    BY DEF SemPost, Announced, Posting
  <2>2. Cardinality(Posting') = P - 1
    BY <1>0, <2>1, CardinalityOneLess
  <2> QED
    BY <1>0, <2>1, <2>2 DEF SemPost, WaitAccounted
<1>17. CASE \E p \in Workers : SemWaitError(p)
  BY <1>17 DEF SemWaitError, WaitAccounted
<1>18. CASE \E q \in Procs : SemPostError(q)
  BY <1>18 DEF SemPostError, WaitAccounted
<1>16. CASE UNCHANGED vars
  BY <1>16, <1>same DEF vars, Announced, Posting
<1> QED
  BY NextCases, <1>1, <1>2, <1>3, <1>4, <1>5, <1>6, <1>7, <1>8, <1>9, <1>10,
     <1>11, <1>12, <1>13, <1>14, <1>15, <1>16, <1>17, <1>18

(* mtx->wait, the semaphore and the posts under way add up to the number of *)
(* announced processes as long as no worker dies.                           *)
THEOREM WaitAlwaysAccounted == Spec => []WaitAccounted
<1>1. Init => WaitAccounted
  <2> SUFFICES ASSUME Init PROVE WaitAccounted
    OBVIOUS
  <2>1. Announced = {} /\ Posting = {}
    BY DEF Init, Announced, Posting, Procs
  <2> QED
    BY <2>1, FS_EmptySet DEF Init, WaitAccounted
<1>2. TypeOK /\ WaitAccounted /\ [Next]_vars => WaitAccounted'
  BY WaitAccountedStep
<1> QED
  BY <1>1, <1>2, TypeCorrect, PTL DEF Spec

-----------------------------------------------------------------------------
(* Without a semaphore nobody announces itself or sleeps.                   *)
NoSemaphoreNoSleep ==
  ~Semaphore => \A p \in Workers :
                  pc[p] \notin {"addwait", "recheck", "subwait", "semwait"}

LEMMA NoSleepStep ==
  ASSUME TypeOK, NoSemaphoreNoSleep, [Next]_vars
  PROVE  NoSemaphoreNoSleep'
<1> USE ShmtxAssumption DEF TypeOK, NoSemaphoreNoSleep, Procs, Goto
<1>1. CASE \E p \in Workers : ngx_shmtx_trylock(p)
  BY <1>1 DEF ngx_shmtx_trylock
<1>2. CASE \E p \in Workers : ngx_shmtx_lock(p)
  BY <1>2 DEF ngx_shmtx_lock
<1>3. CASE \E p \in Workers : Acquire(p)
  BY <1>3 DEF Acquire
<1>4. CASE \E p \in Workers : Spin(p)
  BY <1>4 DEF Spin
<1>5. CASE \E p \in Workers : GiveUp(p)
  BY <1>5 DEF GiveUp
<1>6. CASE \E p \in Workers : AddWait(p)
  BY <1>6 DEF AddWait
<1>7. CASE \E p \in Workers : Recheck(p)
  BY <1>7 DEF Recheck
<1>8. CASE \E p \in Workers : SubWait(p)
  BY <1>8 DEF SubWait
<1>9. CASE \E p \in Workers : SemWait(p)
  BY <1>9 DEF SemWait
<1>10. CASE \E p \in Workers : ngx_shmtx_unlock(p)
  BY <1>10 DEF ngx_shmtx_unlock, AfterRelease
<1>11. CASE \E p \in Workers : Crash(p)
  BY <1>11 DEF Crash
<1>12. CASE \E p \in Workers : ngx_shmtx_force_unlock(p)
  BY <1>12 DEF ngx_shmtx_force_unlock
<1>13. CASE \E p \in Workers : Respawn(p)
  BY <1>13 DEF Respawn
<1>14. CASE \E q \in Procs : ngx_shmtx_wakeup(q)
  BY <1>14 DEF ngx_shmtx_wakeup
<1>15. CASE \E q \in Procs : SemPost(q)
  BY <1>15 DEF SemPost
<1>17. CASE \E p \in Workers : SemWaitError(p)
  BY <1>17 DEF SemWaitError
<1>18. CASE \E q \in Procs : SemPostError(q)
  BY <1>18 DEF SemPostError
<1>16. CASE UNCHANGED vars
  BY <1>16 DEF vars
<1> QED
  BY NextCases, <1>1, <1>2, <1>3, <1>4, <1>5, <1>6, <1>7, <1>8, <1>9, <1>10,
     <1>11, <1>12, <1>13, <1>14, <1>15, <1>16, <1>17, <1>18

(* A release is followed by a wakeup, and a wakeup that finds nobody in     *)
(* mtx->wait finds the posts already made: this is where the count of       *)
(* WaitAccounted is needed.                                                 *)
LEMMA NoLostWakeupStep ==
  ASSUME TypeOK, WaitAccounted, NoSemaphoreNoSleep, NoLostWakeup, [Next]_vars
  PROVE  NoLostWakeup'
<1> USE ShmtxAssumption DEF TypeOK, NoSemaphoreNoSleep, NoLostWakeup, Stirring,
                            Procs, Goto
<1>1. CASE \E p \in Workers : ngx_shmtx_trylock(p)
  BY <1>1 DEF ngx_shmtx_trylock
<1>2. CASE \E p \in Workers : ngx_shmtx_lock(p)
  BY <1>2 DEF ngx_shmtx_lock
<1>3. CASE \E p \in Workers : Acquire(p)
  BY <1>3 DEF Acquire
<1>4. CASE \E p \in Workers : Spin(p)
  BY <1>4 DEF Spin
<1>5. CASE \E p \in Workers : GiveUp(p)
  BY <1>5 DEF GiveUp
<1>6. CASE \E p \in Workers : AddWait(p)
  BY <1>6 DEF AddWait
<1>7. CASE \E p \in Workers : Recheck(p)
  BY <1>7 DEF Recheck
<1>8. CASE \E p \in Workers : SubWait(p)
  BY <1>8 DEF SubWait
<1>9. CASE \E p \in Workers : SemWait(p)
  BY <1>9 DEF SemWait
<1>10. CASE \E p \in Workers : ngx_shmtx_unlock(p)
  BY <1>10 DEF ngx_shmtx_unlock, AfterRelease
<1>11. CASE \E p \in Workers : Crash(p)
  BY <1>11 DEF Crash
<1>12. CASE \E p \in Workers : ngx_shmtx_force_unlock(p)
  BY <1>12 DEF ngx_shmtx_force_unlock
<1>13. CASE \E p \in Workers : Respawn(p)
  BY <1>13 DEF Respawn
<1>14. CASE \E q \in Procs : ngx_shmtx_wakeup(q)
  <2> SUFFICES ASSUME faults = 0, lock = NoPid, NEW p \in Workers, pc'[p] = "semwait"
               PROVE  sem > 0 \/ Stirring' # {}
    BY <1>14 DEF ngx_shmtx_wakeup
  <2> PICK q \in Procs : ngx_shmtx_wakeup(q)
    BY <1>14
  <2>1. CASE wait > 0
    <3>1. pc'[q] = "post"
      BY <2>1 DEF ngx_shmtx_wakeup
    <3> QED
      BY <3>1
  <2>2. CASE wait <= 0
    <3>1. p \in Announced
      BY DEF ngx_shmtx_wakeup, Announced
    <3>2. Cardinality(Announced) # 0
      BY <3>1, FiniteParts, FS_EmptySet
    <3>3. CASE sem = 0
      <4>1. Cardinality(Posting) # 0
        BY <2>2, <3>2, <3>3, FiniteParts DEF WaitAccounted
      <4>2. PICK r \in Posting : TRUE
        BY <4>1, FS_EmptySet
      <4>3. r \in Procs /\ r # q /\ pc'[r] = "post"
        BY <4>2 DEF Posting, ngx_shmtx_wakeup
      <4> QED
        BY <4>3
    <3> QED
      BY <3>3 DEF ngx_shmtx_wakeup
  <2> QED
    BY <2>1, <2>2
<1>15. CASE \E q \in Procs : SemPost(q)
  BY <1>15 DEF SemPost
<1>17. CASE \E p \in Workers : SemWaitError(p)
  BY <1>17 DEF SemWaitError
<1>18. CASE \E q \in Procs : SemPostError(q)
  BY <1>18 DEF SemPostError
<1>16. CASE UNCHANGED vars
  BY <1>16 DEF vars
<1> QED
  BY NextCases, <1>1, <1>2, <1>3, <1>4, <1>5, <1>6, <1>7, <1>8, <1>9, <1>10,
     <1>11, <1>12, <1>13, <1>14, <1>15, <1>16, <1>17, <1>18

(* No lost wakeup, for any number of workers: nobody sleeps on a free mutex *)
(* without a wakeup on its way, unless a worker has died.                   *)
THEOREM NoWakeupIsLost == Spec => []NoLostWakeup
<1>1. Init => NoSemaphoreNoSleep /\ NoLostWakeup
  BY ShmtxAssumption DEF Init, NoSemaphoreNoSleep, NoLostWakeup, Procs
<1>2. /\ TypeOK /\ WaitAccounted /\ NoSemaphoreNoSleep /\ NoLostWakeup
      /\ [Next]_vars
      => NoSemaphoreNoSleep' /\ NoLostWakeup'
  BY NoSleepStep, NoLostWakeupStep
<1> QED
  BY <1>1, <1>2, TypeCorrect, WaitAlwaysAccounted, PTL DEF Spec
=============================================================================
