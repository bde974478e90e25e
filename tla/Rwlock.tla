------------------------------- MODULE Rwlock -------------------------------
(***************************************************************************)
(* The spinning reader-writer lock of src/core/ngx_rwlock.c, which guards   *)
(* the peers of an upstream group kept in shared memory.  The lock word is  *)
(* the number of readers, or all ones while a writer is in.                 *)
(*                                                                          *)
(* The read of the word and the cmp_set that follows it are one step in     *)
(* ngx_rwlock_wlock and ngx_rwlock_rlock, where a failed cmp_set has no     *)
(* effect and the word is read again.  In ngx_rwlock_unlock they are two:   *)
(* the value read decides which branch is taken.                            *)
(***************************************************************************)
EXTENDS Integers, FiniteSets

CONSTANTS
  Procs,       \* the worker processes
  WLOCK,       \* NGX_RWLOCK_WLOCK, the largest value of the lock word
  MaxCrashes   \* bound: workers that die in a behaviour

ASSUME RwlockAssumption ==
  /\ IsFiniteSet(Procs)
  /\ WLOCK \in Nat
  /\ Cardinality(Procs) < WLOCK
  /\ MaxCrashes \in Nat

VARIABLES
  lock,        \* the lock word
  pc,          \* where each process is; "w..." has the write lock, "r..." a
               \* read lock
  readers,     \* the local variable of ngx_rwlock_unlock
  crashes

vars == <<lock, pc, readers, crashes>>

Goto(p, l) == pc' = [pc EXCEPT ![p] = l]

(* The lock word of a zeroed shared memory zone.                            *)
Init ==
  /\ lock = 0
  /\ pc = [p \in Procs |-> "idle"]
  /\ readers = [p \in Procs |-> 0]
  /\ crashes = 0

(* The call of one of the two lock functions.                               *)
Want(p) ==
  /\ pc[p] = "idle"
  /\ Goto(p, "wantw") \/ Goto(p, "wantr")
  /\ UNCHANGED <<lock, readers, crashes>>

(* Mutant: a writer enters as soon as no other writer is in.                *)
WlockOverReaders(p) ==
  /\ pc[p] = "wantw"
  /\ lock # WLOCK
  /\ lock' = WLOCK
  /\ Goto(p, "w")
  /\ UNCHANGED <<readers, crashes>>

(* The attempt that succeeds; the others only spin and yield.               *)
ngx_rwlock_wlock(p) ==
  /\ pc[p] = "wantw"
  /\ lock = 0
  /\ lock' = WLOCK
  /\ Goto(p, "w")
  /\ UNCHANGED <<readers, crashes>>

ngx_rwlock_rlock(p) ==
  /\ pc[p] = "wantr"
  /\ lock # WLOCK
  /\ lock' = lock + 1
  /\ Goto(p, "r")
  /\ UNCHANGED <<readers, crashes>>

(* ngx_rwlock_unlock: readers = *lock                                       *)
ngx_rwlock_unlock(p) ==
  /\ pc[p] \in {"w", "r"}
  /\ readers' = [readers EXCEPT ![p] = lock]
  /\ Goto(p, IF pc[p] = "w" THEN "wrel" ELSE "rrel")
  /\ UNCHANGED <<lock, crashes>>

(* Mutant: no retry when the word has changed since it was read.            *)
ReleaseOnce(p) ==
  /\ pc[p] \in {"wrel", "rrel"}
  /\ lock' = IF lock # readers[p] THEN lock
             ELSE IF readers[p] = WLOCK THEN 0 ELSE readers[p] - 1
  /\ Goto(p, "idle")
  /\ UNCHANGED <<readers, crashes>>

(* The rest of it: one attempt for the writer's value, a loop for a count,  *)
(* which wraps when it is 0.                                                *)
Release(p) ==
  /\ pc[p] \in {"wrel", "rrel"}
  /\ \/ /\ readers[p] = WLOCK
        /\ lock' = IF lock = WLOCK THEN 0 ELSE lock
        /\ Goto(p, "idle")
        /\ UNCHANGED readers
     \/ /\ readers[p] # WLOCK
        /\ lock = readers[p]
        /\ lock' = (readers[p] - 1) % (WLOCK + 1)
        /\ Goto(p, "idle")
        /\ UNCHANGED readers
     \/ /\ readers[p] # WLOCK
        /\ lock # readers[p]
        /\ readers' = [readers EXCEPT ![p] = lock]
        /\ UNCHANGED <<lock, pc>>
  /\ UNCHANGED crashes

ngx_rwlock_downgrade(p) ==
  /\ pc[p] = "w"
  /\ lock' = IF lock = WLOCK THEN 1 ELSE lock
  /\ Goto(p, "r")
  /\ UNCHANGED <<readers, crashes>>

(* A worker dies.  The word does not name its owner, and the master's       *)
(* ngx_unlock_mutexes opens only ngx_shmtx_t's: what the worker held stays  *)
(* held.                                                                    *)
Crash(p) ==
  /\ crashes < MaxCrashes
  /\ pc[p] \notin {"dead", "wdead", "rdead"}
  /\ Goto(p, CASE pc[p] \in {"w", "wrel"} -> "wdead"
               [] pc[p] \in {"r", "rrel"} -> "rdead"
               [] OTHER -> "dead")
  /\ crashes' = crashes + 1
  /\ UNCHANGED <<lock, readers>>

Locking(p) == ngx_rwlock_wlock(p) \/ ngx_rwlock_rlock(p)
Unlocking(p) == ngx_rwlock_unlock(p) \/ Release(p)

Next ==
  \E p \in Procs : \/ Want(p) \/ Locking(p) \/ Unlocking(p)
                   \/ ngx_rwlock_downgrade(p) \/ Crash(p)

Spec == Init /\ [][Next]_vars

(* What the processes do once they have asked: an attempt that succeeds,    *)
(* and, for a holder, the unlock.  The scheduler runs one of them as long   *)
(* as any can go on.                                                        *)
RwStep == \E p \in Procs : Locking(p) \/ Unlocking(p)

LiveSpec == Spec /\ WF_vars(RwStep)

-----------------------------------------------------------------------------
(* Properties                                                               *)

Labels == {"idle", "wantw", "wantr", "w", "wrel", "wdead", "r", "rrel", "rdead", "dead"}

(* The state has the declared shape; the word stays within its width.       *)
TypeOK ==
  /\ lock \in 0 .. WLOCK
  /\ pc \in [Procs -> Labels]
  /\ readers \in [Procs -> 0 .. WLOCK]
  /\ crashes \in 0 .. MaxCrashes

(* The holders, dead ones included.                                         *)
Writers == {p \in Procs : pc[p] \in {"w", "wrel", "wdead"}}
Readers == {p \in Procs : pc[p] \in {"r", "rrel", "rdead"}}

(* A writer is alone: no other writer and no reader, also across a          *)
(* downgrade and while other processes are in the middle of an unlock.      *)
RwExclusion ==
  \A p \in Writers : Writers = {p} /\ Readers = {}

(* The word is the writer's value while there is a writer and else the      *)
(* exact number of readers, dead holders included: no unlock is lost, none  *)
(* is counted twice, and the decrement never wraps to the writer's value.   *)
LockWordAccounted ==
  lock = IF Writers # {} THEN WLOCK ELSE Cardinality(Readers)

(* Whenever some process spins for the lock and nobody dies, some process   *)
(* enters: every holder's decrement arrives, so the word gets back to 0.    *)
(* (Not always the same process: a writer can be starved by readers.)       *)
RwProgress ==
  (\E p \in Procs : pc[p] \in {"wantw", "wantr"})
    ~> (\E p \in Procs : pc[p] \in {"w", "r"}) \/ crashes > 0
=============================================================================
