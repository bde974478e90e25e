----------------------------- MODULE MutexSpec -----------------------------
(***************************************************************************)
(* What the users of ngx_shmtx_t rely on, without its counters, spinning    *)
(* and sleeping: one owner at a time, an owner that gives the mutex back    *)
(* itself, and the mutex of a dead owner given back when it is reaped.      *)
(* The accept mutex and the mutexes of the slab pools are used this way.    *)
(***************************************************************************)
CONSTANTS
  Workers,     \* the processes that use the mutex
  NoPid        \* nobody

VARIABLES
  owner,       \* the owner, or NoPid
  dead         \* processes that died and have not been reaped yet

mutexVars == <<owner, dead>>

Init == owner = NoPid /\ dead = {}

(* ngx_shmtx_trylock() or ngx_shmtx_lock() returns to p with the mutex.     *)
Take(p) ==
  /\ owner = NoPid
  /\ p \notin dead
  /\ owner' = p
  /\ UNCHANGED dead

(* ngx_shmtx_unlock() by the owner.                                         *)
Give(p) ==
  /\ owner = p
  /\ p \notin dead
  /\ owner' = NoPid
  /\ UNCHANGED dead

Die(p) ==
  /\ p \notin dead
  /\ dead' = dead \cup {p}
  /\ UNCHANGED owner

(* ngx_shmtx_force_unlock(pid) by the master.                               *)
Reap(p) ==
  /\ p \in dead
  /\ dead' = dead \ {p}
  /\ owner' = IF owner = p THEN NoPid ELSE owner

Next == \E p \in Workers : Take(p) \/ Give(p) \/ Die(p) \/ Reap(p)

Spec == Init /\ [][Next]_mutexVars
=============================================================================
