------------------------------- MODULE Timers -------------------------------
(***************************************************************************)
(* The timers of a worker, ngx_event_timer.c and ngx_event_timer.h.         *)
(* ngx_current_msec and the keys of the timers are unsigned and wrap; the   *)
(* tree, and every comparison, goes by the sign of a difference.            *)
(*                                                                          *)
(* Every handler may set and delete timers.  The tree is the sequence of    *)
(* its nodes in order; a node is inserted where                             *)
(* ngx_rbtree_insert_timer_value puts it, after those that do not compare   *)
(* as later.  The clock that does not wrap, which only the properties read, *)
(* is kept instead of ngx_current_msec.                                     *)
(***************************************************************************)
EXTENDS Integers, Sequences, FiniteSets, SequencesExt

CONSTANTS
  TimerEvents,   \* the events
  Range2,        \* how many values ngx_msec_t has, a power of two
  Delays,        \* what ngx_add_timer is called with
  LazyDelay,     \* NGX_TIMER_LAZY_DELAY
  MaxLate,       \* bound: how much later than asked the process wakes
  MaxClock       \* bound: the clock stops here

(* A delay, and what a timer is late by, stay within half the range.        *)
ASSUME TimersAssumption ==
  /\ IsFiniteSet(TimerEvents)
  /\ Range2 \in Nat \ {0} /\ Range2 % 2 = 0
  /\ LazyDelay \in Nat \ {0} /\ MaxLate \in Nat /\ MaxClock \in Nat
  /\ Delays \subseteq Nat
  /\ \A d \in Delays : d + MaxLate + LazyDelay < Range2 \div 2

VARIABLES
  clock,     \* the time
  tmTree,    \* the events in the tree, the least first
  tmKey,     \* ev->timer.key of each event
  tmDue,     \* when the timer was to fire; for the properties
  tmPhase    \* "expire" in ngx_event_expire_timers, "run" in other handlers

tmVars == <<clock, tmTree, tmKey, tmDue, tmPhase>>

ngx_current_msec == clock % Range2

(* (ngx_msec_int_t) of the difference of two unsigned values                *)
SignedDiff(a, b) ==
  LET d == (a - b) % Range2
  IN  IF d < Range2 \div 2 THEN d ELSE d - Range2

InTree == ToSet(tmTree)
timer_set(e) == e \in InTree

TmInit ==
  /\ clock = 0
  /\ tmTree = <<>>
  /\ tmKey = [e \in TimerEvents |-> 0]
  /\ tmDue = [e \in TimerEvents |-> 0]
  /\ tmPhase = "run"

Removed(e) == RemoveFirst(tmTree, e)

(* Mutant: the keys are compared as they are.                               *)
InsertUnsigned(tree, e, key) ==
  LET before == {i \in 1..Len(tree) : tmKey[tree[i]] <= key}
      n == Cardinality(before)
  IN  SubSeq(tree, 1, n) \o <<e>> \o SubSeq(tree, n + 1, Len(tree))

(* ngx_rbtree_insert_timer_value                                            *)
ngx_rbtree_insert_timer_value(tree, e, key) ==
  LET before == {i \in 1..Len(tree) : SignedDiff(key, tmKey[tree[i]]) >= 0}
      n == Cardinality(before)
  IN  SubSeq(tree, 1, n) \o <<e>> \o SubSeq(tree, n + 1, Len(tree))

(* ngx_event_add_timer: a timer that is set keeps its value when the new    *)
(* one is near it.                                                          *)
ngx_event_add_timer(e, d) ==
  LET key == (ngx_current_msec + d) % Range2
      diff == SignedDiff(key, tmKey[e])
  IN  /\ tmDue' = [tmDue EXCEPT ![e] = clock + d]
      /\ IF timer_set(e) /\ diff < LazyDelay /\ -diff < LazyDelay
         THEN UNCHANGED <<tmKey, tmTree>>
         ELSE /\ tmKey' = [tmKey EXCEPT ![e] = key]
              /\ tmTree' = ngx_rbtree_insert_timer_value(Removed(e), e, key)
      /\ UNCHANGED <<clock, tmPhase>>

ngx_event_del_timer(e) ==
  /\ timer_set(e)
  /\ tmTree' = Removed(e)
  /\ UNCHANGED <<clock, tmKey, tmDue, tmPhase>>

(* ngx_event_find_timer, -1 for NGX_TIMER_INFINITE                          *)
ngx_event_find_timer ==
  IF tmTree = <<>> THEN -1
  ELSE LET timer == SignedDiff(tmKey[tmTree[1]], ngx_current_msec)
       IN  IF timer > 0 THEN timer ELSE 0

(* The handlers are done and the worker waits for events, as long as        *)
(* ngx_event_find_timer says or less, perhaps longer when it is not         *)
(* scheduled.  Timers are looked at only if ngx_current_msec has changed.   *)
Wait ==
  /\ tmPhase = "run"
  /\ \E d \in 0..MaxClock - clock :
       /\ ngx_event_find_timer >= 0 => d <= ngx_event_find_timer + MaxLate
       /\ clock' = clock + d
       /\ tmPhase' = IF clock' % Range2 = ngx_current_msec THEN "run" ELSE "expire"
  /\ UNCHANGED <<tmTree, tmKey, tmDue>>

(* ngx_event_expire_timers: the next timer that is due fires, or none is.   *)
(* Its handler sets and deletes timers, with the clock as it is.            *)
Due == /\ tmTree # <<>>
       /\ SignedDiff(tmKey[tmTree[1]], ngx_current_msec) <= 0

ngx_event_expire_timers ==
  /\ tmPhase = "expire"
  /\ IF Due
     THEN /\ tmTree' = Tail(tmTree)
          /\ UNCHANGED tmPhase
     ELSE /\ tmPhase' = "run"
          /\ UNCHANGED tmTree
  /\ UNCHANGED <<clock, tmKey, tmDue>>

TmNext ==
  \/ \E e \in TimerEvents :
       \/ \E d \in Delays : ngx_event_add_timer(e, d)
       \/ ngx_event_del_timer(e)
  \/ Wait
  \/ ngx_event_expire_timers

TmSpec == TmInit /\ [][TmNext]_tmVars

----------------------------------------------------------------------------
(* Across the wrap of ngx_current_msec, and however often timers are moved, *)
(* no timer fires earlier than it was last asked to but for the lazy delay, *)
(* and once the timers have been looked at none is left that is late by     *)
(* more than that.                                                          *)
TimersInTime ==
  [][/\ tmPhase = "expire" /\ Due => tmDue[tmTree[1]] < clock + LazyDelay
     /\ tmPhase = "expire" /\ tmPhase' = "run" =>
          \A e \in InTree : clock < tmDue[e] + LazyDelay]_tmVars
=============================================================================
