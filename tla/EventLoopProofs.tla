-------------------------- MODULE EventLoopProofs ---------------------------
(***************************************************************************)
(* Proofs about what a worker's cycle is made of: AcceptMutex, for any       *)
(* number of workers and sockets; the connections and events of EventLoop,  *)
(* for any number of places, connections and batches; and Timers, for any   *)
(* number of timers and any range of the times.                             *)
(***************************************************************************)
EXTENDS AcceptMutex, EventLoop, Timers, SequenceLemmas

-----------------------------------------------------------------------------
(* The turns of the workers and the accept mutex.                           *)

(* The dead workers the mutex knows of are the ones that are down.          *)
DeadAreDown == \A w \in Workers : w \in dead <=> pc[w] = "down"

(* The inductive strengthening of OwnerInTurn: the master gives the mutex   *)
(* back only for a worker that is down.                                     *)
TurnInv == DeadAreDown /\ OwnerInTurn

(* The state keeps the declared shape in every behaviour.                   *)
THEOREM TypeCorrect == Spec => []TypeOK
<1> USE AcceptMutexAssumption
<1>1. Init => TypeOK
  BY DEF Init, TypeOK, Modes, M!Init
<1>2. ASSUME TypeOK, [Next]_vars PROVE TypeOK'
  <2> USE <1>2
  <2>1. ASSUME NEW s \in Sockets, Arrive(s) PROVE TypeOK'
    BY <2>1 DEF Arrive, Modes, TypeOK, Use, worker
  <2>2. ASSUME NEW w \in Workers, SkipMutex(w) PROVE TypeOK'
    BY <2>2 DEF Goto, Modes, Poll, SkipMutex, TypeOK
  <2>3. ASSUME NEW w \in Workers, TrylockTaken(w) PROVE TypeOK'
    BY <2>3 DEF Asks, Goto, M!Take, Modes, Poll, TrylockTaken, TypeOK
  <2>4. ASSUME NEW w \in Workers, EnableError(w) PROVE TypeOK'
    BY <2>4 DEF Asks, EnableError, Goto, M!Take, Modes, TypeOK, Use
  <2>5. ASSUME NEW w \in Workers, EnableUndo(w) PROVE TypeOK'
    BY <2>5 DEF EnableUndo, Goto, M!Give, Modes, TypeOK
  <2>6. ASSUME NEW w \in Workers, TrylockFailed(w) PROVE TypeOK'
    BY <2>6 DEF Asks, Goto, Modes, Poll, TrylockFailed, TypeOK
  <2>7. ASSUME NEW w \in Workers, DisableError(w) PROVE TypeOK'
    BY <2>7 DEF Asks, DisableError, Modes, TypeOK, Use
  <2>8. ASSUME NEW w \in Workers, PollReady(w) PROVE TypeOK'
    BY <2>8 DEF Goto, Modes, PollReady, Ready, TypeOK
  <2>9. ASSUME NEW w \in Workers, PollOther(w) PROVE TypeOK'
    BY <2>9 DEF Goto, Modes, PollOther, TypeOK
  <2>10. ASSUME NEW w \in Workers, NEW s \in Sockets, AcceptAgain(w, s) PROVE TypeOK'
    BY <2>10 DEF AcceptAgain, Accepting, Handled, Modes, TypeOK
  <2>11. ASSUME NEW w \in Workers, NEW s \in Sockets, AcceptAborted(w, s) PROVE TypeOK'
    BY <2>11 DEF AcceptAborted, Accepting, Dequeue, Handled, Modes, NextAccept, TypeOK
  <2>12. ASSUME NEW w \in Workers, NEW s \in Sockets, AcceptConnection(w, s) PROVE TypeOK'
    BY <2>12 DEF AcceptConnection, Accepting, Dequeue, Handled, Modes, NextAccept, TypeOK
  <2>13. ASSUME NEW w \in Workers, NEW s \in Sockets, AcceptEmfile(w, s) PROVE TypeOK'
    BY <2>13 DEF AcceptEmfile, Accepting, M!Give, Modes, TypeOK, Unlock, Use
  <2>14. ASSUME NEW w \in Workers, NEW s \in Sockets, AcceptEmfileError(w, s) PROVE TypeOK'
    BY <2>14 DEF AcceptEmfileError, Accepting, Modes, TypeOK, Use
  <2>15. ASSUME NEW w \in Workers, UnlockAcceptMutex(w) PROVE TypeOK'
    BY <2>15 DEF Goto, M!Give, Modes, TypeOK, Unlock, UnlockAcceptMutex
  <2>16. ASSUME NEW w \in Workers, Work(w) PROVE TypeOK'
    BY <2>16 DEF Goto, Modes, TypeOK, Work
  <2>17. ASSUME NEW w \in Workers, Quit(w) PROVE TypeOK'
    BY <2>17 DEF Goto, Modes, Quit, TypeOK, Use
  <2>18. ASSUME NEW w \in Workers, Crash(w) PROVE TypeOK'
    BY <2>18 DEF Crash, Goto, M!Die, Modes, TypeOK, Use
  <2>19. ASSUME NEW w \in Workers, Respawn(w) PROVE TypeOK'
    BY <2>19 DEF M!Reap, Modes, Respawn, TypeOK
  <2>u. CASE UNCHANGED vars
    BY <2>u DEF vars, worker, M!mutexVars, TypeOK, Modes
  <2> QED
    BY <2>1, <2>2, <2>3, <2>4, <2>5, <2>6, <2>7, <2>8, <2>9, <2>10, <2>11, <2>12, <2>13, <2>14, <2>15, <2>16, <2>17, <2>18, <2>19, <2>u, <1>2 DEF Next, LoopStart, Handle, LoopEnd, Fault
<1> QED
  BY <1>1, <1>2, PTL DEF Spec

LEMMA TurnInitially == Init => TurnInv
BY AcceptMutexAssumption DEF Init, TurnInv, DeadAreDown, OwnerInTurn, InTurn, Live, M!Init

LEMMA TurnStep == ASSUME TypeOK, TurnInv, [Next]_vars PROVE TurnInv'
<1> USE AcceptMutexAssumption
<1>2. TypeOK /\ TurnInv /\ [Next]_vars
  OBVIOUS
<1>3. TurnInv'
  <2> USE <1>2
  <2>1. ASSUME NEW s \in Sockets, Arrive(s) PROVE TurnInv'
    BY <2>1 DEF Arrive, DeadAreDown, InTurn, Live, OwnerInTurn, TurnInv, TypeOK, Use, worker
  <2>2. ASSUME NEW w \in Workers, SkipMutex(w) PROVE TurnInv'
    BY <2>2 DEF DeadAreDown, Goto, InTurn, Live, OwnerInTurn, Poll, SkipMutex, TurnInv, TypeOK
  <2>3. ASSUME NEW w \in Workers, TrylockTaken(w) PROVE TurnInv'
    BY <2>3 DEF Asks, DeadAreDown, Goto, InTurn, Live, M!Take, OwnerInTurn, Poll, TrylockTaken, TurnInv, TypeOK
  <2>4. ASSUME NEW w \in Workers, EnableError(w) PROVE TurnInv'
    BY <2>4 DEF Asks, DeadAreDown, EnableError, Goto, InTurn, Live, M!Take, OwnerInTurn, TurnInv, TypeOK, Use
  <2>5. ASSUME NEW w \in Workers, EnableUndo(w) PROVE TurnInv'
    BY <2>5 DEF DeadAreDown, EnableUndo, Goto, InTurn, Live, M!Give, OwnerInTurn, TurnInv, TypeOK
  <2>6. ASSUME NEW w \in Workers, TrylockFailed(w) PROVE TurnInv'
    BY <2>6 DEF Asks, DeadAreDown, Goto, InTurn, Live, OwnerInTurn, Poll, TrylockFailed, TurnInv, TypeOK
  <2>7. ASSUME NEW w \in Workers, DisableError(w) PROVE TurnInv'
    BY <2>7 DEF Asks, DeadAreDown, DisableError, InTurn, Live, OwnerInTurn, TurnInv, TypeOK, Use
  <2>8. ASSUME NEW w \in Workers, PollReady(w) PROVE TurnInv'
    BY <2>8 DEF DeadAreDown, Goto, InTurn, Live, OwnerInTurn, PollReady, Ready, TurnInv, TypeOK
  <2>9. ASSUME NEW w \in Workers, PollOther(w) PROVE TurnInv'
    BY <2>9 DEF DeadAreDown, Goto, InTurn, Live, OwnerInTurn, PollOther, TurnInv, TypeOK
  <2>10. ASSUME NEW w \in Workers, NEW s \in Sockets, AcceptAgain(w, s) PROVE TurnInv'
    BY <2>10 DEF AcceptAgain, Accepting, DeadAreDown, Handled, InTurn, Live, OwnerInTurn, TurnInv, TypeOK
  <2>11. ASSUME NEW w \in Workers, NEW s \in Sockets, AcceptAborted(w, s) PROVE TurnInv'
    BY <2>11 DEF AcceptAborted, Accepting, DeadAreDown, Dequeue, Handled, InTurn, Live, NextAccept, OwnerInTurn, TurnInv, TypeOK
  <2>12. ASSUME NEW w \in Workers, NEW s \in Sockets, AcceptConnection(w, s) PROVE TurnInv'
    BY <2>12 DEF AcceptConnection, Accepting, DeadAreDown, Dequeue, Handled, InTurn, Live, NextAccept, OwnerInTurn, TurnInv, TypeOK
  <2>13. ASSUME NEW w \in Workers, NEW s \in Sockets, AcceptEmfile(w, s) PROVE TurnInv'
    BY <2>13 DEF AcceptEmfile, Accepting, DeadAreDown, InTurn, Live, M!Give, OwnerInTurn, TurnInv, TypeOK, Unlock, Use
  <2>14. ASSUME NEW w \in Workers, NEW s \in Sockets, AcceptEmfileError(w, s) PROVE TurnInv'
    BY <2>14 DEF AcceptEmfileError, Accepting, DeadAreDown, InTurn, Live, OwnerInTurn, TurnInv, TypeOK, Use
  <2>15. ASSUME NEW w \in Workers, UnlockAcceptMutex(w) PROVE TurnInv'
    BY <2>15 DEF DeadAreDown, Goto, InTurn, Live, M!Give, OwnerInTurn, TurnInv, TypeOK, Unlock, UnlockAcceptMutex
  <2>16. ASSUME NEW w \in Workers, Work(w) PROVE TurnInv'
    BY <2>16 DEF DeadAreDown, Goto, InTurn, Live, OwnerInTurn, TurnInv, TypeOK, Work
  <2>17. ASSUME NEW w \in Workers, Quit(w) PROVE TurnInv'
    BY <2>17 DEF DeadAreDown, Goto, InTurn, Live, OwnerInTurn, Quit, TurnInv, TypeOK, Use
  <2>18. ASSUME NEW w \in Workers, Crash(w) PROVE TurnInv'
    BY <2>18 DEF Crash, DeadAreDown, Goto, InTurn, Live, M!Die, OwnerInTurn, TurnInv, TypeOK, Use
  <2>19. ASSUME NEW w \in Workers, Respawn(w) PROVE TurnInv'
    BY <2>19 DEF DeadAreDown, InTurn, Live, M!Reap, OwnerInTurn, Respawn, TurnInv, TypeOK
  <2>u. CASE UNCHANGED vars
    BY <2>u DEF vars, worker, M!mutexVars, TypeOK, TurnInv, DeadAreDown, OwnerInTurn, InTurn, Live
  <2> QED
    BY <2>1, <2>2, <2>3, <2>4, <2>5, <2>6, <2>7, <2>8, <2>9, <2>10, <2>11, <2>12, <2>13, <2>14, <2>15, <2>16, <2>17, <2>18, <2>19, <2>u, <1>2 DEF Next, LoopStart, Handle, LoopEnd, Fault
<1> QED
  BY <1>3

LEMMA TurnInvariant == Spec => []TurnInv
BY TypeCorrect, TurnInitially, TurnStep, PTL DEF Spec

(* The inductive strengthening of HeldTellsArmed: a worker undoes the start *)
(* of a turn only after a failure.                                          *)
UndoIsFault == \A w \in Workers : pc[w] = "undo" => count.faults > 0
ArmedInv == HeldTellsArmed /\ UndoIsFault

LEMMA ArmedInitially == Init => ArmedInv
BY AcceptMutexAssumption DEF Init, ArmedInv, HeldTellsArmed, UndoIsFault

LEMMA ArmedStep == ASSUME TypeOK, ArmedInv, [Next]_vars PROVE ArmedInv'
<1> USE AcceptMutexAssumption
<1>2. TypeOK /\ ArmedInv /\ [Next]_vars
  OBVIOUS
<1>3. ArmedInv'
  <2> USE <1>2
  <2>1. ASSUME NEW s \in Sockets, Arrive(s) PROVE ArmedInv'
    BY <2>1 DEF Arrive, HeldTellsArmed, UndoIsFault, ArmedInv, TypeOK, Use, worker
  <2>2. ASSUME NEW w \in Workers, SkipMutex(w) PROVE ArmedInv'
    BY <2>2 DEF Goto, HeldTellsArmed, UndoIsFault, Poll, SkipMutex, ArmedInv, TypeOK
  <2>3. ASSUME NEW w \in Workers, TrylockTaken(w) PROVE ArmedInv'
    BY <2>3 DEF Asks, Goto, M!Take, HeldTellsArmed, UndoIsFault, Poll, TrylockTaken, ArmedInv, TypeOK
  <2>4. ASSUME NEW w \in Workers, EnableError(w) PROVE ArmedInv'
    BY <2>4 DEF Asks, EnableError, Goto, M!Take, HeldTellsArmed, UndoIsFault, ArmedInv, TypeOK, Use
  <2>5. ASSUME NEW w \in Workers, EnableUndo(w) PROVE ArmedInv'
    BY <2>5 DEF EnableUndo, Goto, M!Give, HeldTellsArmed, UndoIsFault, ArmedInv, TypeOK
  <2>6. ASSUME NEW w \in Workers, TrylockFailed(w) PROVE ArmedInv'
    BY <2>6 DEF Asks, Goto, HeldTellsArmed, UndoIsFault, Poll, TrylockFailed, ArmedInv, TypeOK
  <2>7. ASSUME NEW w \in Workers, DisableError(w) PROVE ArmedInv'
    BY <2>7 DEF Asks, DisableError, HeldTellsArmed, UndoIsFault, ArmedInv, TypeOK, Use
  <2>8. ASSUME NEW w \in Workers, PollReady(w) PROVE ArmedInv'
    BY <2>8 DEF Goto, HeldTellsArmed, UndoIsFault, PollReady, Ready, ArmedInv, TypeOK
  <2>9. ASSUME NEW w \in Workers, PollOther(w) PROVE ArmedInv'
    BY <2>9 DEF Goto, HeldTellsArmed, UndoIsFault, PollOther, ArmedInv, TypeOK
  <2>10. ASSUME NEW w \in Workers, NEW s \in Sockets, AcceptAgain(w, s) PROVE ArmedInv'
    BY <2>10 DEF AcceptAgain, Accepting, Handled, HeldTellsArmed, UndoIsFault, ArmedInv, TypeOK
  <2>11. ASSUME NEW w \in Workers, NEW s \in Sockets, AcceptAborted(w, s) PROVE ArmedInv'
    BY <2>11 DEF AcceptAborted, Accepting, Dequeue, Handled, NextAccept, HeldTellsArmed, UndoIsFault, ArmedInv, TypeOK
  <2>12. ASSUME NEW w \in Workers, NEW s \in Sockets, AcceptConnection(w, s) PROVE ArmedInv'
    BY <2>12 DEF AcceptConnection, Accepting, Dequeue, Handled, NextAccept, HeldTellsArmed, UndoIsFault, ArmedInv, TypeOK
  <2>13. ASSUME NEW w \in Workers, NEW s \in Sockets, AcceptEmfile(w, s) PROVE ArmedInv'
    BY <2>13 DEF AcceptEmfile, Accepting, M!Give, HeldTellsArmed, UndoIsFault, ArmedInv, TypeOK, Unlock, Use
  <2>14. ASSUME NEW w \in Workers, NEW s \in Sockets, AcceptEmfileError(w, s) PROVE ArmedInv'
    BY <2>14 DEF AcceptEmfileError, Accepting, HeldTellsArmed, UndoIsFault, ArmedInv, TypeOK, Use
  <2>15. ASSUME NEW w \in Workers, UnlockAcceptMutex(w) PROVE ArmedInv'
    BY <2>15 DEF Goto, M!Give, HeldTellsArmed, UndoIsFault, ArmedInv, TypeOK, Unlock, UnlockAcceptMutex
  <2>16. ASSUME NEW w \in Workers, Work(w) PROVE ArmedInv'
    BY <2>16 DEF Goto, HeldTellsArmed, UndoIsFault, ArmedInv, TypeOK, Work
  <2>17. ASSUME NEW w \in Workers, Quit(w) PROVE ArmedInv'
    BY <2>17 DEF Goto, HeldTellsArmed, UndoIsFault, Quit, ArmedInv, TypeOK, Use
  <2>18. ASSUME NEW w \in Workers, Crash(w) PROVE ArmedInv'
    BY <2>18 DEF Crash, Goto, M!Die, HeldTellsArmed, UndoIsFault, ArmedInv, TypeOK, Use
  <2>19. ASSUME NEW w \in Workers, Respawn(w) PROVE ArmedInv'
    BY <2>19 DEF M!Reap, HeldTellsArmed, UndoIsFault, Respawn, ArmedInv, TypeOK
  <2>u. CASE UNCHANGED vars
    BY <2>u DEF vars, worker, M!mutexVars, TypeOK, ArmedInv, HeldTellsArmed, UndoIsFault
  <2> QED
    BY <2>1, <2>2, <2>3, <2>4, <2>5, <2>6, <2>7, <2>8, <2>9, <2>10, <2>11, <2>12, <2>13, <2>14, <2>15, <2>16, <2>17, <2>18, <2>19, <2>u, <1>2 DEF Next, LoopStart, Handle, LoopEnd, Fault
<1> QED
  BY <1>3

LEMMA ArmedInvariant == Spec => []ArmedInv
BY TypeCorrect, ArmedInitially, ArmedStep, PTL DEF Spec

(* A live worker owns the accept mutex exactly during its turn, so two live *)
(* workers are never in their turn together; and what it watches is what it *)
(* believes to hold.                                                        *)
THEOREM TurnsAreSound == Spec => [](TurnSound /\ OneTurn)
<1>1. TurnInv /\ ArmedInv => TurnSound /\ OneTurn
  BY DEF TurnInv, ArmedInv, TurnSound, OwnerInTurn, OneTurn
<1> QED
  BY <1>1, TurnInvariant, ArmedInvariant, PTL

(* Every step of the workers is a step of MutexSpec or leaves the mutex     *)
(* alone: the accept mutex is used within what Shmtx implements.            *)
THEOREM MutexUsedAsSpecified == Spec => UsesMutexAsSpecified
<1> USE AcceptMutexAssumption
<1>1. Init => M!Init
  BY DEF Init
<1>2. ASSUME [Next]_vars PROVE [M!Next]_M!mutexVars
  <2> USE <1>2
  <2>1. ASSUME NEW s \in Sockets, Arrive(s) PROVE [M!Next]_M!mutexVars
    BY <2>1 DEF Arrive, M!Next, M!mutexVars, Use, worker
  <2>2. ASSUME NEW w \in Workers, SkipMutex(w) PROVE [M!Next]_M!mutexVars
    BY <2>2 DEF Goto, M!Next, M!mutexVars, Poll, SkipMutex
  <2>3. ASSUME NEW w \in Workers, TrylockTaken(w) PROVE [M!Next]_M!mutexVars
    BY <2>3 DEF Asks, Goto, M!Next, M!Take, M!mutexVars, Poll, TrylockTaken
  <2>4. ASSUME NEW w \in Workers, EnableError(w) PROVE [M!Next]_M!mutexVars
    BY <2>4 DEF Asks, EnableError, Goto, M!Next, M!Take, M!mutexVars, Use
  <2>5. ASSUME NEW w \in Workers, EnableUndo(w) PROVE [M!Next]_M!mutexVars
    BY <2>5 DEF EnableUndo, Goto, M!Give, M!Next, M!mutexVars
  <2>6. ASSUME NEW w \in Workers, TrylockFailed(w) PROVE [M!Next]_M!mutexVars
    BY <2>6 DEF Asks, Goto, M!Next, M!mutexVars, Poll, TrylockFailed
  <2>7. ASSUME NEW w \in Workers, DisableError(w) PROVE [M!Next]_M!mutexVars
    BY <2>7 DEF Asks, DisableError, M!Next, M!mutexVars, Use
  <2>8. ASSUME NEW w \in Workers, PollReady(w) PROVE [M!Next]_M!mutexVars
    BY <2>8 DEF Goto, M!Next, M!mutexVars, PollReady, Ready
  <2>9. ASSUME NEW w \in Workers, PollOther(w) PROVE [M!Next]_M!mutexVars
    BY <2>9 DEF Goto, M!Next, M!mutexVars, PollOther
  <2>10. ASSUME NEW w \in Workers, NEW s \in Sockets, AcceptAgain(w, s) PROVE [M!Next]_M!mutexVars
    BY <2>10 DEF AcceptAgain, Accepting, Handled, M!Next, M!mutexVars
  <2>11. ASSUME NEW w \in Workers, NEW s \in Sockets, AcceptAborted(w, s) PROVE [M!Next]_M!mutexVars
    BY <2>11 DEF AcceptAborted, Accepting, Dequeue, Handled, M!Next, M!mutexVars, NextAccept
  <2>12. ASSUME NEW w \in Workers, NEW s \in Sockets, AcceptConnection(w, s) PROVE [M!Next]_M!mutexVars
    BY <2>12 DEF AcceptConnection, Accepting, Dequeue, Handled, M!Next, M!mutexVars, NextAccept
  <2>13. ASSUME NEW w \in Workers, NEW s \in Sockets, AcceptEmfile(w, s) PROVE [M!Next]_M!mutexVars
    BY <2>13 DEF AcceptEmfile, Accepting, M!Give, M!Next, M!mutexVars, Unlock, Use
  <2>14. ASSUME NEW w \in Workers, NEW s \in Sockets, AcceptEmfileError(w, s) PROVE [M!Next]_M!mutexVars
    BY <2>14 DEF AcceptEmfileError, Accepting, M!Next, M!mutexVars, Use
  <2>15. ASSUME NEW w \in Workers, UnlockAcceptMutex(w) PROVE [M!Next]_M!mutexVars
    BY <2>15 DEF Goto, M!Give, M!Next, M!mutexVars, Unlock, UnlockAcceptMutex
  <2>16. ASSUME NEW w \in Workers, Work(w) PROVE [M!Next]_M!mutexVars
    BY <2>16 DEF Goto, M!Next, M!mutexVars, Work
  <2>17. ASSUME NEW w \in Workers, Quit(w) PROVE [M!Next]_M!mutexVars
    BY <2>17 DEF Goto, M!Next, M!mutexVars, Quit, Use
  <2>18. ASSUME NEW w \in Workers, Crash(w) PROVE [M!Next]_M!mutexVars
    BY <2>18 DEF Crash, Goto, M!Die, M!Next, M!mutexVars, Use
  <2>19. ASSUME NEW w \in Workers, Respawn(w) PROVE [M!Next]_M!mutexVars
    BY <2>19 DEF M!Next, M!Reap, M!mutexVars, Respawn
  <2>u. CASE UNCHANGED vars
    BY <2>u DEF vars, worker, M!mutexVars, M!Next, M!mutexVars
  <2> QED
    BY <2>1, <2>2, <2>3, <2>4, <2>5, <2>6, <2>7, <2>8, <2>9, <2>10, <2>11, <2>12, <2>13, <2>14, <2>15, <2>16, <2>17, <2>18, <2>19, <2>u, <1>2 DEF Next, LoopStart, Handle, LoopEnd, Fault
<1> QED
  BY <1>1, <1>2, PTL DEF Spec, UsesMutexAsSpecified, M!Spec

-----------------------------------------------------------------------------
(* The queue of posted events: an event of a place is in it at most once.   *)
Halves == {"read", "write"}
PostedEvents == [c : Places, ev : Halves, fd : Nat]

Keyed(q) == \A i, j \in DOMAIN q : q[i].c = q[j].c /\ q[i].ev = q[j].ev => i = j

LEMMA UnpostedFacts ==
  ASSUME NEW q \in Seq(PostedEvents), Keyed(q), NEW c, NEW ev
  PROVE  /\ Unposted(q, c, ev) \in Seq(PostedEvents)
         /\ Keyed(Unposted(q, c, ev))
         /\ ToSet(Unposted(q, c, ev)) = {e \in ToSet(q) : ~(e.c = c /\ e.ev = ev)}
<1>1. DOMAIN q = 1..Len(q) /\ Len(q) \in Nat
  OBVIOUS
<1>2. CASE ~ \E i \in 1..Len(q) : q[i].c = c /\ q[i].ev = ev
  <2>1. Unposted(q, c, ev) = q
    BY <1>2 DEF Unposted, RemoveFirstMatch
  <2> QED
    BY <1>1, <1>2, <2>1 DEF ToSet
<1>3. CASE \E i \in 1..Len(q) : q[i].c = c /\ q[i].ev = ev
  <2> PICK k \in 1..Len(q) : q[k].c = c /\ q[k].ev = ev
    BY <1>3
  <2> DEFINE I == {i \in 1..Len(q) : q[i].c = c /\ q[i].ev = ev}
  <2>1. I = {k}
    BY <1>1 DEF Keyed
  <2>2. Min(I) = k
    BY <2>1 DEF Min
  <2>3. SelectInSeq(q, LAMBDA e : e.c = c /\ e.ev = ev) = k
    BY <2>1, <2>2 DEF SelectInSeq
  <2>4. Unposted(q, c, ev) = RemoveAt(q, k)
    BY <1>3, <2>3 DEF Unposted, RemoveFirstMatch
  <2> DEFINE r == RemoveAt(q, k)
  <2>5. r \in Seq(PostedEvents) /\ DOMAIN r = 1..(Len(q) - 1)
    BY RemoveAtFacts
  <2>6. /\ \A i \in DOMAIN r : \E j \in DOMAIN q \ {k} :
             j = (IF i < k THEN i ELSE i + 1) /\ r[i] = q[j]
        /\ \A j \in DOMAIN q \ {k} : \E i \in DOMAIN r : r[i] = q[j]
    BY RemoveAtPositions
  <2> HIDE DEF r
  <2>7. Keyed(r)
    <3> SUFFICES ASSUME NEW a \in DOMAIN r, NEW b \in DOMAIN r,
                        r[a].c = r[b].c, r[a].ev = r[b].ev
                 PROVE  a = b
      BY DEF Keyed
    <3>1. (IF a < k THEN a ELSE a + 1) = (IF b < k THEN b ELSE b + 1)
      BY <2>6 DEF Keyed
    <3> QED
      BY <1>1, <2>5, <3>1
  <2>8. ToSet(r) = {e \in ToSet(q) : ~(e.c = c /\ e.ev = ev)}
    <3>1. ASSUME NEW i \in DOMAIN r
          PROVE  r[i] \in ToSet(q) /\ ~(r[i].c = c /\ r[i].ev = ev)
      BY <1>1, <2>6 DEF ToSet, Keyed
    <3>2. ASSUME NEW j \in DOMAIN q, ~(q[j].c = c /\ q[j].ev = ev)
          PROVE  q[j] \in ToSet(r)
      BY <2>6, <3>2 DEF ToSet
    <3> QED
      BY <3>1, <3>2 DEF ToSet
  <2> QED
    BY <2>4, <2>5, <2>7, <2>8 DEF r
<1> QED
  BY <1>2, <1>3

LEMMA TailKeyed ==
  ASSUME NEW q \in Seq(PostedEvents), q # <<>>, Keyed(q)
  PROVE  /\ Keyed(Tail(q))
         /\ ToSet(Tail(q)) = {e \in ToSet(q) : ~(e.c = q[1].c /\ e.ev = q[1].ev)}
<1>1. /\ Head(q) = q[1] /\ 1 \in DOMAIN q /\ DOMAIN Tail(q) = 1..(Len(q) - 1)
      /\ \A i \in DOMAIN Tail(q) : i + 1 \in DOMAIN q /\ Tail(q)[i] = q[i + 1]
      /\ ToSet(q) = {Head(q)} \cup ToSet(Tail(q))
  BY TailFacts
<1>2. Len(q) \in Nat
  OBVIOUS
<1>3. Keyed(Tail(q))
  <2> SUFFICES ASSUME NEW i \in DOMAIN Tail(q), NEW j \in DOMAIN Tail(q),
                      Tail(q)[i].c = Tail(q)[j].c, Tail(q)[i].ev = Tail(q)[j].ev
               PROVE  i = j
    BY DEF Keyed
  <2>1. i + 1 = j + 1
    BY <1>1 DEF Keyed
  <2> QED
    BY <1>1, <1>2, <2>1
<1>4. ASSUME NEW i \in DOMAIN Tail(q)
      PROVE  ~(Tail(q)[i].c = q[1].c /\ Tail(q)[i].ev = q[1].ev)
  <2>1. i + 1 # 1
    BY <1>1, <1>2
  <2> QED
    BY <1>1, <2>1 DEF Keyed
<1>5. \A e \in ToSet(Tail(q)) : ~(e.c = q[1].c /\ e.ev = q[1].ev)
  BY <1>4 DEF ToSet
<1> QED
  BY <1>1, <1>3, <1>5

LEMMA AppendKeyed ==
  ASSUME NEW q \in Seq(PostedEvents), Keyed(q), NEW x \in PostedEvents,
         \A e \in ToSet(q) : ~(e.c = x.c /\ e.ev = x.ev)
  PROVE  Keyed(Append(q, x))
<1> DEFINE r == Append(q, x)
<1>1. /\ DOMAIN r = 1..(Len(q) + 1) /\ r[Len(q) + 1] = x
      /\ \A i \in DOMAIN q : r[i] = q[i]
  BY AppendFacts
<1>2. DOMAIN q = 1..Len(q) /\ Len(q) \in Nat
  OBVIOUS
<1> HIDE DEF r
<1>3. \A i \in DOMAIN q : ~(q[i].c = x.c /\ q[i].ev = x.ev)
  BY DEF ToSet
<1>4. \A i \in DOMAIN r : i \in DOMAIN q \/ i = Len(q) + 1
  BY <1>1, <1>2
<1>5. Keyed(r)
  BY <1>1, <1>3, <1>4 DEF Keyed
<1> QED
  BY <1>5 DEF r

-----------------------------------------------------------------------------
(* The connections, the free list and the queues fit together.              *)
Connection ==
  [fd : Nat, instance : BOOLEAN, active : BOOLEAN, posted : SUBSET Halves,
   reusable : BOOLEAN]

OpenIn(b) == {c \in Places : b.conn[c].fd # 0}

PoolTypes(b) ==
  b \in [conn : [Places -> Connection], free : Seq(Places), reusable : Seq(Places),
         posted : Seq(PostedEvents)]
FreeSound(b) == IsInjective(b.free) /\ ToSet(b.free) = Places \ OpenIn(b)
ReusableSound(b) ==
  IsInjective(b.reusable) /\ ToSet(b.reusable) = {c \in OpenIn(b) : b.conn[c].reusable}
PostedSound(b) ==
  /\ Keyed(b.posted)
  /\ \A e \in ToSet(b.posted) :
       e.ev \in b.conn[e.c].posted /\ e.fd = b.conn[e.c].fd /\ e.fd # 0
  /\ \A c \in Places : \A ev \in b.conn[c].posted :
       \E e \in ToSet(b.posted) : e.c = c /\ e.ev = ev
PoolSound(b) == PoolTypes(b) /\ FreeSound(b) /\ ReusableSound(b) /\ PostedSound(b)

LEMMA PostedInQueue ==
  ASSUME NEW b, PoolTypes(b), NEW e \in ToSet(b.posted)
  PROVE  e \in PostedEvents /\ e.c \in Places /\ e.ev \in Halves /\ e.fd \in Nat
<1>1. b.posted \in Seq(PostedEvents)
  BY DEF PoolTypes
<1>2. e \in PostedEvents
  BY <1>1 DEF ToSet
<1> QED
  BY <1>2 DEF PostedEvents

(* Closing a connection takes it off every queue.                           *)
LEMMA CloseKeepsPool ==
  ASSUME NEW b, PoolSound(b), NEW c \in OpenIn(b)
  PROVE  LET z == ngx_close_connection(b, c)
         IN  /\ PoolSound(z)
             /\ z.conn[c].fd = 0 /\ z.conn[c].instance = b.conn[c].instance
             /\ \A d \in Places \ {c} : z.conn[d] = b.conn[d]
             /\ z.free # <<>>
<1> DEFINE conn2 == [b.conn EXCEPT ![c].fd = 0, ![c].active = FALSE,
                                   ![c].posted = {}, ![c].reusable = FALSE]
           free2 == <<c>> \o b.free
           reusable2 == RemoveFirst(b.reusable, c)
           posted1 == Unposted(b.posted, c, "read")
           posted2 == Unposted(posted1, c, "write")
           z == [conn |-> conn2, free |-> free2, reusable |-> reusable2, posted |-> posted2]
<1>0. ngx_close_connection(b, c) = z
  BY DEF ngx_close_connection
<1>1. /\ c \in Places /\ b.conn \in [Places -> Connection] /\ b.conn[c].fd # 0
      /\ b.free \in Seq(Places) /\ b.reusable \in Seq(Places)
      /\ b.posted \in Seq(PostedEvents)
  BY DEF OpenIn, PoolSound, PoolTypes
<1>2. /\ conn2 \in [Places -> Connection]
      /\ conn2[c].fd = 0 /\ conn2[c].instance = b.conn[c].instance
      /\ conn2[c].posted = {} /\ conn2[c].reusable = FALSE
      /\ \A d \in Places \ {c} : conn2[d] = b.conn[d]
  BY <1>1 DEF Connection
<1> HIDE DEF conn2
<1>3. /\ free2 \in Seq(Places) /\ ToSet(free2) = {c} \cup ToSet(b.free) /\ IsInjective(free2)
  <2>1. c \notin ToSet(b.free)
    BY <1>1 DEF PoolSound, FreeSound, OpenIn
  <2> QED
    BY <1>1, <2>1, ConsFacts DEF PoolSound, FreeSound
<1>4. free2 # <<>>
  BY <1>3 DEF ToSet
<1>5. /\ reusable2 \in Seq(Places) /\ IsInjective(reusable2)
      /\ ToSet(reusable2) = ToSet(b.reusable) \ {c}
  BY <1>1, RemoveFirstFacts DEF PoolSound, ReusableSound
<1>6. /\ posted1 \in Seq(PostedEvents) /\ Keyed(posted1)
      /\ ToSet(posted1) = {e \in ToSet(b.posted) : ~(e.c = c /\ e.ev = "read")}
  BY <1>1, UnpostedFacts DEF PoolSound, PostedSound
<1> HIDE DEF posted1
<1>7. /\ posted2 \in Seq(PostedEvents) /\ Keyed(posted2)
      /\ ToSet(posted2) = {e \in ToSet(posted1) : ~(e.c = c /\ e.ev = "write")}
  BY <1>6, UnpostedFacts
<1> HIDE DEF free2, reusable2, posted2
<1>8. ToSet(posted2) = {e \in ToSet(b.posted) : e.c # c}
  <2>1. \A e \in ToSet(b.posted) : e.ev = "read" \/ e.ev = "write"
    BY PostedInQueue DEF PoolSound, Halves
  <2> QED
    BY <1>6, <1>7, <2>1
<1>9. OpenIn(z) = OpenIn(b) \ {c}
  BY <1>1, <1>2 DEF OpenIn
<1>10. PoolTypes(z)
  BY <1>2, <1>3, <1>5, <1>7 DEF PoolTypes
<1>11. FreeSound(z)
  BY <1>1, <1>3, <1>9 DEF FreeSound, PoolSound, OpenIn
<1>12. ReusableSound(z)
  BY <1>1, <1>2, <1>5, <1>9 DEF ReusableSound, PoolSound, OpenIn
<1>13. PostedSound(z)
  <2>1. \A e \in ToSet(posted2) : e.c \in Places \ {c} /\ e \in ToSet(b.posted)
    BY <1>8, PostedInQueue DEF PoolSound
  <2>2. \A e \in ToSet(posted2) : e.ev \in conn2[e.c].posted /\ e.fd = conn2[e.c].fd /\ e.fd # 0
    BY <1>2, <2>1 DEF PoolSound, PostedSound
  <2>3. ASSUME NEW d \in Places, NEW ev \in conn2[d].posted
        PROVE  \E e \in ToSet(posted2) : e.c = d /\ e.ev = ev
    <3>1. d # c /\ ev \in b.conn[d].posted
      BY <1>2, <2>3
    <3>2. PICK e \in ToSet(b.posted) : e.c = d /\ e.ev = ev
      BY <3>1 DEF PoolSound, PostedSound
    <3> QED
      BY <1>8, <3>1, <3>2
  <2> QED
    BY <1>7, <2>2, <2>3 DEF PostedSound
<1> QED
  BY <1>0, <1>2, <1>4, <1>10, <1>11, <1>12, <1>13 DEF PoolSound

(* ngx_get_connection: the first free place becomes a new connection with   *)
(* the other instance.                                                      *)
LEMMA GotKeepsPool ==
  ASSUME NEW b, PoolSound(b), b.free # <<>>, opens \in Nat
  PROVE  /\ PoolSound(Got(b))
         /\ b.free[1] \in Places
         /\ Got(b).conn[b.free[1]].fd = opens + 1
         /\ Got(b).conn[b.free[1]].instance = ~b.conn[b.free[1]].instance
         /\ \A d \in Places \ {b.free[1]} : Got(b).conn[d] = b.conn[d]
<1> DEFINE c == b.free[1]
           new == [Closed0 EXCEPT !.fd = opens + 1, !.instance = ~b.conn[c].instance]
           conn2 == [b.conn EXCEPT ![c] = new]
           z == [b EXCEPT !.free = Tail(@), !.conn[c] = new]
<1>0. Got(b) = z
  BY DEF Got
<1>1. /\ b.conn \in [Places -> Connection] /\ b.free \in Seq(Places)
      /\ b.reusable \in Seq(Places) /\ b.posted \in Seq(PostedEvents)
  BY DEF PoolSound, PoolTypes
<1>2. c \in Places /\ c \in ToSet(b.free) /\ Tail(b.free) \in Seq(Places)
  BY <1>1, TailFacts
<1>3. b.conn[c].fd = 0
  BY <1>2 DEF PoolSound, FreeSound, OpenIn
<1> HIDE DEF c
<1>4. b.conn[c] \in Connection /\ b.conn[c].instance \in BOOLEAN
  BY <1>1, <1>2 DEF Connection
<1>5. /\ new.fd = opens + 1 /\ new.instance = ~b.conn[c].instance
      /\ new.active = FALSE /\ new.posted = {} /\ new.reusable = FALSE
      /\ new \in Connection
  <2>1. opens + 1 \in Nat /\ (~b.conn[c].instance) \in BOOLEAN
    OBVIOUS
  <2> DEFINE m == opens + 1
             o == ~b.conn[c].instance
  <2>2. m \in Nat /\ o \in BOOLEAN
    BY <2>1
  <2> HIDE DEF m, o
  <2>3. new = [Closed0 EXCEPT !.fd = m, !.instance = o]
    BY DEF m, o
  <2>4. /\ new.fd = m /\ new.instance = o /\ new.active = FALSE /\ new.posted = {}
        /\ new.reusable = FALSE /\ new \in Connection
    BY <2>2, <2>3 DEF Closed0, Connection
  <2> QED
    BY <2>4 DEF m, o
<1> HIDE DEF new
<1>6. z.conn = conn2 /\ z.free = Tail(b.free) /\ z.reusable = b.reusable
      /\ z.posted = b.posted /\ z = [conn |-> conn2, free |-> Tail(b.free),
                                     reusable |-> b.reusable, posted |-> b.posted]
  <2> DEFINE t == Tail(b.free)
  <2>1. b = [conn |-> b.conn, free |-> b.free, reusable |-> b.reusable, posted |-> b.posted]
    BY DEF PoolSound, PoolTypes
  <2>2. z = [b EXCEPT !.free = t, !.conn = conn2]
    BY <2>1
  <2> HIDE DEF t, conn2, z
  <2>3. z = [conn |-> conn2, free |-> t, reusable |-> b.reusable, posted |-> b.posted]
    BY <2>1, <2>2
  <2> QED
    BY <2>3 DEF t
<1>7. /\ conn2 \in [Places -> Connection] /\ conn2[c] = new
      /\ \A d \in Places \ {c} : conn2[d] = b.conn[d]
  BY <1>1, <1>2, <1>5
<1> HIDE DEF conn2, z
<1>8. OpenIn(z) = OpenIn(b) \cup {c} /\ c \notin OpenIn(b)
  BY <1>2, <1>3, <1>5, <1>6, <1>7 DEF OpenIn
<1>9. PoolTypes(z)
  BY <1>1, <1>2, <1>6, <1>7 DEF PoolTypes
<1>10. FreeSound(z)
  <2>1. IsInjective(Tail(b.free)) /\ ToSet(Tail(b.free)) = ToSet(b.free) \ {c}
    BY <1>1, TailInjective DEF c, PoolSound, FreeSound
  <2> QED
    BY <1>6, <1>8, <2>1 DEF PoolSound, FreeSound
<1>11. ReusableSound(z)
  BY <1>5, <1>6, <1>7, <1>8 DEF PoolSound, ReusableSound, OpenIn
<1>12. PostedSound(z)
  <2>1. \A e \in ToSet(b.posted) : e.c \in Places \ {c}
    BY <1>3, PostedInQueue DEF PoolSound, PostedSound
  <2>2. \A e \in ToSet(z.posted) :
          e.ev \in z.conn[e.c].posted /\ e.fd = z.conn[e.c].fd /\ e.fd # 0
    BY <1>6, <1>7, <2>1 DEF PoolSound, PostedSound
  <2>3. ASSUME NEW d \in Places, NEW ev \in z.conn[d].posted
        PROVE  \E e \in ToSet(z.posted) : e.c = d /\ e.ev = ev
    <3>1. d # c /\ ev \in b.conn[d].posted
      BY <1>5, <1>6, <1>7, <2>3
    <3> QED
      BY <1>6, <3>1 DEF PoolSound, PostedSound
  <2> QED
    BY <1>6, <2>2, <2>3 DEF PoolSound, PostedSound
<1> QED
  BY <1>0, <1>2, <1>5, <1>6, <1>7, <1>9, <1>10, <1>11, <1>12 DEF PoolSound, c

(* Posting an event of an open connection.                                  *)
LEMMA PostedKeepsPool ==
  ASSUME NEW b, PoolSound(b), NEW c \in OpenIn(b), NEW ev \in Halves
  PROVE  LET z == Posted(b, c, ev, b.conn[c].fd)
         IN  /\ PoolSound(z)
             /\ \A d \in Places : z.conn[d].fd = b.conn[d].fd
                                  /\ z.conn[d].instance = b.conn[d].instance
<1> DEFINE fd == b.conn[c].fd
           x == [c |-> c, ev |-> ev, fd |-> fd]
           ps == b.conn[c].posted \cup {ev}
           conn2 == [b.conn EXCEPT ![c].posted = ps]
           z == [conn |-> conn2, free |-> b.free, reusable |-> b.reusable,
                 posted |-> Append(b.posted, x)]
<1>1. /\ b.conn \in [Places -> Connection] /\ b.free \in Seq(Places)
      /\ b.reusable \in Seq(Places) /\ b.posted \in Seq(PostedEvents)
      /\ c \in Places /\ fd # 0 /\ fd \in Nat
  BY DEF PoolSound, PoolTypes, OpenIn, Connection
<1>2. CASE ev \in b.conn[c].posted
  BY <1>2 DEF Posted
<1>3. CASE ev \notin b.conn[c].posted
  <2>0. Posted(b, c, ev, fd) = z
    BY <1>1, <1>3 DEF Posted, PoolSound, PoolTypes
  <2>1. x \in PostedEvents /\ x.c = c /\ x.ev = ev /\ x.fd = fd
    BY <1>1 DEF PostedEvents
  <2> HIDE DEF x
  <2>2. \A e \in ToSet(b.posted) : ~(e.c = x.c /\ e.ev = x.ev)
    BY <1>3, <2>1 DEF PoolSound, PostedSound
  <2>3. /\ Append(b.posted, x) \in Seq(PostedEvents) /\ Keyed(Append(b.posted, x))
        /\ ToSet(Append(b.posted, x)) = ToSet(b.posted) \cup {x}
    BY <1>1, <2>1, <2>2, AppendFacts, AppendKeyed DEF PoolSound, PostedSound
  <2>4. ps \in SUBSET Halves /\ ev \in ps
    BY <1>1 DEF Connection
  <2> HIDE DEF ps
  <2>5. /\ conn2 \in [Places -> Connection] /\ conn2[c].posted = ps
        /\ \A d \in Places : /\ conn2[d].fd = b.conn[d].fd
                             /\ conn2[d].instance = b.conn[d].instance
                             /\ conn2[d].reusable = b.conn[d].reusable
        /\ \A d \in Places \ {c} : conn2[d] = b.conn[d]
    BY <1>1, <2>4 DEF Connection
  <2> HIDE DEF conn2
  <2>6. OpenIn(z) = OpenIn(b)
    BY <2>5 DEF OpenIn
  <2>7. PoolTypes(z) /\ FreeSound(z) /\ ReusableSound(z)
    <3>1. PoolTypes(z)
      BY <1>1, <2>3, <2>5 DEF PoolTypes
    <3>2. FreeSound(z)
      BY <2>6 DEF PoolSound, FreeSound
    <3>3. ReusableSound(z)
      BY <2>5, <2>6 DEF PoolSound, ReusableSound, OpenIn
    <3> QED
      BY <3>1, <3>2, <3>3
  <2>8. PostedSound(z)
    <3>1. ASSUME NEW e \in ToSet(z.posted)
          PROVE  e.ev \in conn2[e.c].posted /\ e.fd = conn2[e.c].fd /\ e.fd # 0
      <4>1. CASE e = x
        BY <1>1, <2>1, <2>4, <2>5, <4>1
      <4>2. CASE e \in ToSet(b.posted)
        <5>1. e.c \in Places /\ e.ev \in b.conn[e.c].posted /\ e.fd = b.conn[e.c].fd /\ e.fd # 0
          BY <4>2, PostedInQueue DEF PoolSound, PostedSound
        <5>2. e.ev \in conn2[e.c].posted
          BY <2>5, <5>1 DEF ps
        <5> QED
          BY <2>5, <5>1, <5>2
      <4> QED
        BY <2>3, <4>1, <4>2
    <3>2. ASSUME NEW d \in Places, NEW f \in conn2[d].posted
          PROVE  \E e \in ToSet(z.posted) : e.c = d /\ e.ev = f
      <4>1. CASE d = c /\ f = ev
        BY <2>1, <2>3, <4>1
      <4>2. CASE ~(d = c /\ f = ev)
        <5>1. f \in b.conn[d].posted
          BY <2>5, <3>2, <4>2 DEF ps
        <5> QED
          BY <2>3, <5>1 DEF PoolSound, PostedSound
      <4> QED
        BY <4>1, <4>2
    <3> QED
      BY <2>3, <3>1, <3>2 DEF PostedSound
  <2> QED
    BY <2>0, <2>5, <2>7, <2>8 DEF PoolSound
<1> QED
  BY <1>2, <1>3

-----------------------------------------------------------------------------
(* The inductive invariant.  An event of the batch whose place has not been *)
(* opened again since epoll_wait is of the connection there or of one that  *)
(* was closed; once the place was opened again the instances differ.  With  *)
(* NGX_POST_EVENTS no handler runs before the batch has been posted.        *)
EpollEvents == [c : Places, instance : BOOLEAN, fd : Nat, revents : SUBSET Halves]

Known(e) ==
  /\ reopened[e.c] = 0 => conn[e.c].instance = e.instance /\ conn[e.c].fd \in {0, e.fd}
  /\ reopened[e.c] = 1 => conn[e.c].instance # e.instance

BatchTypes ==
  /\ eventList \in Seq(EpollEvents)
  /\ loop \in {"idle", "events", "write", "posted"}
  /\ running \in BOOLEAN /\ post \in BOOLEAN
  /\ opens \in Nat
  /\ reopened \in [Places -> Nat]
BatchKnown == \A e \in ToSet(eventList) : Known(e)
BatchPlaced ==
  /\ loop \in {"idle", "posted"} => eventList = <<>>
  /\ loop = "write" => eventList # <<>>
PostingIsQuiet ==
  post /\ loop \in {"events", "write"} => ~running /\ \A c \in Places : reopened[c] = 0

ElInv ==
  /\ PoolSound(Pool) /\ BatchTypes /\ BatchKnown /\ BatchPlaced /\ PostingIsQuiet
  /\ NoStaleHandler

LEMMA EventInBatch ==
  ASSUME BatchTypes, NEW e \in ToSet(eventList)
  PROVE  e \in EpollEvents /\ e.c \in Places /\ e.fd \in Nat /\ e.instance \in BOOLEAN
<1>1. e \in EpollEvents
  BY DEF BatchTypes, ToSet
<1> QED
  BY <1>1 DEF EpollEvents

LEMMA PoolFields ==
  /\ Pool.conn = conn /\ Pool.free = freeConns /\ Pool.reusable = reusableQ
  /\ Pool.posted = postedQ /\ OpenIn(Pool) = OpenPlaces
BY DEF Pool, OpenIn, OpenPlaces

LEMMA PoolBecomesPool ==
  ASSUME NEW b, PoolSound(b), PoolBecomes(b)
  PROVE  Pool' = b /\ PoolSound(Pool)' /\ conn' = b.conn
<1>1. Pool' = [conn |-> b.conn, free |-> b.free, reusable |-> b.reusable, posted |-> b.posted]
  BY DEF Pool, PoolBecomes
<1>2. b = [conn |-> b.conn, free |-> b.free, reusable |-> b.reusable, posted |-> b.posted]
  BY DEF PoolSound, PoolTypes
<1>3. Pool' = b
  BY <1>1, <1>2
<1>4. PoolSound(Pool)' <=> PoolSound(Pool')
  BY DEF PoolSound, PoolTypes, FreeSound, ReusableSound, PostedSound, OpenIn
<1> QED
  BY <1>3, <1>4 DEF PoolBecomes

(* Closing connections, and posting, leave what is known of the batch.      *)
LEMMA KnownKept ==
  ASSUME BatchTypes, BatchKnown, UNCHANGED reopened,
         \A d \in Places : /\ conn'[d].instance = conn[d].instance
                           /\ conn'[d].fd \in {0, conn[d].fd},
         NEW e \in ToSet(eventList)
  PROVE  Known(e)'
<1>1. e.c \in Places /\ Known(e)
  BY EventInBatch DEF BatchKnown
<1> QED
  BY <1>1 DEF Known

(* The steps of a handler.                                                  *)
LEMMA HandlerStep ==
  ASSUME ElInv, running, PoolSound(Pool)',
         UNCHANGED <<eventList, loop, running, post, opens, reopened, stale>>,
         \A d \in Places : /\ conn'[d].instance = conn[d].instance
                           /\ conn'[d].fd \in {0, conn[d].fd}
  PROVE  ElInv'
<1>1. BatchKnown'
  BY KnownKept DEF ElInv, BatchKnown
<1>2. BatchTypes' /\ BatchPlaced' /\ PostingIsQuiet' /\ NoStaleHandler'
  BY DEF ElInv, BatchTypes, BatchPlaced, PostingIsQuiet, NoStaleHandler
<1> QED
  BY <1>1, <1>2 DEF ElInv

LEMMA CloseStep ==
  ASSUME ElInv, NEW c \in Places, Close(c)
  PROVE  ElInv'
<1> DEFINE z == ngx_close_connection(Pool, c)
<1>1. /\ PoolSound(z) /\ z.conn[c].fd = 0 /\ z.conn[c].instance = Pool.conn[c].instance
      /\ \A d \in Places \ {c} : z.conn[d] = Pool.conn[d]
  BY CloseKeepsPool, PoolFields DEF ElInv, Close
<1>2. PoolBecomes(z) /\ running
      /\ UNCHANGED <<eventList, loop, running, post, opens, reopened, stale>>
  BY DEF Close
<1> HIDE DEF z
<1>3. PoolSound(Pool)' /\ conn' = z.conn
  BY <1>1, <1>2, PoolBecomesPool
<1>4. \A d \in Places : conn'[d].instance = conn[d].instance /\ conn'[d].fd \in {0, conn[d].fd}
  BY <1>1, <1>3, PoolFields
<1> QED
  BY <1>2, <1>3, <1>4, HandlerStep

LEMMA PostEventStep ==
  ASSUME ElInv, NEW c \in Places, NEW ev \in {"read", "write"}, PostEvent(c, ev)
  PROVE  ElInv'
<1> DEFINE z == Posted(Pool, c, ev, conn[c].fd)
<1>1. /\ PoolSound(z)
      /\ \A d \in Places : z.conn[d].fd = Pool.conn[d].fd
                           /\ z.conn[d].instance = Pool.conn[d].instance
  BY PostedKeepsPool, PoolFields DEF ElInv, PostEvent, Halves
<1>2. PoolBecomes(z) /\ running
      /\ UNCHANGED <<eventList, loop, running, post, opens, reopened, stale>>
  BY DEF PostEvent
<1> HIDE DEF z
<1>3. PoolSound(Pool)' /\ conn' = z.conn
  BY <1>1, <1>2, PoolBecomesPool
<1>4. \A d \in Places : conn'[d].instance = conn[d].instance /\ conn'[d].fd \in {0, conn[d].fd}
  BY <1>1, <1>3, PoolFields
<1> QED
  BY <1>2, <1>3, <1>4, HandlerStep

(* What the conjuncts of PoolSound say of the variables.                    *)
LEMMA PoolUnfolded ==
  ASSUME PoolSound(Pool)
  PROVE  /\ conn \in [Places -> Connection] /\ freeConns \in Seq(Places)
         /\ reusableQ \in Seq(Places) /\ postedQ \in Seq(PostedEvents)
         /\ IsInjective(freeConns) /\ ToSet(freeConns) = Places \ OpenPlaces
         /\ IsInjective(reusableQ)
         /\ ToSet(reusableQ) = {c \in OpenPlaces : conn[c].reusable}
         /\ Keyed(postedQ)
         /\ \A e \in ToSet(postedQ) :
              e.ev \in conn[e.c].posted /\ e.fd = conn[e.c].fd /\ e.fd # 0
         /\ \A c \in Places : \A ev \in conn[c].posted :
              \E e \in ToSet(postedQ) : e.c = c /\ e.ev = ev
<1>1. Pool = [conn |-> conn, free |-> freeConns, reusable |-> reusableQ, posted |-> postedQ]
  BY DEF Pool
<1>2. /\ conn \in [Places -> Connection] /\ freeConns \in Seq(Places)
      /\ reusableQ \in Seq(Places) /\ postedQ \in Seq(PostedEvents)
  BY <1>1 DEF PoolSound, PoolTypes
<1>3. IsInjective(freeConns) /\ ToSet(freeConns) = Places \ OpenPlaces
  BY PoolFields DEF PoolSound, FreeSound
<1>4. IsInjective(reusableQ) /\ ToSet(reusableQ) = {c \in OpenPlaces : conn[c].reusable}
  BY PoolFields DEF PoolSound, ReusableSound
<1>5. /\ Keyed(postedQ)
      /\ \A e \in ToSet(postedQ) :
           e.ev \in conn[e.c].posted /\ e.fd = conn[e.c].fd /\ e.fd # 0
      /\ \A c \in Places : \A ev \in conn[c].posted :
           \E e \in ToSet(postedQ) : e.c = c /\ e.ev = ev
  BY PoolFields DEF PoolSound, PostedSound
<1> QED
  BY <1>2, <1>3, <1>4, <1>5

LEMMA PoolFolded ==
  ASSUME conn' \in [Places -> Connection], freeConns' \in Seq(Places),
         reusableQ' \in Seq(Places), postedQ' \in Seq(PostedEvents),
         IsInjective(freeConns'), ToSet(freeConns') = Places \ OpenPlaces',
         IsInjective(reusableQ'),
         ToSet(reusableQ') = {c \in OpenPlaces' : conn'[c].reusable},
         Keyed(postedQ'),
         \A e \in ToSet(postedQ') :
           e.ev \in conn'[e.c].posted /\ e.fd = conn'[e.c].fd /\ e.fd # 0,
         \A c \in Places : \A ev \in conn'[c].posted :
           \E e \in ToSet(postedQ') : e.c = c /\ e.ev = ev
  PROVE  PoolSound(Pool)'
<1> DEFINE b == [conn |-> conn', free |-> freeConns', reusable |-> reusableQ', posted |-> postedQ']
<1>1. /\ b.conn = conn' /\ b.free = freeConns' /\ b.reusable = reusableQ' /\ b.posted = postedQ'
      /\ OpenIn(b) = OpenPlaces'
  BY DEF OpenIn, OpenPlaces
<1>2. PoolTypes(b)
  BY DEF PoolTypes
<1>3. PoolBecomes(b)
  BY <1>1 DEF PoolBecomes
<1> HIDE DEF b
<1>4. PoolSound(b)
  BY <1>1, <1>2 DEF PoolSound, FreeSound, ReusableSound, PostedSound
<1> QED
  BY <1>3, <1>4, PoolBecomesPool

(* The two flags of a connection that its queue and epoll keep.             *)
LEMMA EnabledConnection ==
  ASSUME NEW k \in Connection, NEW n, n = [k EXCEPT !.active = TRUE]
  PROVE  /\ n \in Connection /\ n.fd = k.fd /\ n.instance = k.instance
         /\ n.posted = k.posted /\ n.reusable = k.reusable
<1>1. n.fd = k.fd /\ n.posted = k.posted
  BY DEF Connection
<1>2. n.instance = k.instance /\ n.reusable = k.reusable
  BY Zenon DEF Connection
<1>3. n \in Connection
  BY DEF Connection
<1> QED
  BY <1>1, <1>2, <1>3

LEMMA MarkedConnection ==
  ASSUME NEW k \in Connection, NEW r \in BOOLEAN, NEW n, n = [k EXCEPT !.reusable = r]
  PROVE  /\ n \in Connection /\ n.fd = k.fd /\ n.instance = k.instance
         /\ n.posted = k.posted /\ n.reusable = r
<1>1. n.fd = k.fd /\ n.posted = k.posted
  BY DEF Connection
<1>2. n.instance = k.instance /\ n.reusable = r
  BY Zenon DEF Connection
<1>3. n \in Connection
  BY DEF Connection
<1> QED
  BY <1>1, <1>2, <1>3

LEMMA UnpostedConnection ==
  ASSUME NEW k \in Connection, NEW ps \in SUBSET Halves, NEW n, n = [k EXCEPT !.posted = ps]
  PROVE  n \in Connection /\ n.fd = k.fd /\ n.reusable = k.reusable /\ n.posted = ps
<1>1. n.fd = k.fd /\ n.posted = ps
  BY DEF Connection
<1>2. n.reusable = k.reusable
  BY Zenon DEF Connection
<1>3. n \in Connection
  BY DEF Connection
<1> QED
  BY <1>1, <1>2, <1>3

LEMMA AddConnectionStep ==
  ASSUME ElInv, NEW c \in Places, ngx_epoll_add_connection(c)
  PROVE  ElInv'
<1>0. PoolSound(Pool)
  BY DEF ElInv
<1> USE <1>0, PoolUnfolded
<1>1. /\ conn' = [conn EXCEPT ![c].active = TRUE] /\ running
      /\ UNCHANGED <<freeConns, reusableQ, postedQ>>
      /\ UNCHANGED <<eventList, loop, running, post, opens, reopened, stale>>
  BY DEF ngx_epoll_add_connection
<1>2. /\ conn' \in [Places -> Connection]
      /\ \A d \in Places : /\ conn'[d].fd = conn[d].fd /\ conn'[d].instance = conn[d].instance
                           /\ conn'[d].posted = conn[d].posted
                           /\ conn'[d].reusable = conn[d].reusable
  <2>1. /\ conn'[c] = [conn[c] EXCEPT !.active = TRUE]
        /\ DOMAIN conn' = Places
        /\ \A d \in Places \ {c} : conn'[d] = conn[d]
        /\ \A d \in Places : conn[d] \in Connection
    BY <1>1
  <2>2. conn' = [d \in Places |-> conn'[d]]
    BY <1>1
  <2> DEFINE old == conn[c]
             new == conn'[c]
  <2>3. old \in Connection /\ new = [old EXCEPT !.active = TRUE]
    BY <2>1
  <2> HIDE DEF old, new
  <2>4. /\ new \in Connection /\ new.fd = old.fd /\ new.instance = old.instance
        /\ new.posted = old.posted /\ new.reusable = old.reusable
    BY <2>3, EnabledConnection
  <2> USE DEF old, new
  <2>5. \A d \in Places : conn'[d] \in Connection
    BY <2>1, <2>4
  <2>6. conn' \in [Places -> Connection]
    BY <2>2, <2>5
  <2> QED
    BY <2>1, <2>4, <2>6, Zenon
<1>3. OpenPlaces' = OpenPlaces
  BY <1>2 DEF OpenPlaces
<1>4. PoolSound(Pool)'
  <2>1. \A e \in ToSet(postedQ) : e.c \in Places
    BY PostedInQueue, PoolFields DEF PoolSound
  <2>2. {d \in OpenPlaces' : conn'[d].reusable} = {d \in OpenPlaces : conn[d].reusable}
    BY <1>2, <1>3 DEF OpenPlaces
  <2>3. \A e \in ToSet(postedQ') :
          e.ev \in conn'[e.c].posted /\ e.fd = conn'[e.c].fd /\ e.fd # 0
    BY <1>1, <1>2, <2>1
  <2>4. \A d \in Places : \A ev \in conn'[d].posted :
          \E e \in ToSet(postedQ') : e.c = d /\ e.ev = ev
    BY <1>1, <1>2
  <2> QED
    BY <1>1, <1>2, <1>3, <2>2, <2>3, <2>4, PoolFolded
<1> QED
  BY <1>1, <1>2, <1>4, HandlerStep

LEMMA ReusableStep ==
  ASSUME ElInv, NEW c \in Places, NEW reusable \in BOOLEAN, ngx_reusable_connection(c, reusable)
  PROVE  ElInv'
<1>0. PoolSound(Pool)
  BY DEF ElInv
<1> USE <1>0, PoolUnfolded
<1> DEFINE rest == RemoveFirst(reusableQ, c)
<1>1. /\ conn' = [conn EXCEPT ![c].reusable = reusable] /\ running /\ c \in OpenPlaces
      /\ reusableQ' = (IF reusable THEN <<c>> \o rest ELSE rest)
      /\ UNCHANGED <<freeConns, postedQ>>
      /\ UNCHANGED <<eventList, loop, running, post, opens, reopened, stale>>
  BY DEF ngx_reusable_connection
<1>2. /\ conn' \in [Places -> Connection] /\ conn'[c].reusable = reusable
      /\ \A d \in Places : /\ conn'[d].fd = conn[d].fd /\ conn'[d].instance = conn[d].instance
                           /\ conn'[d].posted = conn[d].posted
      /\ \A d \in Places \ {c} : conn'[d].reusable = conn[d].reusable
  <2>1. /\ conn'[c] = [conn[c] EXCEPT !.reusable = reusable]
        /\ DOMAIN conn' = Places
        /\ \A d \in Places \ {c} : conn'[d] = conn[d]
        /\ \A d \in Places : conn[d] \in Connection
    BY <1>1
  <2>2. conn' = [d \in Places |-> conn'[d]]
    BY <1>1
  <2> DEFINE old == conn[c]
             new == conn'[c]
  <2>3. old \in Connection /\ new = [old EXCEPT !.reusable = reusable]
    BY <2>1
  <2> HIDE DEF old, new
  <2>4. /\ new \in Connection /\ new.fd = old.fd /\ new.instance = old.instance
        /\ new.posted = old.posted /\ new.reusable = reusable
    BY <2>3, MarkedConnection
  <2> USE DEF old, new
  <2>5. \A d \in Places : conn'[d] \in Connection
    BY <2>1, <2>4
  <2>6. conn' \in [Places -> Connection]
    BY <2>2, <2>5
  <2> QED
    BY <2>1, <2>4, <2>6, Zenon
<1>3. OpenPlaces' = OpenPlaces
  BY <1>2 DEF OpenPlaces
<1>4. rest \in Seq(Places) /\ IsInjective(rest) /\ ToSet(rest) = ToSet(reusableQ) \ {c}
  BY RemoveFirstFacts
<1> HIDE DEF rest
<1>5. /\ reusableQ' \in Seq(Places) /\ IsInjective(reusableQ')
      /\ ToSet(reusableQ') = {d \in OpenPlaces' : conn'[d].reusable}
  <2>1. CASE reusable
    <3>1. /\ reusableQ' \in Seq(Places) /\ IsInjective(reusableQ')
          /\ ToSet(reusableQ') = {c} \cup ToSet(rest)
      BY <1>1, <1>4, <2>1, ConsFacts
    <3>2. {c} \cup ToSet(rest) = {d \in OpenPlaces' : conn'[d].reusable}
      BY <1>1, <1>2, <1>3, <1>4, <2>1 DEF OpenPlaces
    <3> QED
      BY <3>1, <3>2
  <2>2. CASE ~reusable
    <3>1. ToSet(rest) = {d \in OpenPlaces' : conn'[d].reusable}
      BY <1>1, <1>2, <1>3, <1>4, <2>2 DEF OpenPlaces
    <3> QED
      BY <1>1, <1>4, <2>2, <3>1
  <2> QED
    BY <2>1, <2>2
<1>6. PoolSound(Pool)'
  <2>1. \A e \in ToSet(postedQ) : e.c \in Places
    BY PostedInQueue, PoolFields DEF PoolSound
  <2>2. \A e \in ToSet(postedQ') :
          e.ev \in conn'[e.c].posted /\ e.fd = conn'[e.c].fd /\ e.fd # 0
    BY <1>1, <1>2, <2>1
  <2>3. \A d \in Places : \A ev \in conn'[d].posted :
          \E e \in ToSet(postedQ') : e.c = d /\ e.ev = ev
    BY <1>1, <1>2
  <2> QED
    BY <1>1, <1>2, <1>3, <1>5, <2>2, <2>3, PoolFolded
<1> QED
  BY <1>1, <1>2, <1>6, HandlerStep

(* Without a free place the reusable connection that is last is closed.     *)
LEMMA DrainKeepsPool ==
  ASSUME NEW b, PoolSound(b)
  PROVE  LET z == ngx_drain_connections(b)
         IN  /\ PoolSound(z)
             /\ \A d \in Places : /\ z.conn[d].instance = b.conn[d].instance
                                  /\ z.conn[d].fd \in {0, b.conn[d].fd}
<1>1. CASE b.reusable = <<>>
  BY <1>1 DEF ngx_drain_connections
<1>2. CASE b.reusable # <<>>
  <2> DEFINE c == b.reusable[Len(b.reusable)]
  <2>1. b.reusable \in Seq(Places)
    BY DEF PoolSound, PoolTypes
  <2>2. Len(b.reusable) \in DOMAIN b.reusable
    BY <1>2, <2>1
  <2>3. c \in OpenIn(b)
    BY <2>2 DEF PoolSound, ReusableSound, ToSet
  <2> HIDE DEF c
  <2>4. ngx_drain_connections(b) = ngx_close_connection(b, c)
    BY <1>2 DEF ngx_drain_connections, c
  <2> QED
    BY <2>3, <2>4, CloseKeepsPool
<1> QED
  BY <1>1, <1>2

(* ngx_get_connection: a place that is opened again has the other instance, *)
(* and one opened before in this batch is known to have been.               *)
LEMMA GetConnectionStep ==
  ASSUME ElInv, ngx_get_connection
  PROVE  ElInv'
<1> DEFINE b == IF freeConns = <<>> THEN ngx_drain_connections(Pool) ELSE Pool
<1>1. /\ running
      /\ UNCHANGED <<eventList, loop, running, post, stale>>
      /\ IF b.free = <<>>
         THEN PoolBecomes(b) /\ UNCHANGED <<opens, reopened>>
         ELSE /\ PoolBecomes(Got(b))
              /\ opens' = opens + 1
              /\ reopened' = [reopened EXCEPT ![b.free[1]] = @ + 1]
  BY DEF ngx_get_connection
<1>2. /\ PoolSound(b)
      /\ \A d \in Places : /\ b.conn[d].instance = conn[d].instance
                           /\ b.conn[d].fd \in {0, conn[d].fd}
  BY DrainKeepsPool, PoolFields DEF ElInv
<1> HIDE DEF b
<1>3. CASE b.free = <<>>
  <2>1. PoolBecomes(b) /\ UNCHANGED <<opens, reopened>>
    BY <1>1, <1>3
  <2>2. PoolSound(Pool)' /\ conn' = b.conn
    BY <1>2, <2>1, PoolBecomesPool
  <2> QED
    BY <1>1, <1>2, <2>1, <2>2, HandlerStep
<1>4. CASE b.free # <<>>
  <2> DEFINE c == b.free[1]
             z == Got(b)
  <2>1. /\ PoolBecomes(z) /\ opens' = opens + 1
        /\ reopened' = [reopened EXCEPT ![c] = @ + 1]
    BY <1>1, <1>4
  <2>2. /\ PoolSound(z) /\ c \in Places
        /\ z.conn[c].instance = ~b.conn[c].instance
        /\ \A d \in Places \ {c} : z.conn[d] = b.conn[d]
    BY <1>2, <1>4, GotKeepsPool DEF ElInv, BatchTypes
  <2> HIDE DEF c, z
  <2>3. PoolSound(Pool)' /\ conn' = z.conn
    BY <2>1, <2>2, PoolBecomesPool
  <2>4. /\ reopened' \in [Places -> Nat] /\ opens' \in Nat
        /\ reopened'[c] = reopened[c] + 1
        /\ \A d \in Places \ {c} : reopened'[d] = reopened[d]
    BY <2>1, <2>2 DEF ElInv, BatchTypes
  <2>5. conn'[c].instance = ~conn[c].instance
    BY <1>2, <2>2, <2>3
  <2>6. \A d \in Places \ {c} : /\ conn'[d].instance = conn[d].instance
                                /\ conn'[d].fd \in {0, conn[d].fd}
    BY <1>2, <2>2, <2>3
  <2>7. ASSUME NEW e \in ToSet(eventList) PROVE Known(e)'
    <3>1. e.c \in Places /\ Known(e) /\ e.instance \in BOOLEAN /\ reopened[e.c] \in Nat
      BY EventInBatch DEF ElInv, BatchKnown, BatchTypes
    <3>2. CASE e.c = c
      <4>1. reopened'[e.c] = reopened[c] + 1 /\ reopened[c] \in Nat
        BY <2>4, <3>1, <3>2
      <4>2. reopened'[e.c] # 0 /\ (reopened'[e.c] = 1 => reopened[c] = 0)
        BY <4>1
      <4>3. reopened[c] = 0 => conn[c].instance = e.instance
        BY <3>1, <3>2 DEF Known
      <4>4. reopened[c] = 0 => conn'[e.c].instance # e.instance
        BY <2>5, <3>1, <3>2, <4>3, Zenon
      <4> QED
        BY <4>2, <4>4 DEF Known
    <3>3. CASE e.c # c
      BY <2>4, <2>6, <3>1, <3>3 DEF Known
    <3> QED
      BY <3>2, <3>3
  <2>8. BatchKnown'
    BY <1>1, <2>7 DEF BatchKnown
  <2>9. BatchTypes' /\ BatchPlaced' /\ NoStaleHandler'
    BY <1>1, <2>4 DEF ElInv, BatchTypes, BatchPlaced, NoStaleHandler
  <2>10. PostingIsQuiet'
    BY <1>1 DEF ElInv, PostingIsQuiet
  <2> QED
    BY <2>3, <2>8, <2>9, <2>10 DEF ElInv
<1> QED
  BY <1>3, <1>4

LEMMA ReturnStep ==
  ASSUME ElInv, Return
  PROVE  ElInv'
<1>1. /\ running' = FALSE
      /\ UNCHANGED <<conn, freeConns, reusableQ, eventList, postedQ, loop, post, opens,
                     reopened, stale>>
  BY DEF Return
<1>2. PoolSound(Pool)'
  <2>1. PoolSound(Pool) /\ PoolBecomes(Pool)
    BY <1>1, PoolFields DEF ElInv, PoolBecomes
  <2> QED
    BY <2>1, PoolBecomesPool
<1>3. BatchKnown'
  BY <1>1 DEF ElInv, BatchKnown, Known
<1>4. BatchTypes' /\ BatchPlaced' /\ PostingIsQuiet' /\ NoStaleHandler'
  BY <1>1 DEF ElInv, BatchTypes, BatchPlaced, PostingIsQuiet, NoStaleHandler
<1> QED
  BY <1>2, <1>3, <1>4 DEF ElInv

LEMMA TimersExpireStep ==
  ASSUME ElInv, TimersExpire
  PROVE  ElInv'
<1>1. /\ loop' = "posted" /\ running' \in BOOLEAN /\ eventList = <<>>
      /\ UNCHANGED <<conn, freeConns, reusableQ, eventList, postedQ, post, opens,
                     reopened, stale>>
  BY DEF TimersExpire
<1>2. PoolSound(Pool)'
  <2>1. PoolSound(Pool) /\ PoolBecomes(Pool)
    BY <1>1, PoolFields DEF ElInv, PoolBecomes
  <2> QED
    BY <2>1, PoolBecomesPool
<1>3. BatchKnown'
  BY <1>1 DEF ElInv, BatchKnown, Known
<1>4. BatchTypes' /\ BatchPlaced' /\ PostingIsQuiet' /\ NoStaleHandler'
  BY <1>1 DEF ElInv, BatchTypes, BatchPlaced, PostingIsQuiet, NoStaleHandler
<1> QED
  BY <1>2, <1>3, <1>4 DEF ElInv

(* epoll_wait: the events are of connections as they are.                   *)
LEMMA EpollWaitStep ==
  ASSUME ElInv, EpollWait
  PROVE  ElInv'
<1>1. PICK ready \in SUBSET {c \in OpenPlaces : conn[c].active} :
      \E revents \in [ready -> {{"read"}, {"write"}, {"read", "write"}}] :
        eventList' = SetToSeq({[c |-> c, instance |-> conn[c].instance,
                                fd |-> conn[c].fd, revents |-> revents[c]] : c \in ready})
  BY Zenon DEF EpollWait
<1>2. PICK revents \in [ready -> {{"read"}, {"write"}, {"read", "write"}}] :
        eventList' = SetToSeq({[c |-> c, instance |-> conn[c].instance,
                                fd |-> conn[c].fd, revents |-> revents[c]] : c \in ready})
  BY <1>1
<1>3. /\ ~running /\ post' \in BOOLEAN /\ loop' = "events"
      /\ reopened' = [c \in Places |-> 0]
      /\ UNCHANGED <<conn, freeConns, reusableQ, postedQ, running, opens, stale>>
  BY DEF EpollWait
<1> DEFINE ev(c) == [c |-> c, instance |-> conn[c].instance, fd |-> conn[c].fd,
                     revents |-> revents[c]]
           R == {ev(c) : c \in ready}
           f == [c \in ready |-> ev(c)]
<1>4. ready \subseteq Places
  BY DEF OpenPlaces
<1>5. IsFiniteSet(R)
  <2>1. IsFiniteSet(ready)
    BY <1>4, FS_Subset, EventLoopAssumption
  <2>2. f \in Surjection(ready, R)
    BY Zenon DEF Surjection
  <2> QED
    BY <2>1, <2>2, FS_Surjection
<1>6. \A c \in ready : ev(c) \in EpollEvents
  <2> SUFFICES ASSUME NEW c \in ready PROVE ev(c) \in EpollEvents
    OBVIOUS
  <2>1. conn[c] \in Connection /\ c \in Places
    BY <1>4, PoolUnfolded DEF ElInv
  <2>2. /\ conn[c].instance \in BOOLEAN /\ conn[c].fd \in Nat
    BY <2>1 DEF Connection
  <2>3. revents[c] \in SUBSET Halves
    BY DEF Halves
  <2> QED
    BY <2>1, <2>2, <2>3 DEF EpollEvents
<1>7. \A c \in ready : /\ ev(c).c = c /\ ev(c).instance = conn[c].instance
                       /\ ev(c).fd = conn[c].fd
  OBVIOUS
<1> HIDE DEF ev, f
<1>8. R \subseteq EpollEvents /\ \A e \in R : /\ e.c \in Places
                                             /\ conn[e.c].instance = e.instance
                                             /\ conn[e.c].fd = e.fd
  BY <1>4, <1>6, <1>7
<1>9. eventList' = SetToSeq(R)
  BY <1>2 DEF ev
<1> HIDE DEF R
<1>10. eventList' \in Seq(R) /\ ToSet(eventList') = R
  BY <1>5, <1>9, SetToSeqFacts
<1>11. eventList' \in Seq(EpollEvents)
  BY <1>8, <1>10
<1>12. PoolSound(Pool)'
  <2>1. PoolSound(Pool) /\ PoolBecomes(Pool)
    BY <1>3, PoolFields DEF ElInv, PoolBecomes
  <2> QED
    BY <2>1, PoolBecomesPool
<1>13. ASSUME NEW e \in ToSet(eventList') PROVE Known(e)'
  <2>1. e.c \in Places /\ conn'[e.c].instance = e.instance /\ conn'[e.c].fd = e.fd
    BY <1>3, <1>8, <1>10
  <2>2. reopened'[e.c] = 0
    BY <1>3, <2>1
  <2> QED
    BY <2>1, <2>2 DEF Known
<1>14. BatchKnown'
  BY <1>13 DEF BatchKnown
<1>15. BatchTypes' /\ BatchPlaced' /\ PostingIsQuiet' /\ NoStaleHandler'
  BY <1>3, <1>11 DEF ElInv, BatchTypes, BatchPlaced, PostingIsQuiet, NoStaleHandler
<1> QED
  BY <1>12, <1>14, <1>15 DEF ElInv

(* What ngx_epoll_process_events calls is a handler of the connection the   *)
(* event is about; what it posts is an event of that connection.            *)
LEMMA DeliverKeeps ==
  ASSUME ElInv, ~running, loop \in {"events", "write"},
         NEW e \in ToSet(eventList), ~IsStale(e), NEW ev \in Halves,
         Deliver(e, ev)
  PROVE  /\ PoolSound(Pool)' /\ NoStaleHandler'
         /\ running' \in BOOLEAN /\ (post => ~running')
         /\ \A d \in Places : conn'[d].fd = conn[d].fd /\ conn'[d].instance = conn[d].instance
<1>1. /\ e.c \in Places /\ Known(e) /\ reopened[e.c] \in Nat
  BY EventInBatch DEF ElInv, BatchKnown, BatchTypes
<1>2. conn[e.c].fd # 0 /\ conn[e.c].instance = e.instance
  BY DEF IsStale
<1>3. reopened[e.c] < 2 => conn[e.c].fd = e.fd
  <2>1. reopened[e.c] # 1
    BY <1>1, <1>2, Zenon DEF Known
  <2>2. reopened[e.c] = 0 => conn[e.c].fd = e.fd
    BY <1>1, <1>2 DEF Known
  <2> QED
    BY <1>1, <2>1, <2>2
<1>4. PoolSound(Pool) /\ e.c \in OpenIn(Pool)
  BY <1>1, <1>2, PoolFields DEF ElInv, OpenPlaces
<1>5. CASE ev \in e.revents /\ conn[e.c].active /\ post
  <2> DEFINE z == Posted(Pool, e.c, ev, Pool.conn[e.c].fd)
  <2>1. conn[e.c].fd = e.fd
    BY <1>1, <1>3, <1>5 DEF ElInv, PostingIsQuiet
  <2>2. PoolBecomes(z) /\ UNCHANGED <<running, stale>>
    BY <1>5, <2>1, PoolFields DEF Deliver
  <2>3. /\ PoolSound(z)
        /\ \A d \in Places : z.conn[d].fd = Pool.conn[d].fd
                             /\ z.conn[d].instance = Pool.conn[d].instance
    BY <1>4, PostedKeepsPool
  <2> HIDE DEF z
  <2>4. PoolSound(Pool)' /\ conn' = z.conn
    BY <2>2, <2>3, PoolBecomesPool
  <2> QED
    BY <2>2, <2>3, <2>4, PoolFields DEF ElInv, BatchTypes, NoStaleHandler
<1>6. CASE ~(ev \in e.revents /\ conn[e.c].active /\ post)
  <2>1. /\ UNCHANGED <<conn, freeConns, reusableQ, postedQ>>
        /\ UNCHANGED <<running, stale>> \/ (Call(e.c, e.fd) /\ ~post)
    BY <1>6 DEF Deliver
  <2>2. PoolSound(Pool)'
    <3>1. PoolBecomes(Pool)
      BY <2>1, PoolFields DEF PoolBecomes
    <3> QED
      BY <1>4, <3>1, PoolBecomesPool
  <2>3. NoStaleHandler'
    BY <1>3, <2>1 DEF ElInv, NoStaleHandler, Call
  <2>4. running' \in BOOLEAN /\ (post => ~running')
    <3>1. running' = running \/ (running' = TRUE /\ ~post)
      BY <2>1 DEF Call
    <3>2. running = FALSE
      BY DEF ElInv, BatchTypes
    <3>3. running' = FALSE \/ (running' = TRUE /\ ~post)
      BY <3>1, <3>2
    <3> QED
      BY <3>3
  <2> QED
    BY <2>1, <2>2, <2>3, <2>4
<1> QED
  BY <1>5, <1>6

LEMMA BatchStep ==
  ASSUME ElInv, loop \in {"events", "write"}, PoolSound(Pool)', NoStaleHandler',
         running' \in BOOLEAN, post => ~running',
         \A d \in Places : conn'[d].fd = conn[d].fd /\ conn'[d].instance = conn[d].instance,
         eventList # <<>>,
         \/ eventList' = Tail(eventList) /\ loop' = "events"
         \/ eventList' = eventList /\ loop' = "write",
         UNCHANGED <<post, opens, reopened>>
  PROVE  ElInv'
<1>1. eventList \in Seq(EpollEvents)
  BY DEF ElInv, BatchTypes
<1>2. eventList' \in Seq(EpollEvents) /\ ToSet(eventList') \subseteq ToSet(eventList)
  <2>1. /\ Tail(eventList) \in Seq(EpollEvents)
        /\ ToSet(eventList) = {Head(eventList)} \cup ToSet(Tail(eventList))
    BY <1>1, TailFacts
  <2>2. CASE eventList' = Tail(eventList)
    BY <2>1, <2>2
  <2>3. CASE eventList' = eventList
    BY <1>1, <2>3
  <2> QED
    BY <2>2, <2>3
<1>3. ASSUME NEW e \in ToSet(eventList') PROVE Known(e)'
  <2>1. e \in ToSet(eventList)
    BY <1>2
  <2>2. e.c \in Places /\ Known(e)
    BY <2>1, EventInBatch DEF ElInv, BatchKnown
  <2> QED
    BY <2>2 DEF Known
<1>4. BatchKnown'
  BY <1>3 DEF BatchKnown
<1>5. BatchTypes' /\ BatchPlaced' /\ PostingIsQuiet'
  BY <1>2 DEF ElInv, BatchTypes, BatchPlaced, PostingIsQuiet
<1> QED
  BY <1>4, <1>5 DEF ElInv

LEMMA UnchangedPool ==
  ASSUME PoolSound(Pool), UNCHANGED <<conn, freeConns, reusableQ, postedQ>>
  PROVE  PoolSound(Pool)'
<1>1. PoolBecomes(Pool)
  BY PoolFields DEF PoolBecomes
<1> QED
  BY <1>1, PoolBecomesPool

LEMMA HeadInBatch ==
  ASSUME ElInv, eventList # <<>>
  PROVE  Head(eventList) \in ToSet(eventList)
BY TailFacts DEF ElInv, BatchTypes

LEMMA ReadPartStep ==
  ASSUME ElInv, ReadPart
  PROVE  ElInv'
<1>1. /\ loop = "events" /\ ~running /\ eventList # <<>>
      /\ UNCHANGED <<post, opens, reopened>>
  BY DEF ReadPart
<1>2. CASE IsStale(Head(eventList))
  <2>1. /\ eventList' = Tail(eventList) /\ loop' = "events"
        /\ UNCHANGED <<conn, freeConns, reusableQ, postedQ, running, stale>>
    BY <1>1, <1>2 DEF ReadPart
  <2>2. PoolSound(Pool)' /\ NoStaleHandler' /\ running' \in BOOLEAN /\ ~running'
    BY <1>1, <2>1, UnchangedPool DEF ElInv, NoStaleHandler, BatchTypes
  <2> QED
    BY <1>1, <2>1, <2>2, BatchStep
<1>3. CASE ~IsStale(Head(eventList))
  <2>1. Deliver(Head(eventList), "read") /\ loop' = "write" /\ eventList' = eventList
    BY <1>3 DEF ReadPart
  <2>2. Head(eventList) \in ToSet(eventList) /\ "read" \in Halves
    BY <1>1, HeadInBatch DEF Halves
  <2>3. /\ PoolSound(Pool)' /\ NoStaleHandler'
        /\ running' \in BOOLEAN /\ (post => ~running')
        /\ \A d \in Places : conn'[d].fd = conn[d].fd /\ conn'[d].instance = conn[d].instance
    BY <1>1, <1>3, <2>1, <2>2, DeliverKeeps
  <2> QED
    BY <1>1, <2>1, <2>3, BatchStep
<1> QED
  BY <1>2, <1>3

LEMMA WritePartStep ==
  ASSUME ElInv, WritePart
  PROVE  ElInv'
<1>1. /\ loop = "write" /\ ~running /\ eventList # <<>>
      /\ UNCHANGED <<post, opens, reopened>>
      /\ eventList' = Tail(eventList) /\ loop' = "events"
  BY DEF WritePart, ElInv, BatchPlaced
<1>2. CASE IsStale(Head(eventList))
  <2>1. UNCHANGED <<conn, freeConns, reusableQ, postedQ, running, stale>>
    BY <1>2 DEF WritePart
  <2>2. PoolSound(Pool)' /\ NoStaleHandler' /\ running' \in BOOLEAN /\ ~running'
    BY <1>1, <2>1, UnchangedPool DEF ElInv, NoStaleHandler, BatchTypes
  <2> QED
    BY <1>1, <2>1, <2>2, BatchStep
<1>3. CASE ~IsStale(Head(eventList))
  <2>1. Deliver(Head(eventList), "write")
    BY <1>3 DEF WritePart
  <2>2. Head(eventList) \in ToSet(eventList) /\ "write" \in Halves
    BY <1>1, HeadInBatch DEF Halves
  <2>3. /\ PoolSound(Pool)' /\ NoStaleHandler'
        /\ running' \in BOOLEAN /\ (post => ~running')
        /\ \A d \in Places : conn'[d].fd = conn[d].fd /\ conn'[d].instance = conn[d].instance
    BY <1>1, <1>3, <2>1, <2>2, DeliverKeeps
  <2> QED
    BY <1>1, <2>3, BatchStep
<1> QED
  BY <1>2, <1>3

(* ngx_event_process_posted: a posted event is of the connection that has   *)
(* the place now.                                                           *)
LEMMA ProcessPostedStep ==
  ASSUME ElInv, ngx_event_process_posted
  PROVE  ElInv'
<1>1. /\ loop = "posted" /\ ~running
      /\ UNCHANGED <<freeConns, reusableQ, eventList, post, opens, reopened>>
  BY DEF ngx_event_process_posted
<1>2. eventList = <<>>
  BY <1>1 DEF ElInv, BatchPlaced
<1>3. BatchKnown'
  BY <1>1, <1>2 DEF BatchKnown, ToSet
<1>4. PoolSound(Pool)
  BY DEF ElInv
<1>5. CASE postedQ = <<>>
  <2>1. loop' = "idle" /\ UNCHANGED <<conn, postedQ, running, stale>>
    BY <1>5 DEF ngx_event_process_posted
  <2>2. PoolSound(Pool)'
    BY <1>1, <1>4, <2>1, UnchangedPool
  <2>3. BatchTypes' /\ BatchPlaced' /\ PostingIsQuiet' /\ NoStaleHandler'
    BY <1>1, <1>2, <2>1 DEF ElInv, BatchTypes, BatchPlaced, PostingIsQuiet, NoStaleHandler
  <2> QED
    BY <1>3, <2>2, <2>3 DEF ElInv
<1>6. CASE postedQ # <<>>
  <2> DEFINE x == Head(postedQ)
             k == x.c
  <2>1. /\ conn' = [conn EXCEPT ![k].posted = @ \ {x.ev}]
        /\ postedQ' = Tail(postedQ)
        /\ Call(k, x.fd)
        /\ loop' = loop
    BY <1>6 DEF ngx_event_process_posted
  <2>2. /\ conn \in [Places -> Connection] /\ postedQ \in Seq(PostedEvents)
        /\ Keyed(postedQ)
        /\ \A e \in ToSet(postedQ) :
             e.ev \in conn[e.c].posted /\ e.fd = conn[e.c].fd /\ e.fd # 0
        /\ \A c \in Places : \A ev \in conn[c].posted :
             \E e \in ToSet(postedQ) : e.c = c /\ e.ev = ev
    BY <1>4, PoolUnfolded
  <2>3. x \in ToSet(postedQ) /\ x = postedQ[1] /\ Tail(postedQ) \in Seq(PostedEvents)
    BY <1>6, <2>2, TailFacts
  <2>4. k \in Places /\ conn[k].fd = x.fd
    BY <1>4, <2>2, <2>3, PostedInQueue, PoolFields DEF PoolSound
  <2>5. Keyed(postedQ') /\ postedQ' \in Seq(PostedEvents)
        /\ ToSet(postedQ') = {e \in ToSet(postedQ) : ~(e.c = k /\ e.ev = x.ev)}
    BY <1>6, <2>1, <2>2, <2>3, TailKeyed
  <2> DEFINE ev == x.ev
  <2>6. ToSet(postedQ') = {e \in ToSet(postedQ) : ~(e.c = k /\ e.ev = ev)}
    BY <2>5
  <2>7. conn' = [conn EXCEPT ![k].posted = @ \ {ev}]
    BY <2>1
  <2>8. running' = TRUE /\ stale' = (stale \/ (conn[k].fd # x.fd /\ (reopened[k] < 2 \/ loop = "posted")))
    BY <2>1 DEF Call
  <2> HIDE DEF x, k, ev
  <2>9. /\ conn' \in [Places -> Connection]
        /\ conn'[k].posted = conn[k].posted \ {ev}
        /\ \A d \in Places : conn'[d].fd = conn[d].fd /\ conn'[d].reusable = conn[d].reusable
        /\ \A d \in Places \ {k} : conn'[d] = conn[d]
    <3>1. conn'[k] = [conn[k] EXCEPT !.posted = conn[k].posted \ {ev}]
          /\ conn' = [d \in Places |-> conn'[d]]
          /\ conn[k] \in Connection
          /\ \A d \in Places \ {k} : conn'[d] = conn[d] /\ conn[d] \in Connection
      BY <2>2, <2>4, <2>7
    <3> DEFINE ps == conn[k].posted \ {ev}
               old == conn[k]
               new == conn'[k]
    <3>2. ps \in SUBSET Halves /\ old \in Connection /\ new = [old EXCEPT !.posted = ps]
      BY <3>1 DEF Connection
    <3> HIDE DEF ps, old, new
    <3>3. new \in Connection /\ new.fd = old.fd /\ new.reusable = old.reusable /\ new.posted = ps
      BY <3>2, UnpostedConnection
    <3> USE DEF ps, old, new
    <3>4. \A d \in Places : conn'[d] \in Connection
      BY <3>1, <3>3
    <3>5. conn' \in [Places -> Connection]
      BY <3>1, <3>4
    <3> QED
      BY <3>1, <3>3, <3>5, Zenon DEF ps
  <2>10. OpenPlaces' = OpenPlaces
    BY <2>9 DEF OpenPlaces
  <2>11. {d \in OpenPlaces' : conn'[d].reusable} = {d \in OpenPlaces : conn[d].reusable}
    BY <2>9, <2>10 DEF OpenPlaces
  <2>12. ASSUME NEW e \in ToSet(postedQ')
         PROVE  e.ev \in conn'[e.c].posted /\ e.fd = conn'[e.c].fd /\ e.fd # 0
    <3>1. e \in ToSet(postedQ) /\ ~(e.c = k /\ e.ev = ev)
      BY <2>6
    <3>2. e.c \in Places
      BY <1>4, <3>1, PostedInQueue, PoolFields DEF PoolSound
    <3> QED
      BY <2>2, <2>9, <3>1, <3>2
  <2>13. ASSUME NEW d \in Places, NEW f \in conn'[d].posted
         PROVE  \E e \in ToSet(postedQ') : e.c = d /\ e.ev = f
    <3>1. f \in conn[d].posted /\ ~(d = k /\ f = ev)
      BY <2>9, <2>13
    <3> QED
      BY <2>2, <2>6, <3>1
  <2>14. PoolSound(Pool)'
    <3>1. /\ freeConns' \in Seq(Places) /\ IsInjective(freeConns')
          /\ ToSet(freeConns') = Places \ OpenPlaces'
      BY <1>1, <1>4, <2>10, PoolUnfolded
    <3>2. /\ reusableQ' \in Seq(Places) /\ IsInjective(reusableQ')
          /\ ToSet(reusableQ') = {d \in OpenPlaces' : conn'[d].reusable}
      BY <1>1, <1>4, <2>11, PoolUnfolded
    <3> QED
      BY <2>5, <2>9, <2>12, <2>13, <3>1, <3>2, PoolFolded
  <2>15. BatchTypes' /\ BatchPlaced' /\ PostingIsQuiet'
    BY <1>1, <1>2, <2>1, <2>8 DEF ElInv, BatchTypes, BatchPlaced, PostingIsQuiet
  <2>16. NoStaleHandler'
    BY <2>4, <2>8 DEF ElInv, NoStaleHandler
  <2> QED
    BY <1>3, <2>14, <2>15, <2>16 DEF ElInv
<1> QED
  BY <1>5, <1>6

-----------------------------------------------------------------------------
LEMMA ElInvInit ==
  ASSUME ElInit
  PROVE  ElInv
<1>1. /\ conn = [c \in Places |-> Closed0] /\ freeConns = SetToSeq(Places)
      /\ reusableQ = <<>> /\ postedQ = <<>> /\ eventList = <<>>
  BY DEF ElInit
<1>2. /\ freeConns \in Seq(Places) /\ IsInjective(freeConns) /\ ToSet(freeConns) = Places
  BY <1>1, SetToSeqFacts, EventLoopAssumption
<1>3. Closed0 \in Connection /\ Closed0.fd = 0 /\ Closed0.posted = {}
  BY DEF Closed0, Connection, Halves
<1>4. conn \in [Places -> Connection] /\ OpenPlaces = {}
      /\ \A c \in Places : conn[c].posted = {}
  BY <1>1, <1>3 DEF OpenPlaces
<1>5. reusableQ \in Seq(Places) /\ postedQ \in Seq(PostedEvents)
      /\ IsInjective(reusableQ) /\ ToSet(reusableQ) = {} /\ ToSet(postedQ) = {} /\ Keyed(postedQ)
  BY <1>1 DEF IsInjective, ToSet, Keyed
<1>6. PoolSound(Pool)
  <2>1. PoolTypes(Pool)
    BY <1>2, <1>4, <1>5 DEF PoolTypes, Pool
  <2> QED
    BY <1>2, <1>4, <1>5, <2>1, PoolFields DEF PoolSound, FreeSound, ReusableSound, PostedSound
<1>7. BatchTypes /\ BatchPlaced /\ PostingIsQuiet /\ NoStaleHandler
  <2>1. eventList \in Seq(EpollEvents) /\ reopened \in [Places -> Nat]
    BY DEF ElInit
  <2>2. /\ loop = "idle" /\ running = FALSE /\ post = FALSE /\ opens = 0 /\ stale = FALSE
    BY DEF ElInit
  <2> QED
    BY <1>1, <2>1, <2>2 DEF BatchTypes, BatchPlaced, PostingIsQuiet, NoStaleHandler
<1>8. ToSet(eventList) = {}
  BY <1>1 DEF ToSet
<1>9. BatchKnown
  BY <1>8 DEF BatchKnown
<1> QED
  BY <1>6, <1>7, <1>9 DEF ElInv

LEMMA ElInvStep ==
  ASSUME ElInv, [ElNext]_elVars
  PROVE  ElInv'
<1>1. CASE ElNext
  <2>1. CASE \E c \in Places :
               \/ Close(c)
               \/ ngx_epoll_add_connection(c)
               \/ \E b \in BOOLEAN : ngx_reusable_connection(c, b)
               \/ \E ev \in {"read", "write"} : PostEvent(c, ev)
    BY <2>1, CloseStep, AddConnectionStep, ReusableStep, PostEventStep, Zenon
  <2> QED
    BY <1>1, <2>1, GetConnectionStep, ReturnStep, EpollWaitStep, ReadPartStep, WritePartStep,
       TimersExpireStep, ProcessPostedStep DEF ElNext
<1>2. CASE UNCHANGED elVars
  <2>1. UNCHANGED <<conn, freeConns, reusableQ, eventList, postedQ, loop, running, post, opens,
                    reopened, stale>>
    BY <1>2 DEF elVars
  <2>2. PoolSound(Pool)'
    BY <2>1, UnchangedPool DEF ElInv
  <2>3. BatchKnown'
    BY <2>1 DEF ElInv, BatchKnown, Known
  <2>4. BatchTypes' /\ BatchPlaced' /\ PostingIsQuiet' /\ NoStaleHandler'
    BY <2>1 DEF ElInv, BatchTypes, BatchPlaced, PostingIsQuiet, NoStaleHandler
  <2> QED
    BY <2>2, <2>3, <2>4 DEF ElInv
<1> QED
  BY <1>1, <1>2

(* As many events are queued as are marked posted.                          *)
LEMMA PostedAreCounted ==
  ASSUME PoolSound(Pool)
  PROVE  Len(postedQ) = Cardinality({p \in Places \X {"read", "write"} :
                                       p[2] \in conn[p[1]].posted})
<1> DEFINE P == {p \in Places \X {"read", "write"} : p[2] \in conn[p[1]].posted}
           f == [i \in 1..Len(postedQ) |-> <<postedQ[i].c, postedQ[i].ev>>]
           n == Len(postedQ)
           D == 1..n
<1>1. /\ conn \in [Places -> Connection] /\ postedQ \in Seq(PostedEvents) /\ Keyed(postedQ)
      /\ \A e \in ToSet(postedQ) : e.ev \in conn[e.c].posted
      /\ \A c \in Places : \A ev \in conn[c].posted :
           \E e \in ToSet(postedQ) : e.c = c /\ e.ev = ev
  BY PoolUnfolded
<1>2. DOMAIN postedQ = 1..Len(postedQ) /\ Len(postedQ) \in Nat
  BY <1>1
<1>3. \A i \in 1..Len(postedQ) : /\ postedQ[i].c \in Places /\ postedQ[i].ev \in Halves
                                 /\ postedQ[i].ev \in conn[postedQ[i].c].posted
  BY <1>1, <1>2, PostedInQueue, PoolFields DEF PoolSound, ToSet
<1>4. f \in [1..Len(postedQ) -> P]
  BY <1>3 DEF Halves
<1>5. \A i, j \in 1..Len(postedQ) : f[i] = f[j] => i = j
  BY <1>1, <1>2 DEF Keyed
<1>6. \A p \in P : \E i \in 1..Len(postedQ) : f[i] = p
  <2> SUFFICES ASSUME NEW c \in Places, NEW ev \in conn[c].posted
               PROVE  \E i \in 1..Len(postedQ) : postedQ[i].c = c /\ postedQ[i].ev = ev
    OBVIOUS
  <2> QED
    BY <1>1, <1>2 DEF ToSet
<1>7. f \in [D -> P] /\ (\A i, j \in D : f[i] = f[j] => i = j) /\ \A p \in P : \E i \in D : f[i] = p
  BY <1>4, <1>5, <1>6
<1>8. IsFiniteSet(D) /\ Cardinality(D) = n
  <2>1. n \in Nat
    BY <1>2
  <2> HIDE DEF n
  <2> QED
    BY <2>1, FS_Interval
<1> HIDE DEF f, P, D
<1>9. ExistsBijection(D, P)
  <2>1. f \in Injection(D, P)
    BY <1>7 DEF Injection, IsInjective
  <2>2. f \in Surjection(D, P)
    BY <1>7 DEF Surjection
  <2> QED
    BY <2>1, <2>2 DEF Bijection, ExistsBijection
<1>10. Cardinality(P) = Cardinality(D)
  BY <1>8, <1>9, FS_Bijection
<1> QED
  BY <1>8, <1>10 DEF P, n

(* Whatever handlers open, close and post, an event that epoll_wait returned *)
(* or that was posted reaches the connection it is about or none, and the   *)
(* free list, the queue of reusable connections and the queue of posted     *)
(* events hold exactly what the connections say: ngx_get_connection,        *)
(* ngx_close_connection, ngx_epoll_process_events, ngx_event_process_posted. *)
THEOREM EventsReachTheirConnections == ElSpec => []EventsReachTheirOwn
<1>1. ElInit => ElInv
  BY ElInvInit
<1>2. ElInv /\ [ElNext]_elVars => ElInv'
  BY ElInvStep
<1>3. ElInv => EventsReachTheirOwn
  <2> SUFFICES ASSUME ElInv PROVE PoolAccounted /\ NoStaleHandler
    BY DEF EventsReachTheirOwn
  <2>1. PoolSound(Pool) /\ NoStaleHandler
    BY DEF ElInv
  <2>2. \A i \in 1..Len(postedQ) : postedQ[i].fd = conn[postedQ[i].c].fd /\ postedQ[i].fd # 0
    BY <2>1, PoolUnfolded DEF ToSet
  <2> QED
    BY <2>1, <2>2, PoolUnfolded, PostedAreCounted DEF PoolAccounted
<1> QED
  BY <1>1, <1>2, <1>3, PTL DEF ElSpec

-----------------------------------------------------------------------------
(* Timers.  Times that wrap: the sign of a wrapped difference is that of    *)
(* the true one, as long as that is within half the range.                  *)

Half == Range2 \div 2

LEMMA RangeFacts ==
  /\ Range2 \in Nat \ {0} /\ Half \in Nat /\ Range2 = 2 * Half
  /\ LazyDelay \in Nat \ {0} /\ MaxLate \in Nat /\ Delays \subseteq Nat
  /\ \A d \in Delays : d \in Nat /\ d + MaxLate + LazyDelay < Half
BY TimersAssumption DEF Half

LEMMA ModFacts ==
  ASSUME NEW m \in Nat \ {0}, NEW x \in Int
  PROVE  x % m \in 0..(m - 1) /\ x \div m \in Int /\ x = m * (x \div m) + (x % m)
OBVIOUS

LEMMA ModUnique ==
  ASSUME NEW m \in Nat \ {0}, NEW q \in Int, NEW r \in 0..(m - 1),
         NEW p \in Int, NEW s \in 0..(m - 1), m * q + r = m * p + s
  PROVE  r = s
<1>1. ASSUME NEW a \in Int, NEW b \in Int, a > b
      PROVE  m * a - m * b >= m
  <2>1. a - b \in Int /\ a - b >= 1
    BY <1>1
  <2>2. m * (a - b) >= m
    BY <2>1
  <2>3. m * (a - b) = m * a - m * b
    OBVIOUS
  <2> QED
    BY <2>2, <2>3
<1>2. CASE q = p
  BY <1>2
<1>3. CASE q > p
  BY <1>1, <1>3
<1>4. CASE q < p
  BY <1>1, <1>4
<1> QED
  BY <1>2, <1>3, <1>4

LEMMA Distributes ==
  ASSUME NEW m \in Nat \ {0}, NEW a \in Int, NEW b \in Int
  PROVE  m * (a - b) = m * a - m * b
OBVIOUS

LEMMA ModIs ==
  ASSUME NEW m \in Nat \ {0}, NEW q \in Int, NEW r \in 0..(m - 1), NEW x \in Int, x = m * q + r
  PROVE  x % m = r
BY ModFacts, ModUnique

LEMMA ModPlus ==
  ASSUME NEW m \in Nat \ {0}, NEW x \in Int, NEW y \in Int
  PROVE  ((x % m) + y) % m = (x + y) % m
<1> DEFINE a == x \div m
           r == x % m
           b == (r + y) \div m
           s == (r + y) % m
<1>1. a \in Int /\ r \in Int /\ x = m * a + r
  BY ModFacts
<1>2. b \in Int /\ s \in 0..(m - 1) /\ r + y = m * b + s
  BY <1>1, ModFacts
<1> HIDE DEF a, b, r, s
<1> DEFINE w == x + y
           k == a + b
<1>3. k \in Int /\ m * k = m * a + m * b /\ w \in Int
  BY <1>1, <1>2
<1>4. w = m * k + s
  BY <1>1, <1>2, <1>3
<1> HIDE DEF w, k
<1>5. w % m = s
  BY <1>2, <1>3, <1>4, ModIs
<1> QED
  BY <1>5 DEF r, s, w

(* What SignedDiff gives, and that it is the true difference.               *)
LEMMA SignedDiffFacts ==
  ASSUME NEW a \in Int, NEW b \in Int
  PROVE  /\ SignedDiff(a, b) \in (-Half)..(Half - 1)
         /\ \E q \in Int : a - b = Range2 * q + SignedDiff(a, b)
<1> DEFINE w == a - b
           d == w % Range2
           q == w \div Range2
<1>0. w \in Int
  OBVIOUS
<1>2. SignedDiff(a, b) = IF d < Half THEN d ELSE d - Range2
  BY DEF SignedDiff, Half
<1> HIDE DEF w
<1>1. d \in 0..(Range2 - 1) /\ q \in Int /\ w = Range2 * q + d
  BY <1>0, RangeFacts, ModFacts
<1> HIDE DEF d, q
<1>3. Range2 * (q + 1) = Range2 * q + Range2 /\ q + 1 \in Int
  BY <1>1, RangeFacts
<1>4. CASE d < Half
  <2>1. SignedDiff(a, b) = d /\ d \in (-Half)..(Half - 1)
    BY <1>1, <1>2, <1>4, RangeFacts
  <2> QED
    BY <1>1, <2>1 DEF w
<1>5. CASE ~(d < Half)
  <2>1. SignedDiff(a, b) = d - Range2
    BY <1>2, <1>5
  <2>2. d - Range2 \in (-Half)..(Half - 1)
    BY <1>1, <1>5, RangeFacts
  <2>3. w = Range2 * (q + 1) + (d - Range2)
    BY <1>1, <1>3, RangeFacts
  <2> QED
    BY <1>3, <2>1, <2>2, <2>3 DEF w
<1> QED
  BY <1>4, <1>5

LEMMA SignedDiffIs ==
  ASSUME NEW x \in Int, NEW y \in Int, -Half <= x - y, x - y < Half
  PROVE  SignedDiff(x % Range2, y % Range2) = x - y
<1> DEFINE m == Range2
           a == x % m
           b == y % m
           i == x \div m
           j == y \div m
           d == (a - b) % m
           z == x - y
<1>1. m \in Nat \ {0} /\ m = 2 * Half /\ Half \in Nat
  BY RangeFacts
<1>2. SignedDiff(a, b) = IF d < Half THEN d ELSE d - m
  BY DEF SignedDiff, Half
<1> HIDE DEF m
<1>3. /\ a \in Int /\ i \in Int /\ x = m * i + a
      /\ b \in Int /\ j \in Int /\ y = m * j + b
  <2>1. x % m \in 0..(m - 1) /\ x \div m \in Int /\ x = m * (x \div m) + (x % m)
    BY <1>1, ModFacts
  <2>2. y % m \in 0..(m - 1) /\ y \div m \in Int /\ y = m * (y \div m) + (y % m)
    BY <1>1, ModFacts
  <2> QED
    BY <1>1, <2>1, <2>2
<1> HIDE DEF a, b, i, j
<1>4. /\ j - i \in Int /\ m * (j - i) = m * j - m * i
      /\ (j - i) - 1 \in Int /\ m * ((j - i) - 1) = m * (j - i) - m
  <2>1. j - i \in Int /\ (j - i) - 1 \in Int /\ 1 \in Int /\ m * 1 = m
    BY <1>3, <1>1
  <2>2. m * (j - i) = m * j - m * i
    BY <1>3, <1>1, Distributes
  <2> DEFINE c == j - i
  <2>3. m * (c - 1) = m * c - m * 1
    BY <1>1, <2>1, Distributes
  <2> QED
    BY <2>1, <2>2, <2>3
<1>5. m * i \in Int /\ m * j \in Int
  BY <1>3, <1>1
<1> DEFINE w == a - b
           k == j - i
           l == (j - i) - 1
<1>6. w \in Int
  BY <1>3
<1> HIDE DEF w, k, l
<1>7. CASE z >= 0
  <2>1. z \in 0..(m - 1) /\ z < Half
    BY <1>1, <1>7
  <2>2. w = m * k + z /\ k \in Int
    BY <1>3, <1>4, <1>5 DEF w, k
  <2> HIDE DEF z
  <2>3. w % m = z
    BY <1>1, <1>6, <2>1, <2>2, ModIs
  <2> QED
    BY <1>2, <2>1, <2>3 DEF w, z, a, b, m
<1>8. CASE z < 0
  <2>1. z + m \in 0..(m - 1) /\ ~(z + m < Half) /\ (z + m) - m = z
    BY <1>1, <1>8
  <2> DEFINE s == z + m
  <2>2. w = m * l + s /\ l \in Int /\ s \in 0..(m - 1)
    BY <1>3, <1>1, <1>4, <1>5, <2>1 DEF w, l
  <2> HIDE DEF s
  <2>3. w % m = s
    BY <1>1, <1>6, <2>2, ModIs
  <2> QED
    BY <1>2, <2>1, <2>3 DEF w, s, a, b, m
<1> QED
  BY <1>7, <1>8

-----------------------------------------------------------------------------
(* The time a key stands for: the one near the clock.  The keys of the      *)
(* timers that are set lie around the clock, no later than their timer was  *)
(* asked for but for the lazy delay and no earlier than the process may be  *)
(* late, so that all of them are within half the range of each other; the   *)
(* tree is in the order of these times.                                     *)
Time(e) == clock + SignedDiff(tmKey[e], ngx_current_msec)

Asked(e) == \E d \in Delays : tmDue[e] <= clock + d
Near(e) == tmDue[e] - LazyDelay < Time(e) /\ Time(e) < tmDue[e] + LazyDelay
NotLate(e) == clock <= Time(e) + MaxLate /\ (tmPhase = "run" => clock <= Time(e))
Timely(e) == Asked(e) /\ Near(e) /\ NotLate(e)
Sorted == \A i, j \in DOMAIN tmTree : i < j => Time(tmTree[i]) <= Time(tmTree[j])

TmTypes ==
  /\ clock \in Nat
  /\ tmTree \in Seq(TimerEvents) /\ IsInjective(tmTree)
  /\ tmKey \in [TimerEvents -> 0..(Range2 - 1)]
  /\ tmDue \in [TimerEvents -> Nat]

TmInv == TmTypes /\ (\A e \in InTree : Timely(e)) /\ Sorted

LEMMA TimeFacts ==
  ASSUME TmTypes, NEW e \in TimerEvents
  PROVE  /\ Time(e) \in Int /\ -Half <= Time(e) - clock /\ Time(e) - clock < Half
         /\ Time(e) % Range2 = tmKey[e]
<1> DEFINE k == tmKey[e]
           b == clock % Range2
           s == SignedDiff(k, b)
           i == clock \div Range2
<1>1. k \in 0..(Range2 - 1) /\ k \in Int /\ clock \in Int
  BY RangeFacts DEF TmTypes
<1>2. b \in Int /\ i \in Int /\ clock = Range2 * i + b
  <2>1. b \in 0..(Range2 - 1) /\ i \in Int /\ clock = Range2 * i + b
    BY <1>1, RangeFacts, ModFacts
  <2> HIDE DEF b, i
  <2> QED
    BY <2>1, RangeFacts
<1>3. Time(e) = clock + s
  BY DEF Time, ngx_current_msec
<1> HIDE DEF k, b, i
<1>4. s \in (-Half)..(Half - 1) /\ \E q \in Int : k - b = Range2 * q + s
  BY <1>1, <1>2, SignedDiffFacts
<1>5. PICK q \in Int : k - b = Range2 * q + s
  BY <1>4
<1> HIDE DEF s
<1> DEFINE x == clock + s
           n == i - q
<1>6. n \in Int /\ Range2 * n = Range2 * i - Range2 * q
  BY <1>2, RangeFacts, Distributes
<1>7. x \in Int /\ -Half <= x - clock /\ x - clock < Half
  BY <1>1, <1>4, RangeFacts
<1>8. x = Range2 * n + k
  <2>1. Range2 * i \in Int /\ Range2 * q \in Int
    BY <1>2, RangeFacts
  <2> QED
    BY <1>1, <1>2, <1>4, <1>5, <1>6, <2>1, RangeFacts
<1> HIDE DEF x, n
<1>9. x % Range2 = k
  BY <1>1, <1>6, <1>7, <1>8, RangeFacts, ModIs
<1> QED
  BY <1>3, <1>7, <1>9 DEF x, k

(* The time of a key that is near the clock.                                *)
LEMMA TimeIs ==
  ASSUME NEW c \in Int, NEW x \in Int, -Half <= x - c, x - c < Half
  PROVE  c + SignedDiff(x % Range2, c % Range2) = x
<1>1. SignedDiff(x % Range2, c % Range2) = x - c
  BY SignedDiffIs
<1> QED
  BY <1>1

LEMMA TimelyFacts ==
  ASSUME TmTypes, NEW e \in TimerEvents, Timely(e)
  PROVE  \E d \in Delays : /\ d \in Nat /\ d + MaxLate + LazyDelay < Half
                           /\ Time(e) < clock + d + LazyDelay
                           /\ clock <= Time(e) + MaxLate
<1>1. PICK d \in Delays : tmDue[e] <= clock + d
  BY DEF Timely, Asked
<1>2. d \in Nat /\ d + MaxLate + LazyDelay < Half /\ LazyDelay \in Nat
  BY RangeFacts
<1>3. Time(e) \in Int /\ clock \in Nat /\ tmDue[e] \in Nat
  BY TimeFacts DEF TmTypes
<1>4. Time(e) < tmDue[e] + LazyDelay /\ clock <= Time(e) + MaxLate
  BY DEF Timely, Near, NotLate
<1>5. Time(e) < clock + d + LazyDelay
  BY <1>1, <1>2, <1>3, <1>4
<1> QED
  BY <1>2, <1>4, <1>5

(* An event put in the tree behind the first n.                             *)
Inserted(q, n, x) == SubSeq(q, 1, n) \o <<x>> \o SubSeq(q, n + 1, Len(q))

IsInserted(q, n, x, r) ==
  /\ DOMAIN r = 1..(Len(q) + 1) /\ r[n + 1] = x
  /\ \A i \in 1..n : r[i] = q[i]
  /\ \A i \in (n + 1)..Len(q) : r[i + 1] = q[i]

LEMMA InsertFacts ==
  ASSUME NEW S, NEW q \in Seq(S), NEW n \in 0..Len(q), NEW x \in S
  PROVE  Inserted(q, n, x) \in Seq(S) /\ IsInserted(q, n, x, Inserted(q, n, x))
<1> DEFINE a == SubSeq(q, 1, n)
           z == SubSeq(q, n + 1, Len(q))
           l == Len(q)
           y == a \o <<x>>
           r == Inserted(q, n, x)
<1>1. l \in Nat /\ n \in Int /\ 0 <= n /\ n <= l /\ \A i \in 1..l : q[i] \in S
  OBVIOUS
<1>2. /\ a \in Seq(S) /\ Len(a) = n
      /\ \A i \in 1..n : a[i] = q[i]
  <2>1. \A i \in 1..n : q[i] \in S
    BY <1>1
  <2>2. /\ a \in Seq(S) /\ Len(a) = IF 1 <= n THEN n - 1 + 1 ELSE 0
        /\ \A i \in 1..(n - 1 + 1) : a[i] = q[1 + i - 1]
    BY <1>1, <2>1, SubSeqProperties
  <2> QED
    BY <1>1, <2>2
<1>3. /\ z \in Seq(S) /\ Len(z) = l - n
      /\ \A i \in 1..(l - n) : z[i] = q[n + i]
  <2>1. \A i \in (n + 1)..l : q[i] \in S
    BY <1>1
  <2>2. /\ z \in Seq(S) /\ Len(z) = IF n + 1 <= l THEN l - (n + 1) + 1 ELSE 0
        /\ \A i \in 1..(l - (n + 1) + 1) : z[i] = q[(n + 1) + i - 1]
    BY <1>1, <2>1, SubSeqProperties
  <2>3. Len(z) = l - n
    BY <1>1, <2>2
  <2>4. ASSUME NEW i \in 1..(l - n) PROVE z[i] = q[n + i]
    <3>1. i \in 1..(l - (n + 1) + 1) /\ (n + 1) + i - 1 = n + i
      BY <1>1
    <3>2. z[i] = q[(n + 1) + i - 1]
      BY <2>2, <3>1
    <3> HIDE DEF z
    <3> QED
      BY <3>1, <3>2
  <2> QED
    BY <2>2, <2>3, <2>4
<1>4. <<x>> \in Seq(S) /\ Len(<<x>>) = 1 /\ <<x>>[1] = x
  OBVIOUS
<1> HIDE DEF a, z, l
<1>5. /\ y \in Seq(S) /\ Len(y) = n + 1
      /\ \A i \in 1..(n + 1) : y[i] = IF i <= n THEN a[i] ELSE <<x>>[i - n]
  BY <1>2, <1>4, ConcatProperties
<1>6. r = y \o z
  BY DEF a, z, l, Inserted
<1> HIDE DEF y, r
<1>7. /\ r \in Seq(S) /\ Len(r) = (n + 1) + (l - n)
      /\ \A i \in 1..((n + 1) + (l - n)) : r[i] = IF i <= n + 1 THEN y[i] ELSE z[i - (n + 1)]
  <2>1. /\ y \o z \in Seq(S) /\ Len(y \o z) = Len(y) + Len(z)
        /\ \A i \in 1..(Len(y) + Len(z)) :
             (y \o z)[i] = IF i <= Len(y) THEN y[i] ELSE z[i - Len(y)]
    BY <1>3, <1>5, ConcatProperties
  <2> QED
    BY <1>3, <1>5, <1>6, <2>1
<1>8. DOMAIN r = 1..(l + 1)
  BY <1>1, <1>7
<1>9. \A i \in 1..((n + 1) + (l - n)) : r[i] = IF i <= n + 1 THEN y[i] ELSE z[i - (n + 1)]
  BY <1>7
<1>10. r[n + 1] = x
  <2>1. n + 1 \in 1..((n + 1) + (l - n)) /\ n + 1 \in 1..(n + 1) /\ ~(n + 1 <= n) /\ (n + 1) - n = 1
    BY <1>1
  <2>2. r[n + 1] = y[n + 1] /\ y[n + 1] = <<x>>[(n + 1) - n]
    BY <1>5, <1>9, <2>1
  <2> QED
    BY <1>4, <2>1, <2>2
<1>11. ASSUME NEW i \in 1..n PROVE r[i] = q[i]
  <2>1. i \in 1..((n + 1) + (l - n)) /\ i \in 1..(n + 1) /\ i <= n /\ i <= n + 1
    BY <1>1
  <2>2. r[i] = y[i] /\ y[i] = a[i]
    BY <1>5, <1>9, <2>1
  <2> QED
    BY <1>2, <2>2
<1>12. ASSUME NEW i \in (n + 1)..l PROVE r[i + 1] = q[i]
  <2> DEFINE k == i - n
  <2>1. /\ i + 1 \in 1..((n + 1) + (l - n)) /\ ~(i + 1 <= n + 1)
        /\ (i + 1) - (n + 1) = k /\ k \in 1..(l - n) /\ n + k = i
    BY <1>1
  <2>2. r[i + 1] = z[(i + 1) - (n + 1)]
    BY <1>9, <2>1
  <2>3. z[k] = q[n + k]
    BY <1>3, <2>1
  <2> QED
    BY <2>1, <2>2, <2>3
<1> QED
  BY <1>7, <1>8, <1>10, <1>11, <1>12 DEF l, r, IsInserted

(* A set of places that has all the places before each of its places.       *)
LEMMA InitialPlaces ==
  ASSUME NEW l \in Nat, NEW B \in SUBSET (1..l), \A i, j \in 1..l : i <= j /\ j \in B => i \in B
  PROVE  Cardinality(B) \in 0..l /\ B = 1..Cardinality(B)
<1> DEFINE n == Cardinality(B)
<1>1. IsFiniteSet(1..l) /\ Cardinality(1..l) = l
  BY FS_Interval
<1>2. IsFiniteSet(B) /\ n <= l /\ n \in Nat
  BY <1>1, FS_Subset, FS_CardinalityType
<1>3. ASSUME NEW j \in B PROVE j \in 1..n
  <2>1. 1..j \subseteq B /\ j \in Nat \ {0}
    OBVIOUS
  <2>2. Cardinality(1..j) = j
    BY <2>1, FS_Interval
  <2>3. j <= n
    BY <1>2, <2>1, <2>2, FS_Subset
  <2> QED
    BY <1>2, <2>1, <2>3
<1> HIDE DEF n
<1>4. IsFiniteSet(1..n) /\ Cardinality(1..n) = n
  BY <1>2, FS_Interval
<1>5. B = 1..n
  BY <1>3, <1>4, FS_Subset DEF n
<1> QED
  BY <1>2, <1>5 DEF n

-----------------------------------------------------------------------------
LEMMA TreeFacts ==
  ASSUME TmInv
  PROVE  /\ DOMAIN tmTree = 1..Len(tmTree) /\ Len(tmTree) \in Nat
         /\ \A i \in DOMAIN tmTree : tmTree[i] \in TimerEvents /\ tmTree[i] \in InTree
         /\ \A e \in InTree : e \in TimerEvents /\ Time(e) \in Int /\ Timely(e)
         /\ clock \in Nat /\ \A e \in TimerEvents : tmDue[e] \in Nat
<1>1. tmTree \in Seq(TimerEvents) /\ clock \in Nat /\ \A e \in TimerEvents : tmDue[e] \in Nat
  BY DEF TmInv, TmTypes
<1>2. DOMAIN tmTree = 1..Len(tmTree) /\ Len(tmTree) \in Nat
      /\ \A i \in DOMAIN tmTree : tmTree[i] \in TimerEvents
  BY <1>1
<1>3. \A i \in DOMAIN tmTree : tmTree[i] \in InTree
  BY DEF InTree, ToSet
<1>4. \A e \in InTree : e \in TimerEvents
  BY <1>2 DEF InTree, ToSet
<1>5. \A e \in InTree : Time(e) \in Int /\ Timely(e)
  BY <1>4, TimeFacts DEF TmInv
<1> QED
  BY <1>1, <1>2, <1>3, <1>4, <1>5

(* A new time against the times of the timers that are set.                 *)
LEMMA NewDiff ==
  ASSUME TmInv, NEW d \in Delays, NEW f \in InTree
  PROVE  SignedDiff((ngx_current_msec + d) % Range2, tmKey[f]) = (clock + d) - Time(f)
<1>1. clock \in Nat /\ d \in Nat /\ f \in TimerEvents /\ Time(f) \in Int /\ Timely(f) /\ TmTypes
  BY TreeFacts, RangeFacts DEF TmInv
<1>2. PICK b \in Delays : /\ b \in Nat /\ b + MaxLate + LazyDelay < Half
                          /\ Time(f) < clock + b + LazyDelay
                          /\ clock <= Time(f) + MaxLate
  BY <1>1, TimelyFacts
<1>3. d + MaxLate + LazyDelay < Half /\ MaxLate \in Nat /\ LazyDelay \in Nat /\ Half \in Nat
  BY RangeFacts
<1> DEFINE x == clock + d
           y == Time(f)
<1>4. x \in Int /\ y \in Int /\ -Half <= x - y /\ x - y < Half
  BY <1>1, <1>2, <1>3
<1>5. (ngx_current_msec + d) % Range2 = x % Range2
  <2>1. Range2 \in Nat \ {0} /\ clock \in Int /\ d \in Int
    BY <1>1, RangeFacts
  <2>2. ((clock % Range2) + d) % Range2 = (clock + d) % Range2
    BY <2>1, ModPlus, Zenon
  <2> QED
    BY <2>2 DEF ngx_current_msec
<1>6. y % Range2 = tmKey[f]
  BY <1>1, TimeFacts
<1> HIDE DEF x, y
<1>7. SignedDiff(x % Range2, y % Range2) = x - y
  BY <1>4, SignedDiffIs
<1> QED
  BY <1>5, <1>6, <1>7 DEF x, y

(* The timers that are left when one is taken out.                          *)
LEMMA RemovedFacts ==
  ASSUME TmInv, NEW e
  PROVE  /\ Removed(e) \in Seq(TimerEvents) /\ IsInjective(Removed(e))
         /\ ToSet(Removed(e)) = InTree \ {e}
         /\ \A i \in DOMAIN Removed(e) : Removed(e)[i] \in InTree \ {e}
         /\ \A i, j \in DOMAIN Removed(e) : i < j => Time(Removed(e)[i]) <= Time(Removed(e)[j])
<1>1. tmTree \in Seq(TimerEvents) /\ IsInjective(tmTree) /\ Sorted
  BY DEF TmInv, TmTypes
<1> DEFINE r == RemoveFirst(tmTree, e)
<1>2. r \in Seq(TimerEvents) /\ IsInjective(r) /\ ToSet(r) = InTree \ {e}
  BY <1>1, RemoveFirstFacts DEF InTree
<1>3. \A i \in DOMAIN r : r[i] \in InTree \ {e}
  BY <1>2 DEF ToSet
<1>4. ASSUME NEW i \in DOMAIN r, NEW j \in DOMAIN r, i < j
      PROVE  Time(r[i]) <= Time(r[j])
  <2>1. PICK a \in DOMAIN tmTree, b \in DOMAIN tmTree : a < b /\ r[i] = tmTree[a] /\ r[j] = tmTree[b]
    BY <1>1, <1>4, RemoveFirstOrder
  <2> QED
    BY <1>1, <2>1 DEF Sorted
<1> QED
  BY <1>2, <1>3, <1>4 DEF Removed

LEMMA DeleteStep ==
  ASSUME TmInv, NEW e \in TimerEvents, ngx_event_del_timer(e)
  PROVE  TmInv'
<1>1. tmTree' = Removed(e) /\ UNCHANGED <<clock, tmKey, tmDue, tmPhase>>
  BY DEF ngx_event_del_timer
<1>2. TmTypes'
  BY <1>1, RemovedFacts DEF TmInv, TmTypes
<1>3. \A f : /\ Time(f)' = Time(f)
             /\ Timely(f)' <=> Timely(f)
  BY <1>1 DEF Time, ngx_current_msec, Timely, Asked, Near, NotLate
<1>4. \A f \in InTree' : f \in InTree
  BY <1>1, RemovedFacts DEF InTree
<1>5. \A f \in InTree' : Timely(f)'
  BY <1>3, <1>4 DEF TmInv
<1>6. Sorted'
  BY <1>1, <1>3, RemovedFacts DEF Sorted
<1> QED
  BY <1>2, <1>5, <1>6 DEF TmInv

(* ngx_event_add_timer of a timer that is set and stays where it is.        *)
LEMMA KeepStep ==
  ASSUME TmInv, NEW e \in InTree, NEW d \in Delays,
         LET diff == SignedDiff((ngx_current_msec + d) % Range2, tmKey[e])
         IN  diff < LazyDelay /\ -diff < LazyDelay,
         tmDue' = [tmDue EXCEPT ![e] = clock + d], UNCHANGED <<clock, tmKey, tmTree, tmPhase>>
  PROVE  TmInv'
<1>1. /\ e \in TimerEvents /\ Time(e) \in Int /\ clock \in Nat /\ d \in Nat
      /\ LazyDelay \in Nat /\ Timely(e)
  BY TreeFacts, RangeFacts
<1>2. (clock + d) - Time(e) < LazyDelay /\ -((clock + d) - Time(e)) < LazyDelay
  BY NewDiff
<1>3. \A f : Time(f)' = Time(f)
  BY DEF Time, ngx_current_msec
<1>4. tmDue' \in [TimerEvents -> Nat] /\ tmDue'[e] = clock + d
      /\ \A f \in TimerEvents \ {e} : tmDue'[f] = tmDue[f]
  BY <1>1 DEF TmInv, TmTypes
<1>5. TmTypes'
  BY <1>4 DEF TmInv, TmTypes
<1>6. ASSUME NEW f \in InTree PROVE Timely(f)'
  <2>1. f \in TimerEvents /\ Timely(f)
    BY TreeFacts
  <2>2. NotLate(f)'
    BY <1>3, <2>1 DEF Timely, NotLate
  <2>3. CASE f # e
    BY <1>3, <1>4, <2>1, <2>2, <2>3 DEF Timely, Asked, Near
  <2>4. CASE f = e
    <3>1. tmDue'[e] = clock + d /\ tmDue'[e] - LazyDelay < Time(e)
          /\ Time(e) < tmDue'[e] + LazyDelay
      BY <1>1, <1>2, <1>4
    <3>2. Near(e)'
      BY <1>3, <3>1 DEF Near
    <3>3. Asked(e)'
      <4>1. tmDue'[e] <= clock' + d
        BY <1>1, <3>1
      <4> QED
        BY <4>1 DEF Asked
    <3> QED
      BY <2>2, <2>4, <3>2, <3>3 DEF Timely
  <2> QED
    BY <2>3, <2>4
<1>7. InTree' = InTree /\ Sorted'
  BY <1>3 DEF InTree, Sorted, TmInv
<1> QED
  BY <1>5, <1>6, <1>7 DEF TmInv

(* An event put behind those that are not later keeps the order.            *)
InOrder(t, q) == \A i, j \in DOMAIN q : i < j => t[q[i]] <= t[q[j]]
Splits(t, q, n, e) == \A i \in DOMAIN q : i <= n <=> t[q[i]] <= t[e]
Absent(q, e) == \A i \in DOMAIN q : q[i] # e

LEMMA InsertSorted ==
  ASSUME NEW S, NEW q \in Seq(S), IsInjective(q), NEW e \in S,
         NEW t \in [S -> Int], NEW n \in 0..Len(q), NEW r, IsInserted(q, n, e, r),
         Absent(q, e), InOrder(t, q), Splits(t, q, n, e)
  PROVE  /\ IsInjective(r)
         /\ \A f \in ToSet(r) : f = e \/ f \in ToSet(q)
         /\ InOrder(t, r)
<1> DEFINE l == Len(q)
           p == [i \in 1..(l + 1) |-> IF i <= n THEN i ELSE i - 1]
<1>1. /\ l \in Nat /\ n \in Int /\ 0 <= n /\ n <= l /\ DOMAIN q = 1..l
      /\ \A i \in 1..l : q[i] \in S
  OBVIOUS
<1>2. /\ DOMAIN r = 1..(l + 1) /\ r[n + 1] = e
      /\ \A i \in 1..n : r[i] = q[i]
      /\ \A i \in (n + 1)..l : r[i + 1] = q[i]
  BY DEF IsInserted
<1> HIDE DEF l
<1>3. ASSUME NEW i \in 1..(l + 1), i # n + 1
      PROVE  p[i] \in 1..l /\ r[i] = q[p[i]] /\ (p[i] <= n <=> i < n + 1)
  <2>1. CASE i <= n
    <3>1. i \in 1..n /\ p[i] = i
      BY <1>1, <2>1
    <3> QED
      BY <1>1, <1>2, <2>1, <3>1
  <2>2. CASE ~(i <= n)
    <3>1. i - 1 \in (n + 1)..l /\ (i - 1) + 1 = i /\ p[i] = i - 1
      BY <1>1, <1>3, <2>2
    <3> DEFINE k == i - 1
    <3>2. k \in (n + 1)..l /\ k + 1 = i
      BY <3>1
    <3> HIDE DEF k
    <3>3. r[i] = q[k]
      BY <1>2, <3>2
    <3> QED
      BY <1>1, <2>2, <3>1, <3>3 DEF k
  <2> QED
    BY <2>1, <2>2
<1>4. ASSUME NEW i \in 1..(l + 1), NEW j \in 1..(l + 1), i # n + 1, j # n + 1, i < j
      PROVE  p[i] < p[j]
  BY <1>1, <1>4
<1>5. n + 1 \in 1..(l + 1)
  BY <1>1
<1> HIDE DEF p
<1>6. ASSUME NEW i \in 1..(l + 1), NEW j \in 1..(l + 1), r[i] = r[j], i < j
      PROVE  FALSE
  <2>1. CASE i = n + 1
    <3>1. j # n + 1
      BY <1>1, <1>6, <2>1
    <3>2. p[j] \in 1..l /\ q[p[j]] = e
      BY <1>2, <1>3, <1>6, <2>1, <3>1
    <3> QED
      BY <1>1, <3>2 DEF Absent
  <2>2. CASE j = n + 1
    <3>1. i # n + 1
      BY <1>1, <1>6, <2>2
    <3>2. p[i] \in 1..l /\ q[p[i]] = e
      BY <1>2, <1>3, <1>6, <2>2, <3>1
    <3> QED
      BY <1>1, <3>2 DEF Absent
  <2>3. CASE i # n + 1 /\ j # n + 1
    <3>1. p[i] \in 1..l /\ p[j] \in 1..l /\ q[p[i]] = q[p[j]]
      BY <1>3, <1>6, <2>3
    <3>2. p[i] = p[j]
      BY <1>1, <3>1 DEF IsInjective
    <3>3. p[i] < p[j]
      BY <1>4, <1>6, <2>3
    <3> QED
      BY <1>1, <3>1, <3>2, <3>3
  <2> QED
    BY <2>1, <2>2, <2>3
<1>7. IsInjective(r)
  <2>1. ASSUME NEW i \in 1..(l + 1), NEW j \in 1..(l + 1), r[i] = r[j] PROVE i = j
    <3>1. ~(i < j) /\ ~(j < i)
      BY <1>6, <2>1
    <3> QED
      BY <1>1, <3>1
  <2> QED
    BY <1>2, <2>1 DEF IsInjective
<1>8. ASSUME NEW i \in 1..(l + 1) PROVE r[i] = e \/ r[i] \in ToSet(q)
  <2>1. CASE i = n + 1
    BY <1>2, <2>1
  <2>2. CASE i # n + 1
    <3>1. p[i] \in DOMAIN q /\ r[i] = q[p[i]]
      BY <1>1, <1>3, <2>2
    <3> QED
      BY <3>1 DEF ToSet
  <2> QED
    BY <2>1, <2>2
<1>9. \A f \in ToSet(r) : f = e \/ f \in ToSet(q)
  BY <1>2, <1>8 DEF ToSet
<1>10. /\ t[e] \in Int
       /\ \A a \in 1..l : t[q[a]] \in Int /\ (a <= n <=> t[q[a]] <= t[e])
  <2>1. t[e] \in Int /\ \A a \in 1..l : t[q[a]] \in Int
    BY <1>1
  <2>2. \A a \in 1..l : a <= n <=> t[q[a]] <= t[e]
    BY <1>1 DEF Splits
  <2> QED
    BY <2>1, <2>2
<1>11. ASSUME NEW i \in 1..(l + 1), NEW j \in 1..(l + 1), i < j
       PROVE  t[r[i]] <= t[r[j]]
  <2>1. CASE i = n + 1
    <3>1. j # n + 1 /\ ~(j < n + 1)
      BY <1>1, <1>11, <2>1
    <3>2. p[j] \in 1..l /\ r[j] = q[p[j]] /\ ~(p[j] <= n)
      BY <1>3, <3>1
    <3>3. t[e] \in Int /\ t[q[p[j]]] \in Int /\ ~(t[q[p[j]]] <= t[e])
      BY <1>10, <3>2
    <3>4. t[e] <= t[q[p[j]]]
      BY <3>3
    <3> QED
      BY <1>2, <2>1, <3>2, <3>4
  <2>2. CASE j = n + 1
    <3>1. i # n + 1 /\ i < n + 1
      BY <1>1, <1>11, <2>2
    <3>2. p[i] \in 1..l /\ r[i] = q[p[i]] /\ p[i] <= n
      BY <1>3, <3>1
    <3>3. t[q[p[i]]] <= t[e]
      BY <1>10, <3>2
    <3> QED
      BY <1>2, <2>2, <3>2, <3>3
  <2>3. CASE i # n + 1 /\ j # n + 1
    <3>1. p[i] \in DOMAIN q /\ r[i] = q[p[i]] /\ p[j] \in DOMAIN q /\ r[j] = q[p[j]]
      BY <1>1, <1>3, <2>3
    <3>2. p[i] < p[j]
      BY <1>4, <1>11, <2>3
    <3> QED
      BY <3>1, <3>2 DEF InOrder
  <2> QED
    BY <2>1, <2>2, <2>3
<1>12. InOrder(t, r)
  BY <1>2, <1>11 DEF InOrder
<1> QED
  BY <1>7, <1>9, <1>12

(* And of one that is put where its new time belongs.                       *)
LEMMA MoveStep ==
  ASSUME TmInv, NEW e \in TimerEvents, NEW d \in Delays, NEW key,
         key = (ngx_current_msec + d) % Range2,
         tmKey' = [tmKey EXCEPT ![e] = key],
         tmTree' = ngx_rbtree_insert_timer_value(Removed(e), e, key),
         tmDue' = [tmDue EXCEPT ![e] = clock + d], UNCHANGED <<clock, tmPhase>>
  PROVE  TmInv'
<1> DEFINE q == Removed(e)
           x == clock + d
           l == Len(q)
           before == {i \in 1..l : SignedDiff(key, tmKey[q[i]]) >= 0}
           n == Cardinality(before)
<1>1. /\ clock \in Nat /\ d \in Nat /\ x \in Nat /\ d < Half /\ Half \in Nat
      /\ LazyDelay \in Nat \ {0}
  BY TreeFacts, RangeFacts
<1>2. /\ q \in Seq(TimerEvents) /\ IsInjective(q) /\ ToSet(q) = InTree \ {e}
      /\ \A i \in DOMAIN q : q[i] \in InTree \ {e}
      /\ \A i, j \in DOMAIN q : i < j => Time(q[i]) <= Time(q[j])
  BY RemovedFacts
<1>3. tmTree' = Inserted(q, n, e)
  BY DEF ngx_rbtree_insert_timer_value, Inserted
<1>4. key = x % Range2 /\ key \in 0..(Range2 - 1)
  <2>1. Range2 \in Nat \ {0} /\ clock \in Int /\ d \in Int
    BY <1>1, RangeFacts
  <2>2. ((clock % Range2) + d) % Range2 = (clock + d) % Range2
    BY <2>1, ModPlus, Zenon
  <2>3. key = x % Range2
    BY <2>2 DEF ngx_current_msec
  <2> HIDE DEF x
  <2>4. x \in Int
    BY <1>1
  <2>5. x % Range2 \in 0..(Range2 - 1)
    BY <2>1, <2>4, ModFacts
  <2> QED
    BY <2>3, <2>5
<1>5. \A f \in InTree : SignedDiff(key, tmKey[f]) = x - Time(f)
  BY NewDiff
<1> HIDE DEF q, x, l
<1>6. /\ l \in Nat /\ DOMAIN q = 1..l
      /\ \A i \in 1..l : /\ q[i] \in InTree /\ q[i] # e /\ Time(q[i]) \in Int
                         /\ i \in before <=> Time(q[i]) <= x
  <2>1. l \in Nat /\ DOMAIN q = 1..l
    BY <1>2 DEF l
  <2>2. ASSUME NEW i \in 1..l
        PROVE  /\ q[i] \in InTree /\ q[i] # e /\ Time(q[i]) \in Int
               /\ i \in before <=> Time(q[i]) <= x
    <3>1. q[i] \in InTree /\ q[i] # e /\ Time(q[i]) \in Int
      BY <1>2, <2>1, TreeFacts
    <3>2. SignedDiff(key, tmKey[q[i]]) = x - Time(q[i])
      BY <1>5, <3>1
    <3>3. SignedDiff(key, tmKey[q[i]]) >= 0 <=> Time(q[i]) <= x
      BY <1>1, <3>1, <3>2
    <3> QED
      BY <3>1, <3>3
  <2> QED
    BY <2>1, <2>2
<1>7. before \in SUBSET (1..l)
  OBVIOUS
<1> HIDE DEF before
<1>8. \A i, j \in 1..l : i <= j /\ j \in before => i \in before
  <2> SUFFICES ASSUME NEW i \in 1..l, NEW j \in 1..l, i <= j, j \in before
               PROVE  i \in before
    OBVIOUS
  <2>1. i = j \/ i < j
    BY <1>6
  <2>2. Time(q[i]) <= Time(q[j])
    BY <1>2, <1>6, <2>1
  <2> QED
    BY <1>1, <1>6, <2>2
<1>9. n \in 0..l /\ before = 1..n
  BY <1>6, <1>7, <1>8, InitialPlaces
<1> HIDE DEF n
<1>10. tmKey' \in [TimerEvents -> 0..(Range2 - 1)] /\ tmKey'[e] = key
       /\ \A f \in TimerEvents \ {e} : tmKey'[f] = tmKey[f]
  BY <1>4 DEF TmInv, TmTypes
<1>11. tmDue' \in [TimerEvents -> Nat] /\ tmDue'[e] = x
       /\ \A f \in TimerEvents \ {e} : tmDue'[f] = tmDue[f]
  BY <1>1 DEF TmInv, TmTypes, x
<1> DEFINE t == [f \in TimerEvents |-> IF f = e THEN x ELSE Time(f)]
<1>12. Time(e)' = x
  <2>1. x \in Int /\ clock \in Int /\ -Half <= x - clock /\ x - clock < Half
    BY <1>1 DEF x
  <2>2. clock + SignedDiff(x % Range2, clock % Range2) = x
    BY <2>1, TimeIs
  <2>3. Time(e)' = clock + SignedDiff(key, clock % Range2)
    BY <1>10 DEF Time, ngx_current_msec
  <2> QED
    BY <1>4, <2>2, <2>3
<1>13. \A f \in TimerEvents \ {e} : Time(f)' = Time(f)
  BY <1>10 DEF Time, ngx_current_msec
<1>14. t \in [TimerEvents -> Int] /\ t[e] = x /\ \A f \in TimerEvents \ {e} : t[f] = Time(f)
  <2>1. \A f \in TimerEvents : Time(f) \in Int
    BY TimeFacts DEF TmInv
  <2> QED
    BY <1>1, <2>1
<1> HIDE DEF t
<1>15. \A f \in TimerEvents : Time(f)' = t[f]
  BY <1>12, <1>13, <1>14
<1>16. \A i \in 1..l : q[i] \in TimerEvents /\ q[i] # e /\ t[q[i]] = Time(q[i])
  BY <1>2, <1>6, <1>14
<1>17. Splits(t, q, n, e) /\ Absent(q, e)
  BY <1>6, <1>9, <1>14, <1>16 DEF Splits, Absent
<1>18. InOrder(t, q)
  BY <1>2, <1>6, <1>16 DEF InOrder
<1>19. /\ tmTree' \in Seq(TimerEvents) /\ IsInjective(tmTree')
       /\ \A f \in ToSet(tmTree') : f = e \/ f \in ToSet(q)
       /\ InOrder(t, tmTree')
  <2> DEFINE r == tmTree'
  <2>1. r = Inserted(q, n, e) /\ n \in 0..Len(q)
    BY <1>3, <1>9 DEF l
  <2> HIDE DEF r
  <2>2. r \in Seq(TimerEvents) /\ IsInserted(q, n, e, r)
    BY <1>2, <2>1, InsertFacts
  <2>3. /\ IsInjective(r)
        /\ \A f \in ToSet(r) : f = e \/ f \in ToSet(q)
        /\ InOrder(t, r)
    BY <1>2, <1>14, <1>17, <1>18, <2>1, <2>2, InsertSorted
  <2> QED
    BY <2>2, <2>3 DEF r
<1>20. TmTypes'
  BY <1>10, <1>11, <1>19 DEF TmInv, TmTypes
<1>21. Timely(e)'
  <2>1. x - LazyDelay < x /\ x < x + LazyDelay
    BY <1>1
  <2>2. Near(e)'
    BY <1>11, <1>12, <2>1 DEF Near
  <2>3. tmDue'[e] <= clock' + d
    BY <1>1, <1>11 DEF x
  <2>4. clock <= x /\ clock <= x + MaxLate
    BY <1>1, RangeFacts DEF x
  <2>5. NotLate(e)'
    BY <1>12, <2>4 DEF NotLate
  <2> QED
    BY <2>2, <2>3, <2>5 DEF Timely, Asked
<1>22. ASSUME NEW f \in InTree, f # e PROVE Timely(f)'
  <2>1. f \in TimerEvents /\ Timely(f)
    BY TreeFacts
  <2> QED
    BY <1>11, <1>13, <1>22, <2>1 DEF Timely, Asked, Near, NotLate
<1>23. \A f \in InTree' : f = e \/ (f \in InTree /\ f # e)
  BY <1>2, <1>19 DEF InTree
<1>24. Sorted'
  <2>1. \A i \in DOMAIN tmTree' : tmTree'[i] \in TimerEvents
    BY <1>19
  <2> QED
    BY <1>15, <1>19, <2>1 DEF Sorted, InOrder
<1> QED
  BY <1>20, <1>21, <1>22, <1>23, <1>24 DEF TmInv

LEMMA AddStep ==
  ASSUME TmInv, NEW e \in TimerEvents, NEW d \in Delays, ngx_event_add_timer(e, d)
  PROVE  TmInv'
<1> DEFINE key == (ngx_current_msec + d) % Range2
           diff == SignedDiff(key, tmKey[e])
<1>1. tmDue' = [tmDue EXCEPT ![e] = clock + d] /\ UNCHANGED <<clock, tmPhase>>
  BY DEF ngx_event_add_timer
<1>2. CASE timer_set(e) /\ diff < LazyDelay /\ -diff < LazyDelay
  <2>1. e \in InTree /\ UNCHANGED <<tmKey, tmTree>>
    BY <1>2 DEF ngx_event_add_timer, timer_set
  <2> QED
    BY <1>1, <1>2, <2>1, KeepStep
<1>3. CASE ~(timer_set(e) /\ diff < LazyDelay /\ -diff < LazyDelay)
  <2>1. /\ tmKey' = [tmKey EXCEPT ![e] = key]
        /\ tmTree' = ngx_rbtree_insert_timer_value(Removed(e), e, key)
    BY <1>3 DEF ngx_event_add_timer
  <2> QED
    BY <1>1, <2>1, MoveStep
<1> QED
  BY <1>2, <1>3

(* The first of the tree is the earliest.                                   *)
LEMMA FirstIsLeast ==
  ASSUME TmInv, NEW g \in InTree
  PROVE  tmTree # <<>> /\ tmTree[1] \in InTree /\ Time(tmTree[1]) <= Time(g)
<1>1. PICK i \in DOMAIN tmTree : tmTree[i] = g
  BY DEF InTree, ToSet
<1>2. /\ DOMAIN tmTree = 1..Len(tmTree) /\ Len(tmTree) \in Nat
      /\ \A k \in DOMAIN tmTree : tmTree[k] \in InTree
      /\ Time(g) \in Int
  BY TreeFacts
<1>3. 1 \in DOMAIN tmTree /\ (i = 1 \/ 1 < i) /\ tmTree # <<>>
  BY <1>1, <1>2
<1>4. CASE i = 1
  BY <1>1, <1>2, <1>3, <1>4
<1>5. CASE 1 < i
  BY <1>1, <1>2, <1>3, <1>5 DEF TmInv, Sorted
<1> QED
  BY <1>3, <1>4, <1>5

(* While the worker waits the times stay what they are.                     *)
LEMMA WaitStep ==
  ASSUME TmInv, Wait
  PROVE  TmInv'
<1>1. PICK d \in 0..MaxClock - clock :
        /\ ngx_event_find_timer >= 0 => d <= ngx_event_find_timer + MaxLate
        /\ clock' = clock + d
        /\ tmPhase' = IF clock' % Range2 = ngx_current_msec THEN "run" ELSE "expire"
  BY DEF Wait
<1>2. tmPhase = "run" /\ UNCHANGED <<tmTree, tmKey, tmDue>>
  BY DEF Wait
<1>3. clock \in Nat /\ d \in Nat /\ clock' \in Nat /\ MaxLate \in Nat /\ LazyDelay \in Nat
      /\ Half \in Nat /\ TmTypes
  <2>1. clock \in Nat /\ MaxClock \in Nat
    BY TreeFacts, TimersAssumption
  <2> QED
    BY <1>1, <2>1, RangeFacts DEF TmInv
<1>4. TmTypes'
  BY <1>2, <1>3 DEF TmTypes
<1>5. ASSUME NEW g \in InTree
      PROVE  /\ g \in TimerEvents /\ Time(g) \in Int /\ Timely(g)
             /\ Time(g)' = Time(g)
             /\ clock' <= Time(g) + MaxLate
             /\ clock <= Time(g) /\ (d < Half)
  <2> DEFINE f == tmTree[1]
             x == Time(f)
             y == Time(g)
  <2>1. g \in TimerEvents /\ y \in Int /\ Timely(g)
    BY TreeFacts
  <2>2. f \in InTree /\ tmTree # <<>> /\ x <= y
    BY FirstIsLeast
  <2>3. f \in TimerEvents /\ x \in Int /\ Timely(f) /\ clock <= x
    BY <1>2, <2>2, TreeFacts DEF Timely, NotLate
  <2>4. x = clock + SignedDiff(tmKey[f], ngx_current_msec)
        /\ SignedDiff(tmKey[f], ngx_current_msec) \in Int
    <3>1. tmKey[f] \in Int /\ ngx_current_msec \in Int
      BY <1>3, <2>3, RangeFacts, ModFacts DEF TmTypes, ngx_current_msec
    <3>2. SignedDiff(tmKey[f], ngx_current_msec) \in (-Half)..(Half - 1)
      BY <3>1, SignedDiffFacts
    <3> QED
      BY <1>3, <3>2 DEF Time
  <2>5. ngx_event_find_timer = x - clock
    <3> DEFINE s == SignedDiff(tmKey[f], ngx_current_msec)
    <3>1. ngx_event_find_timer = IF s > 0 THEN s ELSE 0
      BY <2>2 DEF ngx_event_find_timer
    <3> HIDE DEF s, f, x
    <3>2. s \in Int /\ x = clock + s /\ x \in Int /\ clock <= x
      BY <2>3, <2>4 DEF s
    <3> QED
      BY <1>3, <3>1, <3>2
  <2>6. PICK b \in Delays : /\ b \in Nat /\ b + MaxLate + LazyDelay < Half
                            /\ x < clock + b + LazyDelay
    BY <1>3, <2>3, TimelyFacts
  <2>7. -Half <= y - clock /\ y - clock < Half /\ y % Range2 = tmKey[g]
    BY <1>3, <2>1, TimeFacts
  <2> HIDE DEF f, x
  <2>8. d <= (x - clock) + MaxLate
    BY <1>1, <1>3, <2>3, <2>5
  <2>9. clock' <= y + MaxLate /\ clock <= y /\ d < Half
    BY <1>1, <1>3, <2>1, <2>2, <2>3, <2>6, <2>8
  <2>10. -Half <= y - clock' /\ y - clock' < Half
    BY <1>1, <1>3, <2>1, <2>6, <2>7, <2>9
  <2>11. Time(g)' = clock' + SignedDiff(tmKey[g], clock' % Range2)
    BY <1>2 DEF Time, ngx_current_msec
  <2> HIDE DEF y
  <2>12. clock' + SignedDiff(y % Range2, clock' % Range2) = y
    <3> DEFINE c == clock'
    <3>1. c \in Int /\ -Half <= y - c /\ y - c < Half
      BY <1>3, <2>10
    <3> HIDE DEF c
    <3>2. c + SignedDiff(y % Range2, c % Range2) = y
      BY <2>1, <3>1, TimeIs
    <3> QED
      BY <3>2 DEF c
  <2>13. Time(g)' = y
    BY <2>7, <2>11, <2>12
  <2> QED
    BY <2>1, <2>9, <2>13 DEF y
<1>6. ASSUME tmPhase' = "run", d < Half PROVE clock' = clock
  <2>1. clock' % Range2 = clock % Range2
    BY <1>1, <1>6 DEF ngx_current_msec
  <2> DEFINE c == clock'
  <2>2. c \in Int /\ -Half <= c - clock /\ c - clock < Half /\ c = clock + d
    BY <1>1, <1>3, <1>6
  <2>3. clock \in Int /\ -Half <= clock - clock /\ clock - clock < Half /\ clock - clock = 0
    BY <1>3, <1>6
  <2> HIDE DEF c
  <2>4. SignedDiff(c % Range2, clock % Range2) = c - clock
    BY <2>2, <2>3, SignedDiffIs
  <2>5. SignedDiff(clock % Range2, clock % Range2) = clock - clock
    BY <2>3, SignedDiffIs
  <2>6. c % Range2 = clock % Range2
    BY <2>1 DEF c
  <2>7. c - clock = 0
    BY <2>3, <2>4, <2>5, <2>6
  <2>8. c = clock
    BY <2>2, <2>3, <2>7
  <2> QED
    BY <2>8 DEF c
<1>7. ASSUME NEW g \in InTree PROVE Timely(g)'
  <2>1. /\ g \in TimerEvents /\ Timely(g) /\ Time(g)' = Time(g)
        /\ clock' <= Time(g) + MaxLate /\ clock <= Time(g) /\ d < Half
    BY <1>5
  <2>2. NotLate(g)'
    BY <1>6, <2>1, RangeFacts DEF NotLate
  <2>3. PICK b \in Delays : tmDue[g] <= clock + b
    BY <2>1 DEF Timely, Asked
  <2>4. tmDue[g] <= clock' + b /\ b \in Delays
    <3>1. b \in Nat /\ tmDue[g] \in Nat
      BY <2>1, RangeFacts, TreeFacts
    <3> QED
      BY <1>1, <1>3, <2>3, <3>1
  <2>5. Asked(g)'
    BY <1>2, <2>4 DEF Asked
  <2> QED
    BY <1>2, <2>1, <2>2, <2>5 DEF Timely, Near
<1>8. InTree' = InTree
  BY <1>2 DEF InTree
<1>9. Sorted'
  <2>1. \A i \in DOMAIN tmTree : Time(tmTree[i])' = Time(tmTree[i])
    <3>1. \A i \in DOMAIN tmTree : tmTree[i] \in InTree
      BY TreeFacts
    <3>2. \A g \in InTree : Time(g)' = Time(g)
      BY <1>5
    <3> QED
      BY <1>2, <3>1, <3>2
  <2> QED
    BY <1>2, <2>1 DEF TmInv, Sorted
<1> QED
  BY <1>4, <1>7, <1>8, <1>9 DEF TmInv

LEMMA DiffFacts ==
  ASSUME TmInv, NEW e \in TimerEvents
  PROVE  SignedDiff(tmKey[e], ngx_current_msec) \in Int
<1>1. tmKey[e] \in Int /\ ngx_current_msec \in Int
  BY TreeFacts, RangeFacts, ModFacts DEF TmInv, TmTypes, ngx_current_msec
<1>2. SignedDiff(tmKey[e], ngx_current_msec) \in (-Half)..(Half - 1)
  BY <1>1, SignedDiffFacts
<1> QED
  BY <1>2, RangeFacts

(* Only the tree has changed, to what is left of it.                        *)
LEMMA ExpireStep ==
  ASSUME TmInv, ngx_event_expire_timers
  PROVE  TmInv'
<1>1. tmPhase = "expire" /\ UNCHANGED <<clock, tmKey, tmDue>>
  BY DEF ngx_event_expire_timers
<1>2. \A f : Time(f)' = Time(f) /\ (Asked(f)' <=> Asked(f)) /\ (Near(f)' <=> Near(f))
  BY <1>1 DEF Time, ngx_current_msec, Asked, Near
<1>3. CASE Due
  <2>1. tmTree' = Tail(tmTree) /\ tmPhase' = tmPhase /\ tmTree # <<>>
    BY <1>3 DEF ngx_event_expire_timers, Due
  <2> DEFINE r == Tail(tmTree)
  <2>2. tmTree \in Seq(TimerEvents) /\ IsInjective(tmTree)
    BY DEF TmInv, TmTypes
  <2>3. /\ r \in Seq(TimerEvents) /\ IsInjective(r)
        /\ ToSet(r) \subseteq InTree
        /\ DOMAIN r = 1..(Len(tmTree) - 1)
        /\ \A i \in DOMAIN r : i + 1 \in DOMAIN tmTree /\ r[i] = tmTree[i + 1]
    BY <2>1, <2>2, TailFacts, TailInjective DEF InTree
  <2>4. TmTypes'
    BY <1>1, <2>1, <2>3 DEF TmInv, TmTypes
  <2>5. \A f \in InTree' : f \in InTree
    BY <2>1, <2>3 DEF InTree
  <2>6. \A f \in InTree : Timely(f)'
    BY <1>1, <1>2, <2>1 DEF TmInv, Timely, NotLate
  <2>7. ASSUME NEW i \in DOMAIN r, NEW j \in DOMAIN r, i < j
        PROVE  Time(r[i]) <= Time(r[j])
    <3>1. PICK a \in DOMAIN tmTree, b \in DOMAIN tmTree : a < b /\ r[i] = tmTree[a] /\ r[j] = tmTree[b]
      <4>1. /\ i + 1 \in DOMAIN tmTree /\ r[i] = tmTree[i + 1]
            /\ j + 1 \in DOMAIN tmTree /\ r[j] = tmTree[j + 1]
        BY <2>3
      <4>2. i + 1 < j + 1
        BY <2>3, <2>7, TreeFacts
      <4> QED
        BY <4>1, <4>2
    <3> HIDE DEF r
    <3> QED
      BY <3>1 DEF TmInv, Sorted
  <2>8. Sorted'
    BY <1>2, <2>1, <2>7 DEF Sorted
  <2> QED
    BY <2>4, <2>5, <2>6, <2>8 DEF TmInv
<1>4. CASE ~Due
  <2>1. tmTree' = tmTree
    BY <1>4 DEF ngx_event_expire_timers
  <2>2. ASSUME NEW g \in InTree PROVE clock < Time(g)
    <3>1. /\ tmTree # <<>> /\ tmTree[1] \in InTree /\ Time(tmTree[1]) <= Time(g)
          /\ Time(tmTree[1]) \in Int /\ Time(g) \in Int /\ clock \in Nat
      BY FirstIsLeast, TreeFacts
    <3> DEFINE s == SignedDiff(tmKey[tmTree[1]], ngx_current_msec)
    <3>2. s \in Int
      BY <3>1, TreeFacts, DiffFacts
    <3>3. ~(s <= 0)
      BY <1>4, <3>1 DEF Due
    <3>4. Time(tmTree[1]) = clock + s
      BY DEF Time
    <3> HIDE DEF s
    <3> QED
      BY <3>1, <3>2, <3>3, <3>4
  <2>3. InTree' = InTree
    BY <2>1 DEF InTree
  <2>4. ASSUME NEW g \in InTree PROVE Timely(g)'
    <3>1. Timely(g) /\ clock < Time(g) /\ Time(g) \in Int /\ clock \in Nat
      BY <2>2, TreeFacts
    <3>2. NotLate(g)'
      BY <1>1, <1>2, <3>1 DEF Timely, NotLate
    <3> QED
      BY <1>2, <3>1, <3>2 DEF Timely
  <2>5. TmTypes'
    BY <1>1, <2>1 DEF TmInv, TmTypes
  <2>6. Sorted'
    BY <1>2, <2>1 DEF TmInv, Sorted
  <2> QED
    BY <2>3, <2>4, <2>5, <2>6 DEF TmInv
<1> QED
  BY <1>3, <1>4

LEMMA TmInvInit == TmInit => TmInv
<1> SUFFICES ASSUME TmInit PROVE TmInv
  OBVIOUS
<1>1. clock = 0 /\ tmTree = <<>>
  BY DEF TmInit
<1>2. 0 \in 0..(Range2 - 1)
  BY RangeFacts
<1>3. TmTypes
  BY <1>2 DEF TmInit, TmTypes, IsInjective
<1>4. InTree = {} /\ Sorted
  BY <1>1 DEF InTree, ToSet, Sorted
<1> QED
  BY <1>3, <1>4 DEF TmInv

LEMMA TmInvStep == TmInv /\ [TmNext]_tmVars => TmInv'
<1> SUFFICES ASSUME TmInv, [TmNext]_tmVars PROVE TmInv'
  OBVIOUS
<1>1. ASSUME NEW e \in TimerEvents, NEW d \in Delays, ngx_event_add_timer(e, d) PROVE TmInv'
  BY <1>1, AddStep
<1>2. ASSUME NEW e \in TimerEvents, ngx_event_del_timer(e) PROVE TmInv'
  BY <1>2, DeleteStep
<1>3. CASE Wait
  BY <1>3, WaitStep
<1>4. CASE ngx_event_expire_timers
  BY <1>4, ExpireStep
<1>5. CASE UNCHANGED tmVars
  BY <1>5 DEF tmVars, TmInv, TmTypes, Sorted, InTree, Timely, Asked, Near, NotLate, Time,
              ngx_current_msec
<1> QED
  BY <1>1, <1>2, <1>3, <1>4, <1>5 DEF TmNext

(* What the first of the tree is due at, and what no timer is left with.    *)
InTime ==
  /\ tmPhase = "expire" /\ Due => tmDue[tmTree[1]] < clock + LazyDelay
  /\ tmPhase = "expire" /\ tmPhase' = "run" => \A e \in InTree : clock < tmDue[e] + LazyDelay

LEMMA StepInTime == TmInv /\ [TmNext]_tmVars => InTime
<1> SUFFICES ASSUME TmInv, [TmNext]_tmVars PROVE InTime
  OBVIOUS
<1>1. ASSUME NEW e \in InTree
      PROVE  /\ Time(e) = clock + SignedDiff(tmKey[e], ngx_current_msec)
             /\ SignedDiff(tmKey[e], ngx_current_msec) \in Int
             /\ tmDue[e] - LazyDelay < Time(e) /\ Time(e) < tmDue[e] + LazyDelay
             /\ Time(e) \in Int /\ clock \in Nat /\ LazyDelay \in Nat /\ tmDue[e] \in Nat
  <2>1. e \in TimerEvents /\ Timely(e) /\ Time(e) \in Int /\ clock \in Nat /\ tmDue[e] \in Nat
    BY TreeFacts
  <2>2. SignedDiff(tmKey[e], ngx_current_msec) \in Int
    BY <2>1, DiffFacts
  <2> QED
    BY <2>1, <2>2, RangeFacts DEF Time, Timely, Near
<1>2. ASSUME Due PROVE tmDue[tmTree[1]] < clock + LazyDelay
  <2> DEFINE e == tmTree[1]
             s == SignedDiff(tmKey[e], ngx_current_msec)
  <2>1. e \in InTree /\ s <= 0
    <3>1. tmTree # <<>> /\ s <= 0
      BY <1>2 DEF Due
    <3>2. 1 \in DOMAIN tmTree
      BY <3>1, TreeFacts DEF TmInv, TmTypes
    <3> QED
      BY <3>1, <3>2, TreeFacts
  <2>2. /\ Time(e) = clock + s /\ s \in Int /\ tmDue[e] - LazyDelay < Time(e)
        /\ Time(e) \in Int /\ clock \in Nat /\ LazyDelay \in Nat /\ tmDue[e] \in Nat
    BY <1>1, <2>1
  <2> HIDE DEF e, s
  <2>3. tmDue[e] < clock + LazyDelay
    BY <2>1, <2>2
  <2> QED
    BY <2>3 DEF e
<1>3. ASSUME tmPhase = "expire", tmPhase' = "run", NEW e \in InTree
      PROVE  clock < tmDue[e] + LazyDelay
  <2>1. ngx_event_expire_timers /\ ~Due /\ tmTree' = tmTree /\ clock' = clock
    BY <1>3 DEF TmNext, tmVars, ngx_event_add_timer, ngx_event_del_timer, Wait,
                ngx_event_expire_timers
  <2>2. TmInv'
    BY TmInvStep
  <2>3. Time(e)' = Time(e) /\ e \in InTree'
    BY <2>1 DEF ngx_event_expire_timers, Time, ngx_current_msec, InTree
  <2>4. clock <= Time(e)
    <3>1. NotLate(e)'
      BY <2>2, <2>3 DEF TmInv, Timely
    <3> QED
      BY <1>3, <2>1, <2>3, <3>1 DEF NotLate
  <2> QED
    BY <1>1, <2>4
<1> QED
  BY <1>2, <1>3 DEF InTime

(* ngx_event_expire_timers and ngx_event_find_timer: however the timers are *)
(* set, moved and deleted, and across every wrap of ngx_current_msec, a     *)
(* timer fires neither early nor, once the timers have been looked at, late *)
(* by more than the lazy delay.                                             *)
THEOREM TimersFireInTime == TmSpec => TimersInTime
<1>1. TmInit => TmInv
  BY TmInvInit
<1>2. TmInv /\ [TmNext]_tmVars => TmInv'
  BY TmInvStep
<1>3. TmInv /\ [TmNext]_tmVars => [InTime]_tmVars
  BY StepInTime
<1>4. TmSpec => [][InTime]_tmVars
  BY <1>1, <1>2, <1>3, PTL DEF TmSpec
<1> QED
  BY <1>4 DEF InTime, TimersInTime
=============================================================================
