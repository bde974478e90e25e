----------------------------- MODULE AcceptMutex -----------------------------
(***************************************************************************)
(* How the workers share the listening sockets when accept_mutex is on:     *)
(* the event loop iteration of src/event/ngx_event.c                        *)
(* (ngx_process_events_and_timers), src/event/ngx_event_accept.c and the    *)
(* part of src/core/ngx_connection.c they use.                              *)
(*                                                                          *)
(* The mutex itself is the one MutexSpec promises (Shmtx implements it).    *)
(* Listening events are level triggered (epoll), sockets with reuseport are *)
(* left out, and the non-accept events of a worker are the nondeterminism   *)
(* of PollOther and Work.                                                   *)
(***************************************************************************)
EXTENDS Integers

CONSTANTS
  Workers,       \* worker processes
  NoPid,         \* nobody
  Sockets,       \* the listening sockets of the cycle
  Connections,   \* connections a worker may have besides the listening ones
  Eighth,        \* connection_n / 8
  MultiAccept,   \* the multi_accept directive
  MaxArrivals,   \* bound: connections that arrive
  MaxEmfile,     \* bound: accept() calls failing with EMFILE or ENFILE
  MaxFaults,     \* bound: failing ngx_add_event and ngx_del_event calls
  MaxCrashes,    \* bound: workers that die
  MaxQuits       \* bound: workers told to quit

ASSUME AcceptMutexAssumption ==
  /\ NoPid \notin Workers
  /\ Connections \in Nat /\ Eighth \in Nat
  /\ MultiAccept \in BOOLEAN
  /\ {MaxArrivals, MaxEmfile, MaxFaults, MaxCrashes, MaxQuits} \subseteq Nat

VARIABLES
  mutex,         \* owner of ngx_accept_mutex
  dead,          \* workers that died and are not reaped yet
  pc,            \* where a worker is in its loop
  held,          \* ngx_accept_mutex_held
  disabled,      \* ngx_accept_disabled
  armed,         \* listening sockets whose read event is active
  mode,          \* how this iteration polls, see Modes
  todo,          \* listening sockets reported ready, not handled yet
  free,          \* free_connection_n
  backlog,       \* connections waiting in each listening socket's queue
  count          \* how much of each bound is used up

worker == <<pc, held, disabled, armed, mode, todo, free>>
vars == <<mutex, dead, worker, backlog, count>>

M == INSTANCE MutexSpec WITH owner <- mutex

(* post: NGX_POST_EVENTS is set, accept events are queued and run after the *)
(* poll.  capped: the timer is at most accept_mutex_delay.  plain: the      *)
(* mutex was not asked for, because of ngx_accept_disabled.                 *)
Modes == {"post", "capped", "plain"}

Goto(w, l) == pc' = [pc EXCEPT ![w] = l]

Use(bound, max) ==
  /\ count[bound] < max
  /\ count' = [count EXCEPT ![bound] = @ + 1]

Init ==
  /\ M!Init
  /\ pc = [w \in Workers |-> "top"]
  /\ held = [w \in Workers |-> FALSE]
  /\ disabled = [w \in Workers |-> 0]
  /\ armed = [w \in Workers |-> {}]
  /\ mode = [w \in Workers |-> "plain"]
  /\ todo = [w \in Workers |-> {}]
  /\ free = [w \in Workers |-> Connections]
  /\ backlog = [s \in Sockets |-> 0]
  /\ count = [arrivals |-> 0, emfile |-> 0, faults |-> 0, crashes |-> 0, quits |-> 0]

(* A client's connection is established by the kernel.                      *)
Arrive(s) ==
  /\ Use("arrivals", MaxArrivals)
  /\ backlog' = [backlog EXCEPT ![s] = @ + 1]
  /\ UNCHANGED <<mutex, dead, worker>>

-----------------------------------------------------------------------------
(* The head of ngx_process_events_and_timers                                *)

Poll(w, m) ==
  /\ mode' = [mode EXCEPT ![w] = m]
  /\ Goto(w, "poll")

(* An overloaded worker does not ask for the mutex; it keeps the accept     *)
(* events it has.                                                           *)
SkipMutex(w) ==
  /\ pc[w] = "top"
  /\ disabled[w] > 0
  /\ disabled' = [disabled EXCEPT ![w] = @ - 1]
  /\ Poll(w, "plain")
  /\ UNCHANGED <<mutex, dead, held, armed, todo, free, backlog, count>>

Asks(w) == pc[w] = "top" /\ disabled[w] <= 0

(* ngx_trylock_accept_mutex, mutex taken: accept events are enabled unless  *)
(* they still are from the last time.                                       *)
TrylockTaken(w) ==
  /\ Asks(w)
  /\ M!Take(w)
  /\ held' = [held EXCEPT ![w] = TRUE]
  /\ armed' = IF held[w] THEN armed ELSE [armed EXCEPT ![w] = Sockets]
  /\ Poll(w, "post")
  /\ UNCHANGED <<disabled, todo, free, backlog, count>>

(* ngx_enable_accept_events fails at one of the sockets it has to add.      *)
EnableError(w) ==
  /\ Asks(w)
  /\ M!Take(w)
  /\ ~held[w]
  /\ \E some \in SUBSET Sockets :
       /\ armed[w] \subseteq some /\ some # Sockets
       /\ armed' = [armed EXCEPT ![w] = some]
  /\ Goto(w, "undo")
  /\ Use("faults", MaxFaults)
  /\ UNCHANGED <<held, disabled, mode, todo, free, backlog>>

(* Then the mutex is given back and the iteration ends.                     *)
EnableUndo(w) ==
  /\ pc[w] = "undo"
  /\ M!Give(w)
  /\ Goto(w, "top")
  /\ UNCHANGED <<held, disabled, armed, mode, todo, free, backlog, count>>

(* Another worker has it: accept events are disabled if they are enabled.   *)
TrylockFailed(w) ==
  /\ Asks(w)
  /\ mutex # NoPid
  /\ armed' = IF held[w] THEN [armed EXCEPT ![w] = {}] ELSE armed
  /\ held' = [held EXCEPT ![w] = FALSE]
  /\ Poll(w, "capped")
  /\ UNCHANGED <<mutex, dead, disabled, todo, free, backlog, count>>

(* ngx_disable_accept_events fails at one of them: the iteration ends with  *)
(* held as it was.                                                          *)
DisableError(w) ==
  /\ Asks(w)
  /\ mutex # NoPid
  /\ held[w]
  /\ \E some \in SUBSET armed[w] :
       some # {} /\ armed' = [armed EXCEPT ![w] = some]
  /\ Use("faults", MaxFaults)
  /\ UNCHANGED <<mutex, dead, pc, held, disabled, mode, todo, free, backlog>>

-----------------------------------------------------------------------------
(* The poll and the accept events                                           *)

Ready(w) == {s \in armed[w] : backlog[s] > 0}

(* Every listening socket that is watched and ready is reported.            *)
PollReady(w) ==
  /\ pc[w] = "poll"
  /\ Ready(w) # {}
  /\ todo' = [todo EXCEPT ![w] = Ready(w)]
  /\ Goto(w, "accept")
  /\ UNCHANGED <<mutex, dead, held, disabled, armed, mode, free, backlog, count>>

(* The poll ends with no accept event: its timer, or other events.          *)
PollOther(w) ==
  /\ pc[w] = "poll"
  /\ Ready(w) = {}
  /\ Goto(w, "accept")
  /\ UNCHANGED <<mutex, dead, held, disabled, armed, mode, todo, free, backlog, count>>

Handled(w, s) == todo' = [todo EXCEPT ![w] = @ \ {s}]

(* With multi_accept the loop of ngx_event_accept goes on.                  *)
NextAccept(w, s) == IF MultiAccept THEN UNCHANGED todo ELSE Handled(w, s)

Accepting(w, s) == pc[w] = "accept" /\ s \in todo[w]

Dequeue(s) ==
  /\ backlog[s] > 0
  /\ backlog' = [backlog EXCEPT ![s] = @ - 1]

AcceptAgain(w, s) ==
  /\ Accepting(w, s)
  /\ backlog[s] = 0
  /\ Handled(w, s)
  /\ UNCHANGED <<mutex, dead, pc, held, disabled, armed, mode, free, backlog, count>>

(* The client has gone before the accept: ECONNABORTED.                     *)
AcceptAborted(w, s) ==
  /\ Accepting(w, s)
  /\ Dequeue(s)
  /\ NextAccept(w, s)
  /\ UNCHANGED <<mutex, dead, pc, held, disabled, armed, mode, free, count>>

(* A connection is accepted.  The load is measured before it is counted.    *)
(* It takes a free connection, or that of a reusable one which is drained   *)
(* (or its handler closes it at once).  With none left, or when setting it  *)
(* up fails, it is closed and the loop ends.                                *)
AcceptConnection(w, s) ==
  /\ Accepting(w, s)
  /\ Dequeue(s)
  /\ disabled' = [disabled EXCEPT ![w] = Eighth - free[w]]
  /\ \/ free[w] > 0 /\ free' = [free EXCEPT ![w] = @ - 1] /\ NextAccept(w, s)
     \/ UNCHANGED free /\ NextAccept(w, s)
     \/ UNCHANGED free /\ Handled(w, s)
  /\ UNCHANGED <<mutex, dead, pc, held, armed, mode, count>>

(* ngx_shmtx_unlock: compare and set, without effect when w is not owner.   *)
Unlock(w) == IF mutex = w THEN M!Give(w) ELSE UNCHANGED <<mutex, dead>>

(* Mutant: the mutex is not given back.                                     *)
AcceptEmfileKeepsMutex(w, s) ==
  /\ Accepting(w, s)
  /\ armed' = [armed EXCEPT ![w] = {}]
  /\ held' = [held EXCEPT ![w] = FALSE]
  /\ disabled' = [disabled EXCEPT ![w] = 1]
  /\ todo' = [todo EXCEPT ![w] = IF mode[w] = "post" THEN @ \ {s} ELSE {}]
  /\ Use("emfile", MaxEmfile)
  /\ UNCHANGED <<mutex, dead, pc, mode, free, backlog>>

(* EMFILE or ENFILE: accept events are disabled, the mutex is given back.   *)
(* Accept events that are queued already will still run; the ones the poll  *)
(* has not come to are skipped, their event being inactive.                 *)
AcceptEmfile(w, s) ==
  /\ Accepting(w, s)
  /\ armed' = [armed EXCEPT ![w] = {}]
  /\ IF held[w] THEN Unlock(w) ELSE UNCHANGED <<mutex, dead>>
  /\ held' = [held EXCEPT ![w] = FALSE]
  /\ disabled' = [disabled EXCEPT ![w] = 1]
  /\ todo' = [todo EXCEPT ![w] = IF mode[w] = "post" THEN @ \ {s} ELSE {}]
  /\ Use("emfile", MaxEmfile)
  /\ UNCHANGED <<pc, mode, free, backlog>>

(* The same, with ngx_disable_accept_events failing: nothing else is done.  *)
AcceptEmfileError(w, s) ==
  /\ Accepting(w, s)
  /\ \E some \in SUBSET armed[w] :
       /\ some # {}
       /\ armed' = [armed EXCEPT ![w] = some]
       /\ todo' = [todo EXCEPT ![w] =
                     IF mode[w] = "post" THEN @ \ {s} ELSE (@ \ {s}) \cap some]
  /\ Use("faults", MaxFaults)
  /\ UNCHANGED <<mutex, dead, pc, held, disabled, mode, free, backlog>>

(* Mutant: the lock word is cleared, whoever owns the mutex.                *)
UnlockByStore(w) ==
  /\ pc[w] = "accept"
  /\ todo[w] = {}
  /\ mutex' = IF held[w] THEN NoPid ELSE mutex
  /\ Goto(w, "work")
  /\ UNCHANGED <<dead, held, disabled, armed, mode, todo, free, backlog, count>>

(* After the accept events: if (ngx_accept_mutex_held) ngx_shmtx_unlock();  *)
(* held and the accept events stay as they are.                             *)
UnlockAcceptMutex(w) ==
  /\ pc[w] = "accept"
  /\ todo[w] = {}
  /\ IF held[w] THEN Unlock(w) ELSE UNCHANGED <<mutex, dead>>
  /\ Goto(w, "work")
  /\ UNCHANGED <<held, disabled, armed, mode, todo, free, backlog, count>>

(* Expired timers and posted events; connections may be closed.             *)
Work(w) ==
  /\ pc[w] = "work"
  /\ \E n \in free[w] .. Connections : free' = [free EXCEPT ![w] = n]
  /\ Goto(w, "top")
  /\ UNCHANGED <<mutex, dead, held, disabled, armed, mode, todo, backlog, count>>

-----------------------------------------------------------------------------
(* Workers that leave                                                       *)

(* ngx_quit, seen between two iterations: ngx_close_listening_sockets       *)
(* clears held and ngx_use_accept_mutex and deletes the accept events.      *)
Quit(w) ==
  /\ pc[w] = "top"
  /\ Use("quits", MaxQuits)
  /\ held' = [held EXCEPT ![w] = FALSE]
  /\ armed' = [armed EXCEPT ![w] = {}]
  /\ Goto(w, "quit")
  /\ UNCHANGED <<mutex, dead, disabled, mode, todo, free, backlog>>

Crash(w) ==
  /\ pc[w] \notin {"down", "quit"}
  /\ M!Die(w)
  /\ Use("crashes", MaxCrashes)
  /\ Goto(w, "down")
  /\ UNCHANGED <<held, disabled, armed, mode, todo, free, backlog>>

(* Mutant: the master does not look at the accept mutex.                    *)
RespawnOnly(w) ==
  /\ pc[w] = "down"
  /\ dead' = dead \ {w}
  /\ pc' = [pc EXCEPT ![w] = "top"]
  /\ held' = [held EXCEPT ![w] = FALSE]
  /\ disabled' = [disabled EXCEPT ![w] = 0]
  /\ armed' = [armed EXCEPT ![w] = {}]
  /\ todo' = [todo EXCEPT ![w] = {}]
  /\ free' = [free EXCEPT ![w] = Connections]
  /\ UNCHANGED <<mutex, mode, backlog, count>>

(* The master's ngx_unlock_mutexes, then a new process in its place, which  *)
(* starts as ngx_event_process_init leaves it.                              *)
Respawn(w) ==
  /\ pc[w] = "down"
  /\ M!Reap(w)
  /\ pc' = [pc EXCEPT ![w] = "top"]
  /\ held' = [held EXCEPT ![w] = FALSE]
  /\ disabled' = [disabled EXCEPT ![w] = 0]
  /\ armed' = [armed EXCEPT ![w] = {}]
  /\ todo' = [todo EXCEPT ![w] = {}]
  /\ free' = [free EXCEPT ![w] = Connections]
  /\ UNCHANGED <<mode, backlog, count>>

-----------------------------------------------------------------------------
LoopStart(w) ==
  SkipMutex(w) \/ TrylockTaken(w) \/ EnableUndo(w) \/ TrylockFailed(w)

Handle(w) ==
  \E s \in Sockets : AcceptAgain(w, s) \/ AcceptAborted(w, s) \/ AcceptConnection(w, s)

LoopEnd(w) == UnlockAcceptMutex(w) \/ Work(w)

Fault(w) ==
  \/ EnableError(w) \/ DisableError(w)
  \/ \E s \in Sockets : AcceptEmfile(w, s) \/ AcceptEmfileError(w, s)

Next ==
  \/ \E s \in Sockets : Arrive(s)
  \/ \E w \in Workers :
       \/ LoopStart(w) \/ PollReady(w) \/ PollOther(w) \/ Handle(w) \/ LoopEnd(w)
       \/ Fault(w) \/ Quit(w) \/ Crash(w) \/ Respawn(w)

Spec == Init /\ [][Next]_vars

(* A worker runs, its poll ends when it is ready or its capped timer        *)
(* expires, and the master replaces a dead worker.  Nothing ends a poll     *)
(* without a cap but an event.                                              *)
Fairness ==
  \A w \in Workers :
    /\ WF_vars(LoopStart(w)) /\ WF_vars(PollReady(w))
    /\ WF_vars(PollOther(w) /\ mode[w] = "capped")
    /\ WF_vars(Handle(w)) /\ WF_vars(LoopEnd(w)) /\ WF_vars(Respawn(w))

LiveSpec == Spec /\ Fairness

-----------------------------------------------------------------------------
(* Properties                                                               *)

Live(w) == pc[w] # "down"

(* The state has the declared shape.                                        *)
TypeOK ==
  /\ mutex \in Workers \cup {NoPid}
  /\ dead \in SUBSET Workers
  /\ pc \in [Workers -> {"top", "undo", "poll", "accept", "work", "quit", "down"}]
  /\ held \in [Workers -> BOOLEAN]
  /\ disabled \in [Workers -> Int]
  /\ armed \in [Workers -> SUBSET Sockets]
  /\ mode \in [Workers -> Modes]
  /\ todo \in [Workers -> SUBSET Sockets]
  /\ free \in [Workers -> 0 .. Connections]
  /\ backlog \in [Sockets -> Nat]
  /\ count \in [{"arrivals", "emfile", "faults", "crashes", "quits"} -> Nat]

(* A worker in the part of an iteration that the mutex is for.              *)
InTurn(w) == held[w] /\ mode[w] = "post" /\ pc[w] \in {"poll", "accept"}

(* A live worker owns the accept mutex exactly while it polls for and runs  *)
(* queued accept events (or undoes a failed start): it never carries it     *)
(* into the next iteration, into its own requests' work or out of the loop. *)
OwnerInTurn ==
  \A w \in Workers : Live(w) => (mutex = w <=> InTurn(w) \/ pc[w] = "undo")

(* Two workers never take their turn at the same time.                      *)
OneTurn ==
  \A v, w \in Workers : InTurn(v) /\ InTurn(w) /\ Live(v) /\ Live(w) => v = w

(* ngx_accept_mutex_held tells what is armed: all sockets or none, unless   *)
(* a call to add or delete an event has failed.                             *)
HeldTellsArmed ==
  count.faults = 0 =>
    \A w \in Workers : pc[w] \notin {"undo", "down"} =>
      armed[w] = IF held[w] THEN Sockets ELSE {}

(* A worker watches the listening sockets, between two turns too, as long   *)
(* as it believes to hold the mutex, and has the mutex only in its turn.    *)
TurnSound == OwnerInTurn /\ HeldTellsArmed

(* A worker's use of the mutex is within what MutexSpec allows: its many    *)
(* unlocks while held is stale never take the mutex from its owner.         *)
UsesMutexAsSpecified == M!Spec

(* Connections that wait in a listening socket's queue are taken from it,   *)
(* with workers dying at any point, as long as descriptors do not run out,  *)
(* event calls do not fail and some worker is not told to quit.             *)
BacklogServed ==
  \A s \in Sockets :
    backlog[s] > 0 ~> \/ backlog[s] = 0
                      \/ count.emfile + count.faults + count.quits > 0
=============================================================================
