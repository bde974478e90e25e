----------------------------- MODULE EventLoop ------------------------------
(***************************************************************************)
(* The connections of a worker and the events that reach them: the pool and *)
(* the queue of reusable connections of ngx_connection.c, the batches of    *)
(* ngx_epoll_process_events and the posted events of ngx_event_posted.c, in *)
(* the order of ngx_process_events_and_timers.                              *)
(*                                                                          *)
(* A place of the pool is used again as soon as it is free, by an accept or *)
(* by a connection to a server, while events that epoll returned earlier in *)
(* the same batch, or that were posted, may still name it.  What handlers   *)
(* do besides is left open: between its call and its return a handler opens *)
(* and closes any connections, posts their events and makes them reusable.  *)
(* Descriptors are numbered, as incarnations of a place.                    *)
(***************************************************************************)
EXTENDS Integers, Sequences, FiniteSets, SequencesExt

CONSTANTS
  Places,      \* the places, cycle->connections
  MaxOpens,    \* bound: how often connections are opened
  MaxBatches   \* bound: how often epoll_wait is called

ASSUME EventLoopAssumption ==
  /\ IsFiniteSet(Places)
  /\ {MaxOpens, MaxBatches} \subseteq Nat

VARIABLES
  conn,        \* each place with its ngx_connection_t and its two events
  freeConns,   \* ngx_cycle->free_connections, the next one first
  reusableQ,   \* ngx_cycle->reusable_connections_queue, its head first
  eventList,   \* the events of epoll_wait still to be looked at
  postedQ,     \* ngx_posted_events
  loop,        \* where the worker is
  running,     \* a handler runs
  post,        \* NGX_POST_EVENTS is among the flags
  opens, batches,
  reopened,    \* how often each place was opened in this batch
  stale        \* see NoStaleHandler

elVars == <<conn, freeConns, reusableQ, eventList, postedQ, loop, running,
            post, opens, batches, reopened, stale>>

Closed0 ==
  [fd |-> 0,            \* 0 for -1, else the number of the incarnation
   instance |-> TRUE,
   active |-> FALSE,    \* read->active and write->active
   posted |-> {},       \* which of "read" and "write" is posted
   reusable |-> FALSE]

ElInit ==
  /\ conn = [c \in Places |-> Closed0]
  /\ freeConns = SetToSeq(Places)
  /\ reusableQ = <<>>
  /\ eventList = <<>>
  /\ postedQ = <<>>
  /\ loop = "idle"
  /\ running = FALSE
  /\ post = FALSE
  /\ opens = 0 /\ batches = 0
  /\ reopened = [c \in Places |-> 0]
  /\ stale = FALSE

OpenPlaces == {c \in Places : conn[c].fd # 0}

----------------------------------------------------------------------------
(* What closing and opening change, bundled: a handler may do several.      *)
Pool == [conn |-> conn, free |-> freeConns, reusable |-> reusableQ, posted |-> postedQ]

PoolBecomes(b) ==
  /\ conn' = b.conn
  /\ freeConns' = b.free
  /\ reusableQ' = b.reusable
  /\ postedQ' = b.posted

(* ngx_delete_posted_event                                                  *)
Unposted(q, c, ev) == RemoveFirstMatch(q, LAMBDA e : e.c = c /\ e.ev = ev)

(* Mutant: an event that was posted stays in its queue.                     *)
CloseKeepsPosted(b, c) ==
  [b EXCEPT !.conn[c] = [Closed0 EXCEPT !.instance = b.conn[c].instance],
            !.free = <<c>> \o b.free,
            !.reusable = RemoveFirst(@, c)]

(* ngx_close_connection with ngx_reusable_connection(c, 0) and              *)
(* ngx_free_connection                                                      *)
ngx_close_connection(b, c) ==
  [conn |-> [b.conn EXCEPT ![c].fd = 0, ![c].active = FALSE,
                           ![c].posted = {}, ![c].reusable = FALSE],
   free |-> <<c>> \o b.free,
   reusable |-> RemoveFirst(b.reusable, c),
   posted |-> Unposted(Unposted(b.posted, c, "read"), c, "write")]

(* ngx_drain_connections, with the one connection that n = 1 makes it close *)
(* through its handler.                                                     *)
ngx_drain_connections(b) ==
  IF b.reusable = <<>> THEN b
  ELSE ngx_close_connection(b, b.reusable[Len(b.reusable)])

(* What ngx_get_connection makes of the first free place.                   *)
Got(b) ==
  LET c == b.free[1]
  IN  [b EXCEPT !.free = Tail(@),
                !.conn[c] = [Closed0 EXCEPT !.fd = opens + 1,
                                            !.instance = ~b.conn[c].instance]]

(* ngx_get_connection                                                       *)
ngx_get_connection ==
  /\ running
  /\ opens < MaxOpens
  /\ \E b \in {IF freeConns = <<>> THEN ngx_drain_connections(Pool) ELSE Pool} :
       IF b.free = <<>>
       THEN PoolBecomes(b) /\ UNCHANGED <<opens, reopened>>
       ELSE /\ PoolBecomes(Got(b))
            /\ opens' = opens + 1
            /\ reopened' = [reopened EXCEPT ![b.free[1]] = @ + 1]
  /\ UNCHANGED <<eventList, loop, running, post, batches, stale>>

(* A handler closes a connection, its own or another.                       *)
Close(c) ==
  /\ running
  /\ c \in OpenPlaces
  /\ PoolBecomes(ngx_close_connection(Pool, c))
  /\ UNCHANGED <<eventList, loop, running, post, opens, batches, reopened, stale>>

(* ngx_epoll_add_connection                                                 *)
ngx_epoll_add_connection(c) ==
  /\ running
  /\ c \in OpenPlaces /\ ~conn[c].active
  /\ conn' = [conn EXCEPT ![c].active = TRUE]
  /\ UNCHANGED <<freeConns, reusableQ, eventList, postedQ, loop, running, post,
                 opens, batches, reopened, stale>>

(* ngx_reusable_connection                                                  *)
ngx_reusable_connection(c, reusable) ==
  LET rest == RemoveFirst(reusableQ, c)
  IN  /\ running
      /\ c \in OpenPlaces
      /\ conn' = [conn EXCEPT ![c].reusable = reusable]
      /\ reusableQ' = IF reusable THEN <<c>> \o rest ELSE rest
      /\ UNCHANGED <<freeConns, eventList, postedQ, loop, running, post, opens,
                     batches, reopened, stale>>

(* ngx_post_event                                                           *)
Posted(b, c, ev, fd) ==
  IF ev \in b.conn[c].posted THEN b
  ELSE [b EXCEPT !.conn[c].posted = @ \cup {ev},
                 !.posted = Append(@, [c |-> c, ev |-> ev, fd |-> fd])]

PostEvent(c, ev) ==
  /\ running
  /\ c \in OpenPlaces
  /\ PoolBecomes(Posted(Pool, c, ev, conn[c].fd))
  /\ UNCHANGED <<eventList, loop, running, post, opens, batches, reopened, stale>>

Return ==
  /\ running
  /\ running' = FALSE
  /\ UNCHANGED <<conn, freeConns, reusableQ, eventList, postedQ, loop, post,
                 opens, batches, reopened, stale>>

----------------------------------------------------------------------------
(* A handler is called for an event of the incarnation fd of c.             *)
Call(c, fd) ==
  /\ running' = TRUE
  /\ stale' = \/ stale
              \/ conn[c].fd # fd /\ (reopened[c] < 2 \/ loop = "posted")

(* epoll_wait: any active connections are ready, each in one event with     *)
(* EPOLLIN, EPOLLOUT or both.                                               *)
EpollWait ==
  /\ loop = "idle" /\ ~running
  /\ batches < MaxBatches
  /\ \E ready \in SUBSET {c \in OpenPlaces : conn[c].active} :
     \E revents \in [ready -> {{"read"}, {"write"}, {"read", "write"}}] :
       eventList' = SetToSeq({[c |-> c, instance |-> conn[c].instance,
                               fd |-> conn[c].fd, revents |-> revents[c]] : c \in ready})
  /\ post' \in BOOLEAN
  /\ loop' = "events"
  /\ batches' = batches + 1
  /\ reopened' = [c \in Places |-> 0]
  /\ UNCHANGED <<conn, freeConns, reusableQ, postedQ, running, opens, stale>>

IsStale(e) == conn[e.c].fd = 0 \/ conn[e.c].instance # e.instance

(* One half of what ngx_epoll_process_events does with an event: the        *)
(* handler of the read, or the write event is called or posted.             *)
Deliver(e, ev) ==
  IF ev \in e.revents /\ conn[e.c].active
  THEN IF post THEN /\ PoolBecomes(Posted(Pool, e.c, ev, e.fd))
                    /\ UNCHANGED <<running, stale>>
       ELSE Call(e.c, e.fd) /\ UNCHANGED <<conn, freeConns, reusableQ, postedQ>>
  ELSE UNCHANGED <<conn, freeConns, reusableQ, postedQ, running, stale>>

ReadPart ==
  /\ loop = "events" /\ ~running
  /\ eventList # <<>>
  /\ IF IsStale(Head(eventList))
     THEN /\ eventList' = Tail(eventList)
          /\ UNCHANGED <<conn, freeConns, reusableQ, postedQ, running, stale, loop>>
     ELSE /\ Deliver(Head(eventList), "read")
          /\ loop' = "write"
          /\ UNCHANGED eventList
  /\ UNCHANGED <<post, opens, batches, reopened>>

WritePart ==
  /\ loop = "write" /\ ~running
  /\ IF IsStale(Head(eventList))
     THEN UNCHANGED <<conn, freeConns, reusableQ, postedQ, running, stale>>
     ELSE Deliver(Head(eventList), "write")
  /\ eventList' = Tail(eventList)
  /\ loop' = "events"
  /\ UNCHANGED <<post, opens, batches, reopened>>

(* Timers expire, when there is nothing left of the batch: a handler runs.  *)
TimersExpire ==
  /\ loop = "events" /\ ~running
  /\ eventList = <<>>
  /\ loop' = "posted"
  /\ running' \in BOOLEAN
  /\ UNCHANGED <<conn, freeConns, reusableQ, eventList, postedQ, post, opens,
                 batches, reopened, stale>>

(* ngx_event_process_posted                                                 *)
ngx_event_process_posted ==
  /\ loop = "posted" /\ ~running
  /\ IF postedQ = <<>>
     THEN /\ loop' = "idle"
          /\ UNCHANGED <<conn, postedQ, running, stale>>
     ELSE LET e == Head(postedQ)
          IN  /\ conn' = [conn EXCEPT ![e.c].posted = @ \ {e.ev}]
              /\ postedQ' = Tail(postedQ)
              /\ Call(e.c, e.fd)
              /\ UNCHANGED loop
  /\ UNCHANGED <<freeConns, reusableQ, eventList, post, opens, batches, reopened>>

ElNext ==
  \/ ngx_get_connection
  \/ \E c \in Places :
       \/ Close(c)
       \/ ngx_epoll_add_connection(c)
       \/ \E b \in BOOLEAN : ngx_reusable_connection(c, b)
       \/ \E ev \in {"read", "write"} : PostEvent(c, ev)
  \/ Return
  \/ EpollWait
  \/ ReadPart
  \/ WritePart
  \/ TimersExpire
  \/ ngx_event_process_posted

ElSpec == ElInit /\ [][ElNext]_elVars

----------------------------------------------------------------------------
(* A handler is never called for an event of a connection that is gone,     *)
(* unless its place was taken twice while one batch was processed: the one  *)
(* bit of the instance cannot tell that.                                    *)
NoStaleHandler == ~stale

(* A place is free or open and never both, a connection is in the queue of  *)
(* reusable ones when it says so, and an event is in the queue of posted    *)
(* events once when it says so.                                             *)
PoolAccounted ==
  /\ IsInjective(freeConns)
  /\ ToSet(freeConns) = Places \ OpenPlaces
  /\ IsInjective(reusableQ)
  /\ ToSet(reusableQ) = {c \in OpenPlaces : conn[c].reusable}
  /\ Len(postedQ) = Cardinality({p \in Places \X {"read", "write"} :
                                   p[2] \in conn[p[1]].posted})
  /\ \A i \in 1..Len(postedQ) : /\ postedQ[i].fd = conn[postedQ[i].c].fd
                                /\ postedQ[i].fd # 0

(* An event reaches the connection it is about, and no other one that has   *)
(* its place: neither from the batch nor from the queues.                   *)
EventsReachTheirOwn == NoStaleHandler /\ PoolAccounted
=============================================================================
