------------------------------- MODULE Channel -------------------------------
(***************************************************************************)
(* The channels between the processes: every child has a socketpair with    *)
(* the master, and every child holds the master's end of the other          *)
(* children's channels.  The master keeps these copies up to date with      *)
(* messages that open and close them.  src/os/unix/ngx_process_cycle.c      *)
(* (ngx_start_worker_processes, ngx_pass_open_channel, ngx_reap_children,   *)
(* ngx_worker_process_init, ngx_channel_handler), ngx_process.c             *)
(* (ngx_spawn_process) and ngx_channel.c.                                   *)
(*                                                                          *)
(* A channel is known by the number of the child it was made for.  A failed *)
(* spawn is a failed socketpair(), and only where a child is started again. *)
(***************************************************************************)
EXTENDS Integers, Sequences, FiniteSets

CONSTANTS
  SlotCount,    \* slots of ngx_processes
  MaxStarts,    \* bound: children started by ngx_start_worker_processes
  MaxPids,      \* bound: children in all
  MaxQuits,     \* bound: children told to quit
  MaxFaults,    \* bound: failing attempts to start a child again
  Buffer        \* messages a channel's socket buffer holds

ASSUME ChannelAssumption ==
  {SlotCount, MaxStarts, MaxPids, MaxQuits, MaxFaults, Buffer} \subseteq Nat

VARIABLES
  table,        \* the master's ngx_processes
  alive,        \* children that run
  view,         \* each child's own ngx_processes: pid and channel[0]
  open,         \* how many descriptors of each channel a child has open
  queue,        \* messages in each child's channel
  pids,         \* children forked so far
  count,        \* how much of each bound is used up, and the messages lost
  mixed         \* whether one pass has respawned a child before it removed
                \* another one

chVars == <<table, alive, view, open, queue, pids, count, mixed>>

None == 0
Slots == 1 .. SlotCount
Pids == 1 .. MaxPids
FreeSlot == [pid |-> None, chan |-> None, exited |-> FALSE, exiting |-> FALSE]

ChInit ==
  /\ table = [s \in Slots |-> FreeSlot]
  /\ alive = {}
  /\ view = [p \in Pids |-> [s \in Slots |-> [pid |-> None, chan |-> None]]]
  /\ open = [p \in Pids |-> [c \in Pids |-> 0]]
  /\ queue = [p \in Pids |-> <<>>]
  /\ pids = 0
  /\ count = [quits |-> 0, faults |-> 0, lost |-> 0]
  /\ mixed = FALSE

(* What the master changes while it runs through its table.                 *)
Now == [table |-> table, alive |-> alive, view |-> view, open |-> open,
        queue |-> queue, pids |-> pids, lost |-> count.lost, mixed |-> mixed]

Becomes(m) ==
  /\ table' = m.table /\ alive' = m.alive /\ view' = m.view /\ open' = m.open
  /\ queue' = m.queue /\ pids' = m.pids /\ mixed' = m.mixed

(* The master's state with slot s set to e.                                 *)
SetSlot(m, s, e) ==
  [m EXCEPT !.table = [i \in Slots |-> IF i = s THEN e ELSE m.table[i]]]

-----------------------------------------------------------------------------
(* Messages and spawns                                                      *)

(* ngx_write_channel to the children in the slots: NGX_AGAIN, a full        *)
(* buffer, is not looked at.  The channel of a child that has died takes    *)
(* messages as well.                                                        *)
Tell(m, slots, msg) ==
  LET to == {m.table[s].pid : s \in slots}
      full == {p \in to : Len(m.queue[p]) >= Buffer}
  IN  [m EXCEPT
        !.queue = [p \in Pids |-> IF p \in to \ full THEN Append(m.queue[p], msg)
                                  ELSE m.queue[p]],
        !.lost = @ + Cardinality(full)]

(* ngx_spawn_process and ngx_worker_process_init: the child has the         *)
(* master's table, and closes what it does not need.                        *)
Spawn(m, s) ==
  LET p == m.pids + 1
      t == SetSlot(m, s, [m.table[s] EXCEPT !.chan = p]).table
  IN  [SetSlot(m, s, [pid |-> p, chan |-> p, exited |-> FALSE, exiting |-> FALSE])
        EXCEPT !.pids = p, !.alive = @ \cup {p},
        !.view[p] = [i \in Slots |-> [pid |-> t[i].pid, chan |-> t[i].chan]],
        !.open[p] = [c \in Pids |-> Cardinality({i \in Slots \ {s} : t[i].chan = c})]]

Open(m, s) == [cmd |-> "open", slot |-> s, pid |-> m.table[s].pid, chan |-> m.table[s].chan]

(* ngx_pass_open_channel                                                    *)
PassOpenChannel(m, s) ==
  Tell(m, {i \in Slots \ {s} : m.table[i].pid # None /\ m.table[i].chan # None}, Open(m, s))

(* One turn of the loop of ngx_start_worker_processes.                      *)
StartWorker ==
  /\ pids < MaxStarts
  /\ \E s \in Slots :
       /\ table[s].pid = None
       /\ \A i \in Slots : i < s => table[i].pid # None
       /\ LET m == PassOpenChannel(Spawn(Now, s), s)
          IN  Becomes(m) /\ count' = [count EXCEPT !.lost = m.lost]

-----------------------------------------------------------------------------
(* Children come to an end                                                  *)

(* ngx_signal_worker_processes marks a child that is not to be started      *)
(* again.                                                                   *)
Quit(s) ==
  /\ table[s].pid \in alive
  /\ ~table[s].exiting
  /\ count.quits < MaxQuits
  /\ count' = [count EXCEPT !.quits = @ + 1]
  /\ table' = [table EXCEPT ![s].exiting = TRUE]
  /\ UNCHANGED <<alive, view, open, queue, pids, mixed>>

Die(p) ==
  /\ p \in alive
  /\ alive' = alive \ {p}
  /\ UNCHANGED <<table, view, open, queue, pids, count, mixed>>

(* Mutant: the children are told to close, but the message names a slot one *)
(* too high.                                                                *)
ClosingNext(last, m, s) ==
  [cmd |-> last.cmd, slot |-> IF s + 1 \in Slots THEN s + 1 ELSE s,
   pid |-> m.table[s].pid, chan |-> last.chan]

(* The pass's message: it is made once, before the loop, and an OPEN_CHANNEL *)
(* takes its place for the rest of the pass once a child was started again.  *)
Closing(last, m, s) ==
  [cmd |-> last.cmd, slot |-> s, pid |-> m.table[s].pid, chan |-> last.chan]

(* A child that has exited: its channel is closed, the others are told, and *)
(* it is started again unless it was to quit or that fails.  a holds the    *)
(* master's state, the message and the slots where spawning fails.          *)
ReapSlot(a, s) ==
  IF a.m.table[s].pid = None \/ ~a.m.table[s].exited THEN a
  ELSE LET closed == [SetSlot(a.m, s, [a.m.table[s] EXCEPT !.chan = None])
                        EXCEPT !.mixed = a.m.mixed \/ a.last.cmd = "open"]
           hear == {n \in Slots : LET e == closed.table[n]
                                  IN ~e.exited /\ e.pid # None /\ e.chan # None}
           told == Tell(closed, hear, Closing(a.last, closed, s))
       IN  IF told.table[s].exiting
           THEN [a EXCEPT !.m = SetSlot(told, s, FreeSlot)]
           ELSE IF s \in a.bad THEN [a EXCEPT !.m = told]
           ELSE LET new == Spawn(told, s)
                IN  [a EXCEPT !.m = PassOpenChannel(new, s), !.last = Open(new, s)]

(* The handler of SIGCHLD, then ngx_reap_children.                          *)
ReapChildren ==
  LET gone == {s \in Slots : table[s].pid # None /\ table[s].pid \notin alive}
      again == {s \in gone : ~table[s].exiting}
      marked == [Now EXCEPT !.table = [s \in Slots |->
                   IF s \in gone THEN [table[s] EXCEPT !.exited = TRUE] ELSE table[s]]]
  IN  /\ gone # {}
      /\ \E bad \in SUBSET again :
           /\ count.faults + Cardinality(bad) <= MaxFaults
           /\ pids + Cardinality(again \ bad) <= MaxPids
           /\ LET first == [m |-> marked, bad |-> bad, last |-> [cmd |-> "close", chan |-> None]]
                  pass[s \in 0 .. SlotCount] ==
                    IF s = 0 THEN first ELSE ReapSlot(pass[s - 1], s)
                  m == pass[SlotCount].m
              IN  /\ Becomes(m)
                  /\ count' = [count EXCEPT !.lost = m.lost,
                                            !.faults = @ + Cardinality(bad)]

-----------------------------------------------------------------------------
HandleClose(p, msg) ==
  LET c == view[p][msg.slot].chan
  IN  /\ view' = [view EXCEPT ![p][msg.slot].chan = None]
      /\ open' = IF c = None THEN open ELSE [open EXCEPT ![p][c] = @ - 1]

HandleOpen(p, msg) ==
  /\ view' = [view EXCEPT ![p][msg.slot] = [pid |-> msg.pid, chan |-> msg.chan]]
  /\ open' = [open EXCEPT ![p][msg.chan] = @ + 1]

(* ngx_channel_handler: one message; the descriptor in an OPEN_CHANNEL is a *)
(* new one.                                                                 *)
ChannelHandler(p) ==
  /\ p \in alive
  /\ queue[p] # <<>>
  /\ queue' = [queue EXCEPT ![p] = Tail(@)]
  /\ LET msg == Head(queue[p])
     IN  IF msg.cmd = "open" THEN HandleOpen(p, msg) ELSE HandleClose(p, msg)
  /\ UNCHANGED <<table, alive, pids, count, mixed>>

-----------------------------------------------------------------------------
ChNext ==
  \/ StartWorker \/ ReapChildren
  \/ \E s \in Slots : Quit(s)
  \/ \E p \in Pids : Die(p) \/ ChannelHandler(p)

ChSpec == ChInit /\ [][ChNext]_chVars

-----------------------------------------------------------------------------
(* Properties                                                               *)

OwnSlot(p, s) == table[s].pid = p

(* Channels of the slots that a child would write to, as its table has      *)
(* them and as the master's table has them.                                 *)
Agrees(p, s) == view[p][s].chan = table[s].chan

(* A child that has read all its messages has the channels of exactly the   *)
(* children the master has, whatever died and was started in the meantime.  *)
Agreement ==
  count.lost = 0 =>
    \A p \in alive : queue[p] = <<>> =>
      \A s \in Slots : ~OwnSlot(p, s) => Agrees(p, s)

(* A child has a descriptor open for exactly the channels its table names:  *)
(* none is leaked and none is closed twice.                                 *)
NoLeak ==
  ~mixed /\ count.lost = 0 =>
    \A p \in alive, c \in Pids :
      open[p][c] = Cardinality({s \in Slots : ~OwnSlot(p, s) /\ view[p][s].chan = c})

(* What the code does keep: unless one pass over the table started a child  *)
(* again and then came to another one that had exited (mixed), the children *)
(* that have read their messages know the master's channels, and no child   *)
(* ever leaks a descriptor or closes one twice.                             *)
ChannelsAgree == (~mixed => Agreement) /\ NoLeak
=============================================================================
