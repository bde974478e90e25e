---------------------------- MODULE MasterProcess ----------------------------
(***************************************************************************)
(* The master process: src/os/unix/ngx_process_cycle.c (the master's loop,  *)
(* starting, signalling and reaping children, the part of the children's    *)
(* loops that obeys commands) and src/os/unix/ngx_process.c (the process    *)
(* table, the signal handler).                                              *)
(*                                                                          *)
(* The master blocks all signals but while it is in sigsuspend(), so a turn *)
(* of its loop is a fixed sequence of stages, between which only the        *)
(* children and the kernel's set of pending signals change.  The channels   *)
(* are in module Channel; here a command written to a channel, or sent as a *)
(* signal when that fails, reaches the child's inbox.                       *)
(***************************************************************************)
EXTENDS Integers, Sequences, FiniteSets, SequencesExt

CONSTANTS
  N,            \* worker_processes
  HasCache,     \* whether there is a cache: a manager and a loader process
  KillDelay,    \* the delay of the termination cycle after which it kills
  Operator,     \* the signals the operator sends
  MaxSent,      \* bound: how many of them
  MaxCrashes,   \* bound: children that die by themselves, the new binary too
  MaxFatal,     \* bound: children that exit with code 2 when starting
  MaxFaults,    \* bound: failing socketpair() or fork() calls
  MaxExecFail,  \* bound: failing attempts to start a new binary
  MaxPids       \* bound: children in a behaviour

Signals == {"HUP", "QUIT", "TERM", "USR1", "USR2", "WINCH"}

ASSUME MasterProcessAssumption ==
  /\ N \in Nat \ {0}
  /\ HasCache \in BOOLEAN
  /\ KillDelay \in Nat
  /\ Operator \subseteq Signals
  /\ {MaxSent, MaxCrashes, MaxFatal, MaxFaults, MaxExecFail, MaxPids} \subseteq Nat

VARIABLES
  stage,        \* where the master is in its loop
  pending,      \* signals the kernel holds for the master
  flags,        \* ngx_quit, ngx_terminate, ngx_reconfigure, ... that are set
  table,        \* ngx_processes[0 .. ngx_last_process - 1]
  live, delay, sigio,           \* locals of ngx_master_process_cycle
  noaccepting,  \* ngx_noaccepting
  newbinary,    \* ngx_new_binary: 0, a pid or Invalid
  cycle,        \* the configuration in use
  proc,         \* the children: state, kind and configuration
  inbox,        \* commands sent to each child
  pids,         \* number of children forked so far
  count         \* how much of each bound is used up

master == <<stage, flags, live, delay, sigio, noaccepting, newbinary, cycle>>
children == <<table, proc, inbox, pids>>
vars == <<master, pending, children, count>>

Invalid == -1                       \* NGX_INVALID_PID, and a free slot's pid
Pids == 1 .. MaxPids

(* The processes of a cycle, in the order they are started.                 *)
Workers == [i \in 1 .. N |-> "worker"]
Kinds == IF HasCache THEN Workers \o <<"manager", "loader">> ELSE Workers

Entry(p, kind, just) ==
  [pid |-> p, exiting |-> FALSE, exited |-> FALSE, just_spawn |-> just,
   respawn |-> kind \in {"worker", "manager"}, detached |-> kind = "binary"]

FreeEntry == [Entry(Invalid, "free", FALSE) EXCEPT !.detached = FALSE]

(* The place of x among the numbers of S, and the number in place k.        *)
Place(S, x) == Cardinality({y \in S : y <= x})
Nth(S, k) == CHOOSE x \in S : Place(S, x) = k

(* ngx_spawn_process for one entry after the other: the first free slot, or *)
(* the one after the last.                                                  *)
SpawnInto(t, es) ==
  LET free == {i \in 1 .. Len(t) + Len(es) : i \in DOMAIN t => t[i].pid = Invalid}
      over == Len(es) - Cardinality(free \cap DOMAIN t)
  IN  [i \in 1 .. IF over > 0 THEN Len(t) + over ELSE Len(t) |->
         IF i \in free /\ Place(free, i) <= Len(es) THEN es[Place(free, i)] ELSE t[i]]

Fork(ks, c) ==
  /\ pids + Len(ks) <= MaxPids
  /\ pids' = pids + Len(ks)
  /\ proc' = [p \in Pids |->
       IF p \in pids + 1 .. pids + Len(ks)
       THEN [state |-> "up", kind |-> ks[p - pids], cycle |-> c] ELSE proc[p]]

Fault(n) ==
  /\ count.faults + n <= MaxFaults
  /\ count' = [count EXCEPT !.faults = @ + n]

(* ngx_start_worker_processes and ngx_start_cache_manager_processes; a      *)
(* process that cannot be started is passed over.                           *)
StartProcesses(just, c) ==
  \E good \in SUBSET DOMAIN Kinds :
    LET ks == [k \in 1 .. Cardinality(good) |-> Kinds[Nth(good, k)]]
    IN  /\ Fork(ks, c)
        /\ Fault(Len(Kinds) - Len(ks))
        /\ table' = SpawnInto(table, [k \in DOMAIN ks |-> Entry(pids + k, ks[k], just)])

Init ==
  /\ stage = "start"
  /\ pending = {} /\ flags = {}
  /\ table = <<>>
  /\ live = TRUE /\ delay = 0 /\ sigio = 0
  /\ noaccepting = FALSE /\ newbinary = 0 /\ cycle = 1
  /\ proc = [p \in Pids |-> [state |-> "none", kind |-> "free", cycle |-> 0]]
  /\ inbox = [p \in Pids |-> {}]
  /\ pids = 0
  /\ count = [sent |-> 0, crashes |-> 0, fatal |-> 0,
              faults |-> 0, execfail |-> 0]

Start ==
  /\ stage = "start"
  /\ stage' = "top"
  /\ StartProcesses(FALSE, cycle)
  /\ UNCHANGED <<pending, flags, live, delay, sigio, noaccepting, newbinary, cycle, inbox>>

-----------------------------------------------------------------------------
(* Signals                                                                  *)

(* The operator's kill(1) or nginx -s.                                      *)
Send(s) ==
  /\ stage # "exited"
  /\ count.sent < MaxSent
  /\ count' = [count EXCEPT !.sent = @ + 1]
  /\ pending' = pending \cup {s}
  /\ UNCHANGED <<master, children>>

(* The timer set with setitimer() fires.                                    *)
Alarm ==
  /\ stage = "suspend"
  /\ delay > 0 /\ delay <= 2 * KillDelay
  /\ pending' = pending \cup {"ALRM"}
  /\ UNCHANGED <<master, children, count>>

(* The head of the loop, up to sigsuspend().                                *)
LoopTop ==
  /\ stage = "top"
  /\ stage' = "suspend"
  /\ IF delay > 0 /\ "sigalrm" \in flags
     THEN sigio' = 0 /\ delay' = 2 * delay /\ flags' = flags \ {"sigalrm"}
     ELSE UNCHANGED <<sigio, delay, flags>>
  /\ UNCHANGED <<pending, live, noaccepting, newbinary, cycle, children, count>>

(* ngx_signal_handler; a second USR2 is ignored while a new binary runs.    *)
FlagOf(s) ==
  CASE s = "HUP" -> {"reconfigure"}
    [] s = "QUIT" -> {"quit"}
    [] s = "TERM" -> {"terminate"}
    [] s = "USR1" -> {"reopen"}
    [] s = "USR2" -> IF newbinary > 0 THEN {} ELSE {"change_binary"}
    [] s = "WINCH" -> {"noaccept"}
    [] s = "ALRM" -> {"sigalrm"}
    [] s = "CHLD" -> {"reap"}

Zombies == {p \in Pids : proc[p].state \in {"zombie", "fatal"}}

(* ngx_process_get_status, called by the handler of SIGCHLD for all the     *)
(* children that have exited.                                               *)
GetStatus ==
  /\ table' = [i \in DOMAIN table |->
       IF table[i].pid \in Zombies
       THEN [table[i] EXCEPT !.exited = TRUE,
               !.respawn = @ /\ proc[table[i].pid].state # "fatal"]
       ELSE table[i]]
  /\ proc' = [p \in Pids |->
       IF p \in Zombies THEN [proc[p] EXCEPT !.state = "reaped"] ELSE proc[p]]

(* sigsuspend() lets some of the pending signals in.                        *)
Wake ==
  /\ stage = "suspend"
  /\ \E some \in SUBSET pending :
       /\ some # {}
       /\ pending' = pending \ some
       /\ flags' = flags \cup UNION {FlagOf(s) : s \in some}
       /\ IF "CHLD" \in some THEN GetStatus ELSE UNCHANGED <<table, proc>>
  /\ stage' = "reap"
  /\ UNCHANGED <<live, delay, sigio, noaccepting, newbinary, cycle, inbox, pids, count>>

-----------------------------------------------------------------------------
(* ngx_reap_children                                                        *)

Exited(t) == {i \in DOMAIN t : t[i].pid # Invalid /\ t[i].exited}

(* Mutant: the children that are told to quit are started again.            *)
RespawnsQuitting(t) ==
  IF {"terminate", "quit"} \cap flags # {} THEN {}
  ELSE {i \in Exited(t) : t[i].respawn}

Respawns(t) ==
  IF {"terminate", "quit"} \cap flags # {} THEN {}
  ELSE {i \in Exited(t) : t[i].respawn /\ ~t[i].exiting}

(* Mutant: the table is cut at an entry that is removed.                    *)
FreeSlotsCutting(t, gone) ==
  IF gone = {} THEN t ELSE SubSeq(t, 1, (CHOOSE i \in gone : \A j \in gone : i <= j) - 1)

(* The entries of children that are not started again are freed; only the   *)
(* last one makes the table shorter.                                        *)
FreeSlots(t, gone) ==
  LET freed == [i \in DOMAIN t |-> IF i \in gone THEN FreeEntry ELSE t[i]]
  IN  IF Len(t) \in gone THEN Front(freed) ELSE freed

(* Some child has to be waited for: any but the new binary.                 *)
Alive(t) ==
  \E i \in DOMAIN t : /\ t[i].pid # Invalid /\ ~t[i].exited
                      /\ t[i].exiting \/ ~t[i].detached

(* The kinds of the children that are started again are those of the slot's *)
(* last child.                                                              *)
ReapChildren ==
  \E good \in SUBSET Respawns(table) :
    LET kinds == [k \in 1 .. Cardinality(good) |-> proc[table[Nth(good, k)].pid].kind]
        gone == Exited(table) \ Respawns(table)
        spawned == [i \in DOMAIN table |->
                      IF i \in good
                      THEN [table[i] EXCEPT !.exited = FALSE, !.pid = pids + Place(good, i)]
                      ELSE table[i]]
        binaryGone == \E i \in gone : table[i].pid = newbinary
    IN  /\ Fork(kinds, cycle)
        /\ Fault(Cardinality(Respawns(table) \ good))
        /\ table' = FreeSlots(spawned, gone)
        /\ live' = Alive(spawned)
        /\ newbinary' = IF binaryGone THEN 0 ELSE newbinary
        /\ noaccepting' = (noaccepting /\ ~binaryGone)
        /\ flags' = (flags \ {"reap"})
                      \cup IF binaryGone /\ noaccepting THEN {"restart"} ELSE {}

Reap ==
  /\ stage = "reap"
  /\ stage' = "check"
  /\ IF "reap" \in flags THEN ReapChildren
     ELSE UNCHANGED <<flags, table, proc, pids, live, newbinary, noaccepting, count>>
  /\ UNCHANGED <<pending, delay, sigio, cycle, inbox>>

-----------------------------------------------------------------------------
(* ngx_signal_worker_processes                                              *)

(* Who is sent the command.                                                 *)
Addressed(t, cmd) ==
  {i \in DOMAIN t : /\ t[i].pid # Invalid /\ ~t[i].detached /\ ~t[i].just_spawn
                    /\ ~(t[i].exiting /\ cmd = "quit")}

(* Mutant: just_spawn is left set.                                          *)
MarkedKeepJust(t, cmd, lost) ==
  [i \in DOMAIN t |->
     IF i \in lost THEN [t[i] EXCEPT !.exited = TRUE, !.exiting = FALSE]
     ELSE IF i \in Addressed(t, cmd) THEN [t[i] EXCEPT !.exiting = @ \/ cmd # "reopen"]
     ELSE t[i]]

(* The table afterwards; lost are the entries whose process is no more      *)
(* (kill() fails with ESRCH).                                               *)
Marked(t, cmd, lost) ==
  [i \in DOMAIN t |->
     IF i \in lost THEN [t[i] EXCEPT !.exited = TRUE, !.exiting = FALSE]
     ELSE IF i \in Addressed(t, cmd) THEN [t[i] EXCEPT !.exiting = @ \/ cmd # "reopen"]
     ELSE IF t[i].pid # Invalid /\ ~t[i].detached THEN [t[i] EXCEPT !.just_spawn = FALSE]
     ELSE t[i]]

(* A command goes to the child's inbox, SIGKILL kills it.                   *)
SignalWorkers(t, cmd, rest) ==
  LET lost == {i \in Addressed(t, cmd) : proc[t[i].pid].state = "reaped"}
      told == {t[i].pid : i \in Addressed(t, cmd) \ lost}
  IN  /\ table' = Marked(t, cmd, lost)
      /\ flags' = rest \cup IF lost # {} THEN {"reap"} ELSE {}
      /\ IF cmd = "kill"
         THEN /\ proc' = [p \in Pids |->
                   IF p \in told /\ proc[p].state \in {"up", "drain"}
                   THEN [proc[p] EXCEPT !.state = "zombie"] ELSE proc[p]]
              /\ pending' = IF proc' = proc THEN pending ELSE pending \cup {"CHLD"}
              /\ UNCHANGED inbox
         ELSE /\ inbox' = [p \in Pids |->
                   IF p \in told THEN inbox[p] \cup {cmd} ELSE inbox[p]]
              /\ UNCHANGED <<proc, pending>>

-----------------------------------------------------------------------------
(* The stages that look at the flags                                        *)

Exit ==
  /\ stage = "check"
  /\ ~live /\ {"terminate", "quit"} \cap flags # {}
  /\ stage' = "exited"
  /\ UNCHANGED <<pending, flags, live, delay, sigio, noaccepting, newbinary, cycle, children, count>>

Staying == stage = "check" /\ (live \/ {"terminate", "quit"} \cap flags = {})

FirstDelay == 50

(* Mutant: the children are never killed.                                   *)
TerminateOnlyAsks ==
  /\ Staying
  /\ "terminate" \in flags
  /\ stage' = "top"
  /\ delay' = IF delay = 0 THEN FirstDelay ELSE delay
  /\ sigio' = IF sigio > 0 THEN sigio - 1 ELSE N + 2
  /\ IF sigio > 0 THEN UNCHANGED <<table, flags, proc, inbox, pending>>
     ELSE SignalWorkers(table, "terminate", flags)
  /\ UNCHANGED <<live, noaccepting, newbinary, cycle, pids, count>>

(* if (ngx_terminate): repeated by every wake-up but the next sigio ones    *)
(* and, once the delay is long, with SIGKILL.                               *)
Terminate ==
  /\ Staying
  /\ "terminate" \in flags
  /\ stage' = "top"
  /\ delay' = IF delay = 0 THEN FirstDelay ELSE delay
  /\ sigio' = IF sigio > 0 THEN sigio - 1 ELSE N + 2
  /\ IF sigio > 0 THEN UNCHANGED <<table, flags, proc, inbox, pending>>
     ELSE SignalWorkers(table, IF delay' > KillDelay THEN "kill" ELSE "terminate", flags)
  /\ UNCHANGED <<live, noaccepting, newbinary, cycle, pids, count>>

(* Mutant: the flag is cleared like those of the other commands.            *)
QuitClearsFlag ==
  /\ Staying
  /\ "terminate" \notin flags /\ "quit" \in flags
  /\ stage' = "top"
  /\ SignalWorkers(table, "quit", flags \ {"quit"})
  /\ UNCHANGED <<live, delay, sigio, noaccepting, newbinary, cycle, pids, count>>

(* if (ngx_quit): the flag stays, every turn tells those not told yet.      *)
Quit ==
  /\ Staying
  /\ "terminate" \notin flags /\ "quit" \in flags
  /\ stage' = "top"
  /\ SignalWorkers(table, "quit", flags)
  /\ UNCHANGED <<live, delay, sigio, noaccepting, newbinary, cycle, pids, count>>

Running == Staying /\ {"terminate", "quit"} \cap flags = {}

(* if (ngx_reconfigure) while a new binary runs: this one's workers are     *)
(* started again, with the configuration it has.                            *)
ReconfigureOldBinary ==
  /\ Running
  /\ "reconfigure" \in flags
  /\ newbinary # 0
  /\ stage' = "top"
  /\ flags' = flags \ {"reconfigure"}
  /\ noaccepting' = FALSE
  /\ StartProcesses(FALSE, cycle)
  /\ UNCHANGED <<pending, live, delay, sigio, newbinary, cycle, inbox>>

(* The configuration is rejected by ngx_init_cycle.                         *)
ReconfigureRejected ==
  /\ Running
  /\ "reconfigure" \in flags
  /\ newbinary = 0
  /\ stage' = "top"
  /\ flags' = flags \ {"reconfigure"}
  /\ UNCHANGED <<pending, live, delay, sigio, noaccepting, newbinary, cycle, children, count>>

(* The new children are started first; the command to quit follows, which   *)
(* passes the just spawned ones over.                                       *)
Reconfigure ==
  /\ Running
  /\ "reconfigure" \in flags
  /\ newbinary = 0
  /\ stage' = "quit old"
  /\ cycle' = cycle + 1
  /\ StartProcesses(TRUE, cycle + 1)
  /\ live' = TRUE
  /\ flags' = flags \ {"reconfigure"}
  /\ UNCHANGED <<pending, delay, sigio, noaccepting, newbinary, inbox>>

(* Mutant: the old children are not told.                                   *)
KeepOldWorkers ==
  /\ stage = "quit old"
  /\ stage' = "restart"
  /\ table' = Marked(table, "reopen", {})
  /\ UNCHANGED <<pending, flags, live, delay, sigio, noaccepting, newbinary, cycle, proc, inbox, pids, count>>

QuitOldWorkers ==
  /\ stage = "quit old"
  /\ stage' = "restart"
  /\ SignalWorkers(table, "quit", flags)
  /\ UNCHANGED <<live, delay, sigio, noaccepting, newbinary, cycle, pids, count>>

NoReconfigure ==
  /\ Running
  /\ "reconfigure" \notin flags
  /\ stage' = "restart"
  /\ UNCHANGED <<pending, flags, live, delay, sigio, noaccepting, newbinary, cycle, children, count>>

(* if (ngx_restart), set when the new binary has gone.                      *)
Restart ==
  /\ stage = "restart"
  /\ "restart" \in flags
  /\ stage' = "reopen"
  /\ flags' = flags \ {"restart"}
  /\ StartProcesses(FALSE, cycle)
  /\ live' = TRUE
  /\ UNCHANGED <<pending, delay, sigio, noaccepting, newbinary, cycle, inbox>>

NoRestart ==
  /\ stage = "restart"
  /\ "restart" \notin flags
  /\ stage' = "reopen"
  /\ UNCHANGED <<pending, flags, live, delay, sigio, noaccepting, newbinary, cycle, children, count>>

Reopen ==
  /\ stage = "reopen"
  /\ stage' = "change"
  /\ IF "reopen" \in flags THEN SignalWorkers(table, "reopen", flags \ {"reopen"})
     ELSE UNCHANGED <<table, flags, proc, inbox, pending>>
  /\ UNCHANGED <<live, delay, sigio, noaccepting, newbinary, cycle, pids, count>>

(* if (ngx_change_binary): a detached child, or NGX_INVALID_PID.            *)
ChangeBinary ==
  /\ stage = "change"
  /\ stage' = "noaccept"
  /\ flags' = flags \ {"change_binary"}
  /\ \/ /\ "change_binary" \notin flags
        /\ UNCHANGED <<newbinary, table, proc, pids, count>>
     \/ /\ "change_binary" \in flags
        /\ Fork(<<"binary">>, cycle)
        /\ newbinary' = pids'
        /\ table' = SpawnInto(table, <<Entry(pids', "binary", FALSE)>>)
        /\ UNCHANGED count
     \/ /\ "change_binary" \in flags
        /\ count.execfail < MaxExecFail
        /\ count' = [count EXCEPT !.execfail = @ + 1]
        /\ newbinary' = Invalid
        /\ UNCHANGED <<table, proc, pids>>
  /\ UNCHANGED <<pending, live, delay, sigio, noaccepting, cycle, inbox>>

NoAccept ==
  /\ stage = "noaccept"
  /\ stage' = "top"
  /\ IF "noaccept" \in flags
     THEN /\ noaccepting' = TRUE
          /\ SignalWorkers(table, "quit", flags \ {"noaccept"})
     ELSE UNCHANGED <<noaccepting, table, flags, proc, inbox, pending>>
  /\ UNCHANGED <<live, delay, sigio, newbinary, cycle, pids, count>>

-----------------------------------------------------------------------------
(* The children                                                             *)

Ends(p, how) ==
  /\ proc' = [proc EXCEPT ![p].state = how]
  /\ pending' = pending \cup {"CHLD"}
  /\ UNCHANGED <<master, table, inbox, pids>>

Runs(p) == proc[p].state \in {"up", "drain"}

(* A child obeys what is in its inbox.  A worker told to quit goes on until *)
(* its connections are done; the cache processes exit at once.              *)
Obey(p) ==
  /\ Runs(p)
  /\ inbox[p] # {}
  /\ inbox' = [inbox EXCEPT ![p] = {}]
  /\ LET exits == \/ "terminate" \in inbox[p]
                  \/ "quit" \in inbox[p] /\ proc[p].kind # "worker"
         state == IF exits THEN "zombie"
                  ELSE IF "quit" \in inbox[p] THEN "drain" ELSE proc[p].state
     IN  /\ proc' = [proc EXCEPT ![p].state = state]
         /\ pending' = IF exits THEN pending \cup {"CHLD"} ELSE pending
  /\ UNCHANGED <<master, table, pids, count>>

Drained(p) == proc[p].state = "drain" /\ Ends(p, "zombie") /\ UNCHANGED count

LoaderDone(p) ==
  proc[p].state = "up" /\ proc[p].kind = "loader" /\ Ends(p, "zombie") /\ UNCHANGED count

Crash(p) ==
  /\ Runs(p)
  /\ count.crashes < MaxCrashes
  /\ count' = [count EXCEPT !.crashes = @ + 1]
  /\ Ends(p, "zombie")

(* exit(2) in ngx_worker_process_init.                                      *)
FatalExit(p) ==
  /\ proc[p].state = "up" /\ proc[p].kind # "binary"
  /\ count.fatal < MaxFatal
  /\ count' = [count EXCEPT !.fatal = @ + 1]
  /\ Ends(p, "fatal")

-----------------------------------------------------------------------------
Turn ==
  \/ Start \/ LoopTop \/ Wake \/ Reap \/ Exit \/ Terminate \/ Quit
  \/ ReconfigureOldBinary \/ ReconfigureRejected \/ Reconfigure \/ QuitOldWorkers
  \/ NoReconfigure \/ Restart \/ NoRestart \/ Reopen \/ ChangeBinary \/ NoAccept

Child(p) == Obey(p) \/ Drained(p) \/ LoaderDone(p)

Next ==
  \/ Turn \/ Alarm
  \/ \E s \in Operator : Send(s)
  \/ \E p \in Pids : Child(p) \/ Crash(p) \/ FatalExit(p)

Spec == Init /\ [][Next]_vars

(* The master runs and its timer fires.                                     *)
MasterFairness == WF_vars(Turn) /\ WF_vars(Alarm)

(* Children obey, and a worker told to quit ends when its connections do.   *)
(* (A child has finitely many steps, so none is passed over for ever.)      *)
ChildFairness == WF_vars(\E p \in Pids : Child(p))

LiveSpec == Spec /\ MasterFairness /\ ChildFairness

(* Children may hang.                                                       *)
HangSpec == Spec /\ MasterFairness

-----------------------------------------------------------------------------
(* Properties                                                               *)

Children == {p \in Pids : proc[p].state \in {"up", "drain", "zombie", "fatal"}}

(* The table knows every child that has not been waited for, in exactly one *)
(* slot, and an entry it takes for running is such a child: no slot is      *)
(* reused or dropped while its process is there.                            *)
ChildrenTracked ==
  /\ \A p \in Children :
       Cardinality({i \in DOMAIN table : table[i].pid = p /\ ~table[i].exited}) = 1
  /\ \A i \in DOMAIN table :
       table[i].pid # Invalid /\ ~table[i].exited => table[i].pid \in Children

(* just_spawn, which makes a child miss one command, never outlives the     *)
(* turn that set it: the next command finds it cleared.                     *)
JustSpawnIsBrief ==
  stage \in {"top", "suspend", "reap", "check"} =>
    \A i \in DOMAIN table : table[i].pid # Invalid => ~table[i].just_spawn

Current == {p \in Pids : /\ proc[p].state = "up" /\ proc[p].kind = "worker"
                         /\ proc[p].cycle = cycle}

(* Whatever reloads, crashes and stops happen together, no more             *)
(* than worker_processes workers of the configuration in use are running:    *)
(* a worker that a reload replaces is not started again.  This needs every  *)
(* fork() to succeed.                                                       *)
WorkersBounded == Cardinality(Current) <= N

(* A master that has exited has left no worker or cache process behind.     *)
ExitLeavesNoChild ==
  stage = "exited" =>
    \A p \in Children : proc[p].kind = "binary" \/ proc[p].state \in {"zombie", "fatal"}

(* Entries of workers that are to go on.                                    *)
ActiveWorkers ==
  {i \in DOMAIN table : /\ table[i].pid # Invalid /\ ~table[i].exiting
                        /\ proc[table[i].pid].kind = "worker"}

UpgradeUnderWay == \E p \in Children : proc[p].kind = "binary"

(* A reload with no upgrade under way leaves no more than worker_processes  *)
(* workers: it replaces the old ones.                                       *)
ReloadKeepsCount ==
  [][Reconfigure \/ ReconfigureOldBinary =>
       UpgradeUnderWay
       \/ Cardinality({i \in ActiveWorkers' : proc'[table'[i].pid].cycle = cycle'}) <= N]_vars

(* As long as the master is not told to stop, there are worker_processes    *)
(* running workers of the last configuration again and again.               *)
WorkersRestored ==
  []<>(Cardinality(Current) = N \/ {"quit", "terminate"} \cap flags # {})

(* After a reload the workers of older configurations go.                   *)
OldWorkersGo ==
  []<>(\A p \in Pids : Runs(p) /\ proc[p].kind # "binary" => proc[p].cycle = cycle)

(* A reload comes to an end whatever dies on the way: the workers of the    *)
(* last configuration are there and those of older ones have gone.          *)
ReloadCompletes == WorkersRestored /\ OldWorkersGo

(* SIGQUIT ends the master, once the workers' connections are done.         *)
QuitEnds == "QUIT" \in pending ~> stage = "exited"

(* SIGTERM ends the master even if the children do nothing, as long as      *)
(* every fork() has succeeded.                                              *)
TermEnds == "TERM" \in pending ~> stage = "exited" \/ count.faults > 0
=============================================================================
