------------------------------- MODULE Limits -------------------------------
(***************************************************************************)
(* The preaccess phase of requests that are limited by rate and by number   *)
(* (http/modules/ngx_http_limit_req_module.c, ngx_http_limit_conn_module.c).*)
(* The zones are shared by the workers; a zone is locked while one of its   *)
(* nodes is looked up or changed, and not from one zone to the next.  A     *)
(* request with several rate limits looks the nodes up first, which keeps   *)
(* them from being expired, and charges them only when no limit refuses.    *)
(*                                                                          *)
(* A worker runs one request at a time here, until it ends.  The handlers   *)
(* return at once when they ran for the request before (limit_req_set,      *)
(* limit_conn_set); for how long an admitted request is delayed is left out.*)
(***************************************************************************)
EXTENDS Integers, Sequences, FiniteSets, SequencesExt, FiniteSetsExt

CONSTANTS
  LimWorkers,
  LimKeys, NoKey,  \* values of the keys; an empty one, which is not limited
  LimAsks,         \* requests: their keys for the rate and the number limits
  LrBurst, LrRate, \* of each limit, in 1 / LrUnit requests (per LrUnit msec)
  LrUnit,          \* 1000
  LrSkew,          \* 60000: a clock further behind has jumped
  LrOld,           \* 60000: a node is not expired before
  LrCap,           \* nodes that a zone has room for
  LcMax,           \* conn of each number limit
  MaxLimClock,     \* bound: time
  MaxLimFaults     \* bound: workers that die and allocations that fail

LrZones == DOMAIN LrBurst
LcZones == DOMAIN LcMax

ASSUME LimAssumption ==
  /\ NoKey \notin LimKeys
  /\ IsFiniteSet(LimWorkers) /\ LimWorkers # {}
  /\ LrBurst \in Seq(Nat) /\ LrRate \in [LrZones -> Nat] /\ LcMax \in Seq(Nat)
  /\ LrUnit \in Nat \ {0}
  /\ {LrSkew, LrOld, LrCap, MaxLimClock, MaxLimFaults} \subseteq Nat
  /\ LimAsks \subseteq [req : [LrZones -> LimKeys \cup {NoKey}],
                        conn : [LcZones -> LimKeys \cup {NoKey}]]

VARIABLES
  lrz,     \* rate zones: nodes by key, queue (last used first)
  lcz,     \* number zones: conn of the node of a key, 0 without node
  lw,      \* workers
  lim      \* the clock, the faults so far, and what they left behind

limVars == <<lrz, lcz, lw, lim>>

(* charged and since are no part of the code: what was let through since    *)
(* the node was first charged, and when that was; the clock may then go     *)
(* back (back).                                                             *)
NoLrNode ==
  [here |-> FALSE, excess |-> 0, last |-> 0, count |-> 0,
   charged |-> 0, since |-> 0, back |-> FALSE]

NoAsk == [req |-> [z \in LrZones |-> NoKey], conn |-> [z \in LcZones |-> NoKey]]

(* node is ctx->node of the worker's own description of a rate zone; conns  *)
(* are the number zones with a cleanup handler in the request's pool.       *)
NewWorker ==
  [st |-> "idle", ask |-> NoAsk, n |-> 0, now |-> 0,
   node |-> [z \in LrZones |-> NoKey], conns |-> <<>>]

LimInit ==
  /\ lrz = [z \in LrZones |-> [node |-> [k \in LimKeys |-> NoLrNode], queue |-> <<>>]]
  /\ lcz = [z \in LcZones |-> [k \in LimKeys |-> 0]]
  /\ lw = [w \in LimWorkers |-> NewWorker]
  /\ lim = [clock |-> 0, faults |-> 0, misled |-> FALSE,
            lost |-> [z \in LrZones |-> [k \in LimKeys |-> 0]],
            lostConns |-> [z \in LcZones |-> [k \in LimKeys |-> 0]]]

----------------------------------------------------------------------------
(* The request is over.                                                     *)
LimEnded(x) == [x EXCEPT !.st = "idle", !.ask = NoAsk, !.n = 0, !.now = 0]

(* Where worker x goes on: the number limits from n on, those without key   *)
(* passed over; the cleanup handlers; the nodes to settle up to zone n; the *)
(* rate limits from n on, after which the nodes are charged.                *)
ConnFrom(x, n) ==
  LET zs == {z \in LcZones : z >= n /\ x.ask.conn[z] # NoKey}
  IN IF zs = {} THEN [x EXCEPT !.st = "run", !.n = 0]
     ELSE [x EXCEPT !.st = "conn", !.n = Min(zs)]

CleanFrom(x) ==
  IF x.conns = <<>> THEN LimEnded(x) ELSE [x EXCEPT !.st = "cleanup", !.n = 0]

SettleFrom(x, st, n) ==
  LET zs == {z \in LrZones : z <= n /\ x.node[z] # NoKey}
  IN CASE zs # {} -> [x EXCEPT !.st = st, !.n = Max(zs)]
       [] zs = {} /\ st = "charge" -> ConnFrom(x, 1)
       [] zs = {} /\ st = "undo" -> LimEnded(x)

LookupFrom(x, n) ==
  LET keys == {z \in LrZones : x.ask.req[z] # NoKey}
      zs == {z \in keys : z >= n}
  IN CASE zs # {} -> [x EXCEPT !.st = "lookup", !.n = Min(zs)]
       [] keys = {} -> ConnFrom(x, 1)
       [] OTHER -> SettleFrom(x, "charge", Len(LrBurst))

LimTick ==
  /\ lim.clock < MaxLimClock
  /\ lim' = [lim EXCEPT !.clock = @ + 1]
  /\ UNCHANGED <<lrz, lcz, lw>>

(* A worker updates its time and runs the first handler of a request.       *)
Preaccess(w, ask) ==
  /\ lw[w].st = "idle"
  /\ lw' = [lw EXCEPT ![w] = LookupFrom([@ EXCEPT !.ask = ask, !.now = lim.clock], 1)]
  /\ UNCHANGED <<lrz, lcz, lim>>

----------------------------------------------------------------------------
(* The time since a node was charged, for a worker whose time may be        *)
(* behind that of the one that did.                                         *)
LrMs(now, last) ==
  LET ms == now - last
  IN IF ms < -LrSkew THEN 1 ELSE IF ms < 0 THEN 0 ELSE ms

LrExcess(z, d, now) ==
  Max({0, d.excess - (LrRate[z] * LrMs(now, d.last)) \div LrUnit + LrUnit})

ChargedAt(z, d, now, last) ==
  [d EXCEPT !.excess = LrExcess(z, d, now),
            !.last = last,
            !.charged = @ + 1,
            !.since = IF d.charged = 0 THEN last ELSE @,
            !.back = @ \/ now - d.last < -LrSkew]

(* Mutant: the time goes back to that of a worker that is behind.           *)
ChargedBack(z, d, now) == ChargedAt(z, d, now, now)

Charged(z, d, now) ==
  ChargedAt(z, d, now, IF LrMs(now, d.last) # 0 THEN now ELSE d.last)

(* ngx_http_limit_req_expire: the node at the end of the queue, unless it   *)
(* is in use; without force, only if it is old and has no excess left.      *)
ExpireLast(zn, z, now, force) ==
  LET k == Last(zn.queue)
      d == zn.node[k]
      ms == IF now < d.last THEN d.last - now ELSE now - d.last
  IN IF \/ zn.queue = <<>>
        \/ d.count > 0
        \/ ~force /\ (ms < LrOld \/ d.excess - (LrRate[z] * ms) \div LrUnit > 0)
     THEN zn
     ELSE [node |-> [zn.node EXCEPT ![k] = NoLrNode], queue |-> Front(zn.queue)]

ngx_http_limit_req_expire(zn, z, now, force) ==
  LET z0 == IF force THEN ExpireLast(zn, z, now, TRUE) ELSE zn
  IN ExpireLast(ExpireLast(z0, z, now, FALSE), z, now, FALSE)

RoomMade(zn, z, now) ==
  LET z1 == ngx_http_limit_req_expire(zn, z, now, FALSE)
  IN IF Len(z1.queue) < LrCap THEN z1 ELSE ngx_http_limit_req_expire(z1, z, now, TRUE)

(* ngx_http_limit_req_lookup in zone z: rc and the zone after it.           *)
LookupFound(z, k, now, account) ==
  LET zn == [lrz[z] EXCEPT !.queue = <<k>> \o RemoveFirst(@, k)]
      d == zn.node[k]
      over == LrExcess(z, d, now) > LrBurst[z]
  IN CASE over -> [rc |-> "busy", zn |-> zn]
       [] ~over /\ account -> [rc |-> "ok", zn |-> [zn EXCEPT !.node[k] = Charged(z, d, now)]]
       [] OTHER -> [rc |-> "again", zn |-> [zn EXCEPT !.node[k].count = @ + 1]]

LookupNew(z, k, now, account) ==
  LET zn == RoomMade(lrz[z], z, now)
      new == [NoLrNode EXCEPT !.here = TRUE,
                !.last = IF account THEN now ELSE 0,
                !.count = IF account THEN 0 ELSE 1,
                !.charged = IF account THEN 1 ELSE 0,
                !.since = IF account THEN now ELSE 0]
  IN IF Len(zn.queue) >= LrCap THEN [rc |-> "error", zn |-> zn]
     ELSE [rc |-> IF account THEN "ok" ELSE "again",
           zn |-> [node |-> [zn.node EXCEPT ![k] = new], queue |-> <<k>> \o zn.queue]]

(* A count that is no longer anybody's: the node that the worker has in     *)
(* zone z, for another value of the key, is overwritten.                    *)
Overwritten(w, z) ==
  [lim EXCEPT !.lost[z] = [k \in LimKeys |-> @[k] + (IF lw[w].node[z] = k THEN 1 ELSE 0)]]

(* ngx_http_limit_req_handler, the loop over the limits.                    *)
Lookup(w) ==
  LET z == lw[w].n
      k == lw[w].ask.req[z]
      account == z = Len(LrBurst)
      found == IF lrz[z].node[k].here THEN LookupFound(z, k, lw[w].now, account)
               ELSE LookupNew(z, k, lw[w].now, account)
  IN /\ lw[w].st = "lookup"
     /\ lrz' = [lrz EXCEPT ![z] = found.zn]
     /\ CASE found.rc = "again" ->
               /\ lw' = [lw EXCEPT ![w] = LookupFrom([@ EXCEPT !.node[z] = k], z + 1)]
               /\ lim' = Overwritten(w, z)
          [] found.rc = "ok" ->
               lw' = [lw EXCEPT ![w] = SettleFrom(@, "charge", z - 1)] /\ UNCHANGED lim
          [] OTHER ->
               lw' = [lw EXCEPT ![w] = SettleFrom(@, "undo", z - 1)] /\ UNCHANGED lim
     /\ UNCHANGED lcz

(* The key cannot be evaluated: the request fails, and the counts that it   *)
(* has taken stay with ctx->node.                                           *)
LookupFails(w) ==
  /\ lw[w].st = "lookup"
  /\ lim.faults < MaxLimFaults
  /\ lw' = [lw EXCEPT ![w] = LimEnded(@)]
  /\ lim' = [lim EXCEPT !.faults = @ + 1,
                        !.misled = @ \/ \E z \in LrZones : lw[w].node[z] # NoKey]
  /\ UNCHANGED <<lrz, lcz>>

(* ngx_http_limit_req_account and the undoing of the handler, zone by zone, *)
(* down to the first.                                                       *)
Settle(w) ==
  LET z == lw[w].n
      k == lw[w].node[z]
      d == lrz[z].node[k]
      charged == IF lw[w].st = "charge" THEN Charged(z, d, lw[w].now) ELSE d
      settled == [charged EXCEPT !.count = @ - 1]
  IN /\ lw[w].st \in {"charge", "undo"}
     /\ lrz' = [lrz EXCEPT ![z].node[k] = settled]
     /\ lw' = [lw EXCEPT ![w] = SettleFrom([@ EXCEPT !.node[z] = NoKey], @.st, z - 1)]
     /\ UNCHANGED <<lcz, lim>>

----------------------------------------------------------------------------
(* ngx_http_limit_conn_handler for one limit.  A request that is refused    *)
(* gives back what it has taken (ngx_http_limit_conn_cleanup_all).          *)
Connect(w) ==
  LET z == lw[w].n
      k == lw[w].ask.conn[z]
  IN /\ lw[w].st = "conn"
     /\ IF lcz[z][k] > 0 /\ lcz[z][k] >= LcMax[z]
        THEN lw' = [lw EXCEPT ![w] = CleanFrom(@)] /\ UNCHANGED lcz
        ELSE /\ lcz' = [lcz EXCEPT ![z][k] = @ + 1]
             /\ lw' = [lw EXCEPT ![w] = ConnFrom([lw[w] EXCEPT !.conns = Append(@, z)], z + 1)]
     /\ UNCHANGED <<lrz, lim>>

(* The key cannot be evaluated or there is no memory for a node; or, once   *)
(* the connection was counted, there is none for the cleanup handler: then  *)
(* it stays counted.                                                        *)
ConnectFails(w) ==
  LET z == lw[w].n
      k == lw[w].ask.conn[z]
  IN /\ lw[w].st = "conn"
     /\ lim.faults < MaxLimFaults
     /\ \/ /\ lim' = [lim EXCEPT !.faults = @ + 1]
           /\ UNCHANGED lcz
        \/ /\ lcz[z][k] = 0 \/ lcz[z][k] < LcMax[z]
           /\ lcz' = [lcz EXCEPT ![z][k] = @ + 1]
           /\ lim' = [lim EXCEPT !.faults = @ + 1, !.lostConns[z][k] = @ + 1]
     /\ lw' = [lw EXCEPT ![w] = CleanFrom(@)]
     /\ UNCHANGED lrz

(* The request ends: its pool is destroyed.                                 *)
RequestOver(w) ==
  /\ lw[w].st = "run"
  /\ lw' = [lw EXCEPT ![w] = CleanFrom(@)]
  /\ UNCHANGED <<lrz, lcz, lim>>

(* For the zone taken last.                                                 *)
ngx_http_limit_conn_cleanup(w) ==
  LET z == Last(lw[w].conns)
  IN /\ lw[w].st = "cleanup"
     /\ lcz' = [lcz EXCEPT ![z][lw[w].ask.conn[z]] = @ - 1]
     /\ lw' = [lw EXCEPT ![w] = CleanFrom([lw[w] EXCEPT !.conns = Front(@)])]
     /\ UNCHANGED <<lrz, lim>>

(* A worker dies; the master starts another.  Its counts stay in the zones. *)
LimWorkerDies(w) ==
  /\ lw[w].st # "idle" \/ \E z \in LrZones : lw[w].node[z] # NoKey
  /\ lim.faults < MaxLimFaults
  /\ lw' = [lw EXCEPT ![w] = NewWorker]
  /\ lim' = [lim EXCEPT
       !.faults = @ + 1,
       !.lost = [z \in LrZones |-> [k \in LimKeys |->
                   @[z][k] + (IF lw[w].node[z] = k THEN 1 ELSE 0)]],
       !.lostConns = [z \in LcZones |-> [k \in LimKeys |->
                   @[z][k] + (IF z \in ToSet(lw[w].conns) /\ lw[w].ask.conn[z] = k
                              THEN 1 ELSE 0)]]]
  /\ UNCHANGED <<lrz, lcz>>

LimNext ==
  \/ LimTick
  \/ \E w \in LimWorkers :
       \/ \E ask \in LimAsks : Preaccess(w, ask)
       \/ Lookup(w) \/ LookupFails(w) \/ Settle(w)
       \/ Connect(w) \/ ConnectFails(w) \/ RequestOver(w) \/ ngx_http_limit_conn_cleanup(w)
       \/ LimWorkerDies(w)

LimSpec == LimInit /\ [][LimNext]_limVars

----------------------------------------------------------------------------
(* The count of a node is the number of workers that have it in ctx->node,  *)
(* and of those that died or forgot it: it is never expired while one of    *)
(* them is going to use it.  The queue has every node once.                 *)
LrNodesCounted ==
  \A z \in LrZones :
    /\ IsInjective(lrz[z].queue)
    /\ ToSet(lrz[z].queue) = {k \in LimKeys : lrz[z].node[k].here}
    /\ \A k \in LimKeys :
         LET users == Cardinality({w \in LimWorkers : lw[w].node[z] = k}) + lim.lost[z][k]
         IN /\ lrz[z].node[k].count = users
            /\ users > 0 => lrz[z].node[k].here

(* From when a node was first charged, what was let through is one request, *)
(* the excess, and what the rate allows in the time, although the workers'  *)
(* times differ, unless a clock has jumped back.                            *)
RateKept ==
  \A z \in LrZones, k \in LimKeys :
    LET d == lrz[z].node[k]
    IN d.charged > 0 /\ ~d.back =>
         LrUnit * (d.charged - 1) <= d.excess + (LrRate[z] * (d.last - d.since)) \div LrUnit

(* The excess is within the burst for the last limit, which looks a node up *)
(* and charges it at once.  For the others it may exceed it by the requests *)
(* that the other workers had looked up and not yet charged, by one more    *)
(* thousandth for each, which the rounding of ever shorter times adds, and  *)
(* by the rate of one msec, granted to a worker whose clock has jumped; and *)
(* the first request of a node is not held against the burst.               *)
BurstKept ==
  \A z \in LrZones, k \in LimKeys :
    IF z = Len(LrBurst)
    THEN lrz[z].node[k].excess <= LrBurst[z]
    ELSE ~lim.misled =>
           lrz[z].node[k].excess <=
             Max({LrUnit, LrBurst[z] + LrRate[z] \div LrUnit
                          + (LrUnit + 1) * (Cardinality(LimWorkers) - 1)})

(* The connections counted are those of requests that have not ended, and   *)
(* those that were lost, and within the limit.                              *)
ConnsKept ==
  \A z \in LcZones, k \in LimKeys :
    /\ lcz[z][k] <= Max({1, LcMax[z]})
    /\ lcz[z][k] = lim.lostConns[z][k]
                   + Cardinality({w \in LimWorkers : /\ z \in ToSet(lw[w].conns)
                                                     /\ lw[w].ask.conn[z] = k})

(* What the two modules promise, with what failures leave behind counted.   *)
LimitsKept == LrNodesCounted /\ RateKept /\ BurstKept /\ ConnsKept
=============================================================================
