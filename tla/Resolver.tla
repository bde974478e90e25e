------------------------------ MODULE Resolver -----------------------------
(***************************************************************************)
(* The resolver of a worker, ngx_resolver.c: names are asked for by several *)
(* requests at a time, and one query per address family stands for all of   *)
(* them.  Queries and answers get lost, are cut off and repeated, answers   *)
(* come in any order, and a name may stand for another one (CNAME).  What   *)
(* was answered is kept for a while.                                        *)
(*                                                                          *)
(* Time is what lapses: a kept answer (valid), the place of a name in the   *)
(* expire queue (ripe), the timers.  The servers know of each name one      *)
(* thing for the whole behaviour (zone), and may fail to tell.  Responses   *)
(* with a wrong ident, or to no query, change nothing.  The parsing of      *)
(* responses, the sockets, SRV and PTR queries and failing allocations are  *)
(* left out.                                                                *)
(***************************************************************************)
EXTENDS Integers, Sequences, FiniteSets, SequencesExt

CONSTANTS
  Names,
  NoName,
  Bad,            \* names no query can be made for
  Families,       \* the address families asked for: {"A"} or {"A", "AAAA"}
  Ctxs,           \* ngx_resolver_ctx_t: requests that ask at a time
  Untimed,        \* those with a timeout of 0, whose requests wait
  Zones,          \* what the servers may know
  MaxRecursion,   \* NGX_RESOLVER_MAX_RECURSION
  MaxAsks,        \* bound: how often anybody asks
  MaxLost,        \* bound: queries that get lost
  MaxErrors       \* bound: errors and truncated responses

Zone == [Names -> [cname : Names \cup {NoName},
                   has : [Families -> {"addr", "empty", "other"}]]]

ASSUME ResolverAssumption ==
  /\ NoName \notin Names
  /\ Bad \subseteq Names
  /\ Untimed \subseteq Ctxs
  /\ Zones \subseteq Zone
  /\ MaxRecursion \in Nat
  /\ {MaxAsks, MaxLost, MaxErrors} \subseteq Nat

VARIABLE rs        \* ngx_resolver_t, with its nodes and contexts

----------------------------------------------------------------------------
Unknown == -1

(* ngx_resolver_node_t.  What a node without a query has is in na and       *)
(* cname; sent tells the families whose query has reached a server.         *)
NoEntry ==
  [here |-> FALSE, query |-> FALSE, valid |-> FALSE,
   na |-> [f \in Families |-> 0],        \* naddrs, naddrs6
   code |-> "", cname |-> NoName,
   tcp |-> {}, sent |-> {},
   waiting |-> <<>>]

NoCtx == [name |-> NoName, node |-> NoName, recursion |-> 0]

RsInit ==
  \E z \in Zones :
  rs = [zone |-> z,
        node |-> [n \in Names |-> NoEntry],
        resend |-> <<>>, expire |-> <<>>,  \* the queues, from head to tail
        ripe |-> {},                       \* in the expire queue, and past their time
        timer |-> FALSE,                   \* r->event
        ctx |-> [c \in Ctxs |-> NoCtx],
        call |-> <<>>,                     \* the loops over contexts, the innermost first
        asks |-> 0, lost |-> 0, errors |-> 0]

Outcome(state) == [state |-> state, fams |-> {}]
Found(x) == [state |-> "ok", fams |-> {f \in Families : x.na[f] > 0}]

(* The handlers of list are to be called, one after the other; then the     *)
(* query of node free is freed.                                             *)
Calling(h, list, res, free) ==
  [h EXCEPT !.call = <<[list |-> list, res |-> res, free |-> free, ran |-> FALSE]>> \o @]

----------------------------------------------------------------------------
(* The queries for these families are sent; those in s arrive.              *)
Sent(h, n, fams) ==
  {[h EXCEPT !.node[n].sent = @ \cup s, !.lost = @ + Cardinality(fams \ s)] :
     s \in {t \in SUBSET fams : h.lost + Cardinality(fams \ t) <= MaxLost}}

(* ngx_resolver_send_query: the families not answered yet.                  *)
ngx_resolver_send_query(h, n) ==
  Sent(h, n, {f \in Families : h.node[n].na[f] = Unknown} \ h.node[n].sent)

Unqueued(h, n) ==
  [h EXCEPT !.resend = Remove(@, n), !.expire = Remove(@, n), !.ripe = @ \ {n}]

KeptNode(h, n) == [Unqueued(h, n) EXCEPT !.expire = <<n>> \o @]

Asked(h, n) == [Unqueued(h, n) EXCEPT !.resend = <<n>> \o @]

(* ngx_resolver_expire: two nodes at most.                                  *)
ngx_resolver_expire(h) ==
  LET Older(g) ==
        IF g.expire = <<>> \/ Last(g.expire) \notin g.ripe THEN g
        ELSE [Unqueued(g, Last(g.expire)) EXCEPT !.node[Last(g.expire)] = NoEntry]
  IN Older(Older(h))

(* Mutant: the timer stops although others wait for their queries.          *)
DoneStopsTimer(h, c) ==
  LET n == h.ctx[c].node
      g == IF n = NoName THEN h ELSE [h EXCEPT !.node[n].waiting = Remove(@, c)]
  IN [ngx_resolver_expire(g) EXCEPT !.ctx[c] = NoCtx, !.timer = FALSE]

(* ngx_resolve_name_done: a context that still waits leaves its node.       *)
ngx_resolve_name_done(h, c) ==
  LET n == h.ctx[c].node
      g == IF n = NoName THEN h ELSE [h EXCEPT !.node[n].waiting = Remove(@, c)]
      e == ngx_resolver_expire(g)
  IN [e EXCEPT !.ctx[c] = NoCtx, !.timer = @ /\ e.resend # <<>>]

----------------------------------------------------------------------------
(* The names that kept answers lead to from n, n first, in at most k steps. *)
Chain(h, n, k) ==
  LET Alias(m) == h.node[m].valid /\ h.node[m].cname # NoName
      at[i \in 0..k] == IF i = 0 THEN <<n>>
                        ELSE IF Alias(Last(at[i - 1]))
                        THEN Append(at[i - 1], h.node[Last(at[i - 1])].cname)
                        ELSE at[i - 1]
  IN at[k]

(* ngx_resolve_name_locked: a list of contexts asks for a name.             *)
ngx_resolve_name_locked(h, list, n) ==
  LET k == MaxRecursion - h.ctx[Head(list)].recursion
      chain == Chain(h, n, k)
      e == Last(chain)
      x == h.node[e]
      hits == SelectSeq(chain, LAMBDA m : h.node[m].valid)
      g == [FoldLeft(KeptNode, h, hits) EXCEPT
              !.ctx[Head(list)].recursion =
                 @ + Len(chain) - IF x.valid /\ x.cname # NoName THEN 0 ELSE 1]
      Waits(b, all) ==
        [b EXCEPT !.node[e].waiting = all,
                  !.ctx = [c \in Ctxs |->
                             IF c \in ToSet(all)
                             THEN [b.ctx[c] EXCEPT !.node = e]
                             ELSE b.ctx[c]]]
      new == [Unqueued(g, e) EXCEPT !.node[e] =
                [NoEntry EXCEPT !.here = TRUE, !.query = TRUE,
                               !.na = [f \in Families |-> Unknown]]]
  IN IF x.valid
     THEN {Calling([g EXCEPT !.node[e].waiting = <<>>], list \o x.waiting,
                   IF x.cname = NoName THEN Found(x) ELSE Outcome("nxdomain"), NoName)}
     ELSE IF x.waiting # <<>> THEN {Waits(g, list \o x.waiting)}
     ELSE IF e \in Bad THEN {Calling(g, list, Outcome("nxdomain"), NoName)}
     ELSE {Waits([Asked(b, e) EXCEPT !.timer = @ \/ b.resend = <<>>], list) :
             b \in ngx_resolver_send_query(new, e)}

(* ngx_resolve_name: by an event, or by the request whose handler has just  *)
(* been called.                                                             *)
ngx_resolve_name(c) ==
  /\ rs.ctx[c] = NoCtx /\ rs.asks < MaxAsks
  /\ rs.call # <<>> => Head(rs.call).ran
  /\ \E n \in Names :
       rs' \in ngx_resolve_name_locked(
                 [rs EXCEPT !.ctx[c].name = n, !.asks = @ + 1], <<c>>, n)

(* One turn of a loop that calls the handlers; a handler finishes its       *)
(* context.  In the end the query is freed.                                 *)
CallHandler ==
  /\ rs.call # <<>>
  /\ LET f == Head(rs.call)
         c == Head(f.list)
         h == [rs EXCEPT !.call = Tail(@)]
     IN rs' = IF f.list # <<>>
              THEN ngx_resolve_name_done(
                     [rs EXCEPT !.call[1].list = Tail(@), !.call[1].ran = TRUE,
                                !.ctx[c].node = NoName], c)
              ELSE IF f.free = NoName THEN h
              ELSE [h EXCEPT !.node[f.free].query = FALSE, !.node[f.free].sent = {}]

(* ngx_resolver_timeout_handler, whose handler gives up; or the request     *)
(* ends before the answer.                                                  *)
ngx_resolver_timeout_handler(c) ==
  /\ rs.call = <<>> /\ rs.ctx[c].node # NoName
  /\ rs' = ngx_resolve_name_done(rs, c)

----------------------------------------------------------------------------
(* The ends of ngx_resolver_process_a.                                      *)
----------------------------------------------------------------------------
(* The name is forgotten, and all are told.                                 *)
FailName(h, n, code) ==
  Calling([Unqueued(h, n) EXCEPT !.node[n] = NoEntry], h.node[n].waiting, Outcome(code), NoName)

(* The addresses are kept, and all get them.                                *)
Export(h, n) ==
  Calling([KeptNode(h, n) EXCEPT !.node[n].valid = TRUE, !.node[n].waiting = <<>>],
          h.node[n].waiting, Found(h.node[n]), n)

(* The name stands for m: all ask for that.                                 *)
FollowCname(h, n, m) ==
  LET list == h.node[n].waiting
      g == [KeptNode(h, n) EXCEPT !.node[n].cname = m, !.node[n].valid = TRUE,
                              !.node[n].query = FALSE, !.node[n].sent = {},
                              !.node[n].waiting = <<>>]
      c == Head(list)
  IN IF list = <<>> THEN {g}
     ELSE IF g.ctx[c].recursion >= MaxRecursion
     THEN {Calling(g, list, Outcome("nxdomain"), NoName)}
     ELSE ngx_resolve_name_locked([g EXCEPT !.ctx[c].recursion = @ + 1], list, m)

(* Mutant: the addresses of the first family are given out at once.         *)
ExportFirst(h, n, f, kind) ==
  LET x == h.node[n]
      g == [h EXCEPT !.node[n].na[f] = IF kind = "addr" THEN 1 ELSE 0]
      others == {x.na[o] : o \in Families \ {f}}
      found == kind = "addr" \/ \E v \in others : v > 0
      code == IF kind = "error" THEN "error" ELSE x.code
  IN IF code # "" \/ (kind = "empty" /\ ~found)
     THEN IF Unknown \in others THEN {[g EXCEPT !.node[n].code = code]}
          ELSE {FailName(g, n, IF code # "" THEN code ELSE "nxdomain")}
     ELSE IF found THEN {Export(g, n)}
     ELSE IF kind # "cname" \/ Unknown \in others THEN {g}
     ELSE FollowCname(g, n, h.zone[n].cname)

(* The first family's answer waits for the second's.                        *)
Answered(h, n, f, kind) ==
  LET x == h.node[n]
      g == [h EXCEPT !.node[n].na[f] = IF kind = "addr" THEN 1 ELSE 0]
      others == {x.na[o] : o \in Families \ {f}}
      found == kind = "addr" \/ \E v \in others : v > 0
      code == IF kind = "error" THEN "error" ELSE x.code
  IN IF code # "" \/ (kind = "empty" /\ ~found)
     THEN IF Unknown \in others THEN {[g EXCEPT !.node[n].code = code]}
          ELSE {FailName(g, n, IF code # "" THEN code ELSE "nxdomain")}
     ELSE IF Unknown \in others THEN {g}
     ELSE IF found THEN {Export(g, n)}
     ELSE IF kind # "cname" THEN {g}
     ELSE FollowCname(g, n, h.zone[n].cname)

(* The response to a query of this node that is not answered yet.           *)
Expected(n, f) ==
  /\ rs.call = <<>>
  /\ rs.node[n].query
  /\ f \in rs.node[n].sent
  /\ rs.node[n].na[f] = Unknown

ngx_resolver_process_a(n, f) ==
  /\ Expected(n, f)
  /\ rs' \in Answered(rs, n, f, IF rs.zone[n].cname # NoName THEN "cname"
                                ELSE rs.zone[n].has[f])

(* The server fails.                                                        *)
ErrorResponse(n, f) ==
  /\ Expected(n, f) /\ rs.errors < MaxErrors
  /\ rs' \in Answered([rs EXCEPT !.errors = @ + 1], n, f, "error")

(* The response does not fit into a datagram: TCP is tried, for that        *)
(* family.                                                                  *)
Truncated(n, f) ==
  /\ Expected(n, f) /\ rs.errors < MaxErrors
  /\ f \notin rs.node[n].tcp
  /\ LET h == [rs EXCEPT !.errors = @ + 1]
         again == [h EXCEPT !.node[n].tcp = @ \cup {f}, !.node[n].sent = @ \ {f}]
     IN rs' \in IF h.node[n].waiting = <<>>
                THEN {[Unqueued(h, n) EXCEPT !.node[n] = NoEntry]}
                ELSE {Asked(b, n) : b \in Sent(again, n, {f})}

----------------------------------------------------------------------------
(* ngx_resolver_resend: a node whose time has come is asked for again, or   *)
(* forgotten if nobody waits for it.                                        *)
ResendLast(h) ==
  LET n == Last(h.resend)
  IN IF h.node[n].waiting # <<>>
     THEN {Asked(b, n) : b \in ngx_resolver_send_query(h, n)}
     ELSE {[Unqueued(h, n) EXCEPT !.node[n] = NoEntry]}

(* ngx_resolver_resend_handler, for the last k nodes.                       *)
ngx_resolver_resend_handler ==
  /\ rs.call = <<>> /\ rs.timer
  /\ \E k \in 0..Len(rs.resend) :
       /\ k = 0 => rs.resend = <<>>
       /\ LET after[i \in 0..k] ==
                IF i = 0 THEN {rs} ELSE UNION {ResendLast(h) : h \in after[i - 1]}
          IN \E h \in after[k] : rs' = [h EXCEPT !.timer = (h.resend # <<>>)]

(* Time passes: an answer is kept no longer, the oldest node is to go.      *)
Lapse(n) ==
  /\ rs.call = <<>> /\ rs.node[n].valid
  /\ rs' = [rs EXCEPT !.node[n].valid = FALSE]

Ripen ==
  LET young == SelectSeq(rs.expire, LAMBDA n : n \notin rs.ripe)
  IN /\ rs.call = <<>> /\ young # <<>>
     /\ rs' = [rs EXCEPT !.ripe = @ \cup {Last(young)}]

----------------------------------------------------------------------------
(* What comes about by itself: handlers are called, timers expire; and the  *)
(* servers answer what reaches them.                                        *)
RsProgress == CallHandler \/ ngx_resolver_resend_handler
RsServers == \E n \in Names, f \in Families : ngx_resolver_process_a(n, f)

RsNext ==
  \/ RsProgress
  \/ RsServers
  \/ \E c \in Ctxs : ngx_resolve_name(c)
  \/ \E c \in Ctxs \ Untimed : ngx_resolver_timeout_handler(c)
  \/ \E n \in Names, f \in Families : ErrorResponse(n, f) \/ Truncated(n, f)
  \/ \E n \in Names : Lapse(n)
  \/ Ripen

RsSpec == RsInit /\ [][RsNext]_rs

----------------------------------------------------------------------------
(* Where a context that has not been answered waits.                        *)
Lists(c) ==
  {<<"node", n>> : n \in {m \in Names : c \in ToSet(rs.node[m].waiting)}}
  \cup {<<"call", i>> : i \in {j \in 1..Len(rs.call) : c \in ToSet(rs.call[j].list)}}

(* Every node is in one queue, in the expire queue only if nobody waits for *)
(* it and in the other only with a query; the timer runs while one is to be *)
(* resent.  A context that waits is in one list, of the node it would be    *)
(* cancelled at, and no other context is in any.                            *)
NodesAccounted ==
  /\ IsInjective(rs.resend \o rs.expire)
  /\ ToSet(rs.resend \o rs.expire) = {n \in Names : rs.node[n].here}
  /\ rs.ripe \subseteq ToSet(rs.expire)
  /\ rs.resend # <<>> => rs.timer
  /\ \A n \in ToSet(rs.resend) : rs.node[n].query /\ ~rs.node[n].valid
  /\ \A n \in ToSet(rs.expire) : rs.node[n].waiting = <<>>
  /\ \A n \in Names : IsInjective(rs.node[n].waiting)
  /\ \A c \in Ctxs :
       /\ Cardinality(Lists(c)) = IF rs.ctx[c] = NoCtx THEN 0 ELSE 1
       /\ \A n \in Names : c \in ToSet(rs.node[n].waiting) => rs.ctx[c].node = n

(* What a name is, by the servers' knowledge.                               *)
Right(n) ==
  LET at[i \in 0..MaxRecursion] ==
        IF i = 0 THEN n
        ELSE LET m == at[i - 1]
             IN IF m \in Bad \/ rs.zone[m].cname = NoName THEN m ELSE rs.zone[m].cname
      e == at[MaxRecursion]
      fams == {f \in Families : rs.zone[e].has[f] = "addr"}
  IN IF e \in Bad \/ rs.zone[e].cname # NoName \/ fams = {} THEN Outcome("nxdomain")
     ELSE [state |-> "ok", fams |-> fams]

(* What the handlers are about to be told.  Whatever the order of the       *)
(* answers, whoever else asks and whatever is kept: a request gets all the  *)
(* addresses its name has, by its aliases, and is told that there are none  *)
(* only if so.  An error has a cause.                                       *)
AnswersRight ==
  \A i \in 1..Len(rs.call) :
    LET f == rs.call[i]
    IN IF f.res.state = "error" THEN rs.errors > 0
       ELSE \A c \in ToSet(f.list) : f.res = Right(rs.ctx[c].name)

(* The resolver's bookkeeping and its answers.                              *)
ResolverSound == NodesAccounted /\ AnswersRight

(* All families of the name have answered, with nothing of use: no query is *)
(* sent any more, and only the context's own timer helps.                   *)
Unusable(c) ==
  \E n \in Names : /\ c \in ToSet(rs.node[n].waiting)
                   /\ \A f \in Families : rs.node[n].na[f] # Unknown

(* A request that asks is answered, even without a timeout of its own, as   *)
(* long as queries get through and answers are of use.                      *)
ResolveEnds ==
  \A c \in Ctxs : rs.ctx[c] # NoCtx ~> rs.ctx[c] = NoCtx \/ Unusable(c)
=============================================================================
