----------------------------- MODULE RoundRobin -----------------------------
(***************************************************************************)
(* The weighted round robin balancer of ngx_http_upstream_round_robin.c:    *)
(* the state of the servers of one upstream group and the functions that    *)
(* take a server for an attempt and give it back.  The group has a list of  *)
(* primary servers and, perhaps, one of backup servers; a request tries     *)
(* each server of a list at most once.                                      *)
(*                                                                          *)
(* The functions run under the group's lock (Rwlock), so each is one step.  *)
(* They are operators on the table of the servers, for Upstream to compose. *)
(***************************************************************************)
EXTENDS Integers, Sequences, FiniteSets, FiniteSetsExt

CONSTANTS
  Primary,      \* the list of the primary servers
  Backup,       \* the list of the backup servers, perhaps empty
  Weight,       \* the weight of each server
  MaxFails,     \* max_fails, 0 to count no failures
  MaxConns,     \* max_conns of each server, 0 for no limit
  FailTimeout,  \* fail_timeout
  NoPeer        \* no server: NGX_BUSY

InList(list) == {list[i] : i \in 1..Len(list)}

Peers == InList(Primary) \cup InList(Backup)

ASSUME RoundRobinAssumption ==
  /\ Primary \in Seq(Peers) /\ Backup \in Seq(Peers)
  /\ Cardinality(Peers) = Len(Primary) + Len(Backup)
  /\ Len(Primary) > 0
  /\ Weight \in [Peers -> Nat \ {0}]
  /\ MaxConns \in [Peers -> Nat]
  /\ MaxFails \in Nat
  /\ FailTimeout \in Nat
  /\ NoPeer \notin Peers

(* peers->single: one server and no backup list                             *)
Single == Len(Primary) = 1 /\ Backup = <<>>

(* ngx_http_upstream_tries                                                  *)
ngx_http_upstream_tries == Len(Primary) + Len(Backup)

(* ngx_http_upstream_rr_peer_t as the group's initialisation leaves it.     *)
FreshPeers ==
  [p \in Peers |-> [conns |-> 0, fails |-> 0, accessed |-> 0, checked |-> 0,
                    current |-> 0, effective |-> Weight[p]]]

(* A total over a set of servers, each taken once.                          *)
SumOver(f, S) == MapThenSumSet(LAMBDA x : f[x], S)

(* What the loop of ngx_http_upstream_get_peer does not skip.               *)
Usable(peers, p, tried, now) ==
  /\ p \notin tried
  /\ ~ /\ MaxFails # 0
       /\ peers[p].fails >= MaxFails
       /\ now - peers[p].checked <= FailTimeout
  /\ ~ (MaxConns[p] # 0 /\ peers[p].conns >= MaxConns[p])

(* ngx_http_upstream_get_peer: every usable server gains its effective      *)
(* weight, the first with the most is taken and pays for all.               *)
ngx_http_upstream_get_peer(peers, list, tried, now) ==
  LET usable == {i \in 1..Len(list) : Usable(peers, list[i], tried, now)}
      now_has(i) == peers[list[i]].current + peers[list[i]].effective
      total == SumOver([p \in Peers |-> peers[p].effective], {list[i] : i \in usable})
      best == CHOOSE i \in usable : \A j \in usable :
                \/ now_has(i) > now_has(j)
                \/ now_has(i) = now_has(j) /\ i <= j
      weighed(p) ==
        IF \E i \in usable : list[i] = p
        THEN [peers[p] EXCEPT
               !.current = @ + peers[p].effective,
               !.effective = IF @ < Weight[p] THEN @ + 1 ELSE @]
        ELSE peers[p]
  IN  IF usable = {}
      THEN [peer |-> NoPeer, peers |-> peers]
      ELSE [peer |-> list[best],
            peers |-> [p \in Peers |->
              IF p = list[best]
              THEN [weighed(p) EXCEPT
                     !.current = @ - total,
                     !.checked = IF now - @ > FailTimeout THEN now ELSE @]
              ELSE weighed(p)]]

Taken(got, tried, backup) ==
  [peer |-> got.peer, tried |-> tried \cup {got.peer}, backup |-> backup,
   peers |-> [got.peers EXCEPT ![got.peer].conns = @ + 1]]

(* ngx_http_upstream_get_round_robin_peer: the backup list takes over, for  *)
(* the rest of the request, once the primary one has nothing to offer.      *)
ngx_http_upstream_get_round_robin_peer(peers, tried, backup, now) ==
  LET busy(t, b) == [peer |-> NoPeer, tried |-> t, backup |-> b, peers |-> peers]
      here == IF backup THEN Backup ELSE Primary
      first == ngx_http_upstream_get_peer(peers, here, tried, now)
      second == ngx_http_upstream_get_peer(peers, Backup, {}, now)
  IN  CASE Single ->
             IF MaxConns[Primary[1]] # 0
                  /\ peers[Primary[1]].conns >= MaxConns[Primary[1]]
             THEN busy(tried, backup)
             ELSE Taken([peer |-> Primary[1], peers |-> peers], tried, backup)
        [] ~Single /\ first.peer # NoPeer -> Taken(first, tried, backup)
        [] ~Single /\ first.peer = NoPeer /\ ~backup /\ Backup # <<>> ->
             IF second.peer # NoPeer THEN Taken(second, {}, TRUE)
                                     ELSE busy({}, TRUE)
        [] OTHER -> busy(tried, backup)

(* ngx_http_upstream_free_round_robin_peer, but for pc->tries               *)
ngx_http_upstream_free_round_robin_peer(peers, p, failed, now) ==
  LET loss == IF MaxFails = 0 THEN 0 ELSE Weight[p] \div MaxFails
      after == IF peers[p].effective > loss THEN peers[p].effective - loss ELSE 0
      freed == [peers EXCEPT ![p].conns = @ - 1]
  IN  CASE Single -> freed
        [] ~Single /\ failed ->
             [freed EXCEPT ![p].fails = @ + 1, ![p].accessed = now,
                           ![p].checked = now, ![p].effective = after]
        [] OTHER ->
             [freed EXCEPT ![p].fails =
               IF peers[p].accessed < peers[p].checked THEN 0 ELSE @]

(* The number of attempts left after a server is given back.                *)
TriesAfterFree(tries) ==
  IF Single THEN 0 ELSE IF tries > 0 THEN tries - 1 ELSE 0
=============================================================================
