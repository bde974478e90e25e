------------------------------ MODULE Upstream ------------------------------
(***************************************************************************)
(* Proxied requests of one worker: ngx_http_upstream.c over the round robin *)
(* balancer (RoundRobin) and the cache of idle connections of               *)
(* ngx_http_upstream_keepalive_module.c.  A request makes attempts, each    *)
(* with a server it takes from the balancer, until one answers or the rules *)
(* of ngx_http_upstream_next end the request.                               *)
(*                                                                          *)
(* The worker runs one handler at a time; a handler that goes from one      *)
(* attempt to the next is several steps here, states "connect" and "send",  *)
(* and nothing else runs meanwhile (Quiet).  The functions of the code that *)
(* handlers call are operators on a bundle of the request, the servers, the *)
(* cache and the open connections.  TLS handshakes, upgraded connections    *)
(* and preserve_output (gRPC) are left out; a server that is marked down is *)
(* a server that is not in the lists.                                       *)
(***************************************************************************)
EXTENDS RoundRobin

CONSTANTS
  Requests,      \* the requests
  Kinds,         \* what each request may be: "safe", "post" (a method that is
                 \* not idempotent), "stream" (request_body_no_buffering)
  NextUpstream,  \* the failures proxy_next_upstream lists
  MaxTries,      \* proxy_next_upstream_tries, 0 for no limit
  NextTimeout,   \* proxy_next_upstream_timeout, 0 for none
  KaSize,        \* the connections the directive keepalive keeps
  MaxBlocks,     \* bound: how often an attempt blocks while it sends the body
  MaxUpTime      \* bound: the clock stops here

ASSUME UpstreamAssumption ==
  /\ IsFiniteSet(Requests)
  /\ Kinds \in [Requests -> SUBSET {"safe", "post", "stream"}]
  /\ {MaxTries, NextTimeout, KaSize, MaxBlocks, MaxUpTime} \subseteq Nat

VARIABLES
  upTime,     \* ngx_time()
  req,        \* each request with its ngx_http_upstream_t
  peers,      \* the servers
  kaCache,    \* the idle connections, the latest first
  sockets     \* the server each connection goes to, NoPeer when it is closed

upVars == <<upTime, req, peers, kaCache, sockets>>

Conns == 1..(Cardinality(Requests) + KaSize)
NoConn == 0

Fresh ==
  [st |-> "idle",          \* where the request is
   kind |-> "safe",
   tried |-> {}, backup |-> FALSE, cur |-> NoPeer,   \* rrp
   tries |-> 0, start |-> 0,
   sockaddr |-> FALSE,     \* u->peer.sockaddr: a server is taken
   conn |-> NoConn, cached |-> FALSE,
   sent |-> FALSE,         \* u->request_sent
   body |-> FALSE,         \* u->request_body_sent
   header |-> FALSE,       \* u->header_sent
   blocks |-> 0,           \* how often sending the body may still block
   wtimer |-> FALSE,       \* c->write->timer_set
   whandler |-> FALSE,     \* u->write_event_handler is not the dummy one
   error |-> FALSE,        \* r->connection->error, the client has gone
   sends |-> 0]            \* how many attempts wrote the request; for NoResend

UpInit ==
  /\ upTime = 0
  /\ req = [r \in Requests |-> Fresh]
  /\ peers = FreshPeers
  /\ kaCache = <<>>
  /\ sockets = [c \in Conns |-> NoPeer]

Bundle(r) == [q |-> req[r], peers |-> peers, cache |-> kaCache, sockets |-> sockets]

Set(r, bundle) ==
  \E b \in {bundle} :
    /\ req' = [req EXCEPT ![r] = b.q]
    /\ peers' = b.peers
    /\ kaCache' = b.cache
    /\ sockets' = b.sockets
    /\ UNCHANGED upTime

Without(s, i) == SubSeq(s, 1, i - 1) \o SubSeq(s, i + 1, Len(s))

Closed(b, cs) == [c \in Conns |-> IF c \in cs THEN NoPeer ELSE b.sockets[c]]

----------------------------------------------------------------------------
(* ngx_http_upstream_free_keepalive_peer: the connection of an attempt that *)
(* has not failed is kept, in place of the one idle longest when the cache  *)
(* is full.  keep says what the answer and the socket allow: "no", "yes",   *)
(* or "gone" when the socket is readable already, which closes it again.    *)
Keepable(b, failed, keep) ==
  KaSize > 0 /\ ~failed /\ keep # "no" /\ b.q.conn # NoConn /\ b.q.body

Kept(b, keep) ==
  LET full == Len(b.cache) = KaSize
      rest == IF full THEN SubSeq(b.cache, 1, KaSize - 1) ELSE b.cache
      shut == (IF full THEN {b.cache[KaSize]} ELSE {})
              \cup (IF keep = "gone" THEN {b.q.conn} ELSE {})
  IN  [b EXCEPT !.cache = IF keep = "gone" THEN rest ELSE <<b.q.conn>> \o rest,
                !.sockets = Closed(b, shut),
                !.q.conn = NoConn]

(* u->peer.free(), the keepalive module's, which calls the balancer's.      *)
FreePeer(b, failed, keep) ==
  LET k == IF Keepable(b, failed, keep) THEN Kept(b, keep) ELSE b
  IN  [k EXCEPT !.peers = ngx_http_upstream_free_round_robin_peer(
                            k.peers, k.q.cur, failed, upTime),
                !.q.tries = TriesAfterFree(@),
                !.q.sockaddr = FALSE]

CloseConn(b) ==
  [b EXCEPT !.sockets = Closed(b, {b.q.conn}), !.q.conn = NoConn,
            !.q.wtimer = FALSE]

(* Mutant: a request that ends early does not give its server back.         *)
FinalizeKeepsPeer(b, keep) ==
  [CloseConn(b) EXCEPT !.q = [Fresh EXCEPT !.st = "done", !.kind = b.q.kind]]

(* ngx_http_upstream_finalize_request: the request and its memory are gone. *)
ngx_http_upstream_finalize_request(b, keep) ==
  LET f == IF b.q.sockaddr THEN FreePeer(b, FALSE, keep) ELSE b
  IN  [CloseConn(f) EXCEPT
        !.q = [Fresh EXCEPT !.st = "done", !.kind = b.q.kind,
                            !.sends = b.q.sends]]

(* Mutant: the flag is not asked for when a request failed on a connection  *)
(* of the cache.                                                            *)
NeededUnlessCached(q, ft) ==
  {ft} \cup (IF q.sent /\ q.kind = "post" /\ ~q.cached
             THEN {"non_idempotent"} ELSE {})

(* What proxy_next_upstream has to list for another attempt after ft.       *)
Needed(q, ft) ==
  {ft} \cup (IF q.sent /\ q.kind = "post" THEN {"non_idempotent"} ELSE {})

MayGoOn(q, ft) ==
  /\ Needed(q, ft) \subseteq NextUpstream
  /\ ~(q.sent /\ q.kind = "stream")
  /\ ~(NextTimeout > 0 /\ upTime - q.start >= NextTimeout)

(* ngx_http_upstream_next                                                   *)
ngx_http_upstream_next(b, ft, keep) ==
  LET f == IF b.q.sockaddr THEN FreePeer(b, ft # "http_404", keep) ELSE b
      t == IF b.q.cached /\ ft = "error" THEN [f EXCEPT !.q.tries = @ + 1] ELSE f
  IN  IF t.q.error \/ t.q.tries = 0 \/ ~MayGoOn(t.q, ft)
      THEN ngx_http_upstream_finalize_request(t, "no")
      ELSE [CloseConn(t) EXCEPT !.q.st = "connect"]

----------------------------------------------------------------------------
(* No handler is under way.                                                 *)
Quiet == \A r \in Requests : req[r].st \notin {"connect", "send"}

(* ngx_http_upstream_init_request for a request of some kind                *)
ngx_http_upstream_init_request(r) ==
  /\ Quiet
  /\ req[r].st = "idle"
  /\ \E kind \in Kinds[r] :
       req' = [req EXCEPT ![r].st = "connect", ![r].kind = kind,
                          ![r].start = upTime,
                          ![r].tries =
                            IF MaxTries > 0 /\ MaxTries < ngx_http_upstream_tries
                            THEN MaxTries ELSE ngx_http_upstream_tries]
  /\ UNCHANGED <<upTime, peers, kaCache, sockets>>

(* Mutant: no timer for the connection that is being made.                  *)
ConnectedUntimed(b, c, cached, st) ==
  [b EXCEPT !.q.st = st, !.q.conn = c, !.q.cached = cached,
            !.q.sent = FALSE, !.q.body = FALSE, !.q.blocks = MaxBlocks,
            !.q.whandler = TRUE, !.sockets[c] = b.q.cur]

(* The request is bound to a connection to its server: ngx_http_upstream_   *)
(* connect after ngx_event_connect_peer returned OK, AGAIN or DONE.         *)
Connected(b, c, cached, st) ==
  [b EXCEPT !.q.st = st, !.q.conn = c, !.q.cached = cached,
            !.q.sent = FALSE, !.q.body = FALSE, !.q.blocks = MaxBlocks,
            !.q.whandler = TRUE,
            !.q.wtimer = (st = "connecting"),
            !.sockets[c] = b.q.cur]

(* ngx_http_upstream_connect: a server from the balancer, then an idle      *)
(* connection to it or a new one.                                           *)
ngx_http_upstream_connect(r) ==
  /\ req[r].st = "connect"
  /\ \E got \in {ngx_http_upstream_get_round_robin_peer(
                  peers, req[r].tried, req[r].backup, upTime)} :
     \E b \in {[Bundle(r) EXCEPT
                 !.peers = got.peers, !.q.tried = got.tried,
                 !.q.backup = got.backup, !.q.cur = got.peer,
                 !.q.sockaddr = (got.peer # NoPeer), !.q.cached = FALSE]} :
       LET idle == {i \in 1..Len(kaCache) : sockets[kaCache[i]] = got.peer}
           i == CHOOSE i \in idle : \A j \in idle : i <= j
           c == CHOOSE c \in Conns : sockets[c] = NoPeer
       IN  \/ /\ got.peer = NoPeer
              /\ Set(r, ngx_http_upstream_next(b, "nolive", "no"))
           \/ /\ got.peer # NoPeer /\ idle # {}
              /\ Set(r, Connected([b EXCEPT !.cache = Without(@, i)],
                                   kaCache[i], TRUE, "send"))
           \/ /\ got.peer # NoPeer /\ idle = {}
              /\ \/ Set(r, Connected(b, c, FALSE, "connecting"))
                 \/ Set(r, Connected(b, c, FALSE, "send"))
                 \/ Set(r, ngx_http_upstream_finalize_request(b, "no"))
                 \/ Set(r, ngx_http_upstream_next(b, "error", "no"))

(* ngx_http_upstream_send_request with the outcomes of test_connect and of  *)
(* the output chain.                                                        *)
ngx_http_upstream_send_request(r) ==
  LET b == Bundle(r)
      w == [b EXCEPT !.q.sent = TRUE,
                     !.q.sends = IF b.q.sent THEN @ ELSE @ + 1]
  IN  /\ req[r].st = "send"
      /\ \/ ~b.q.sent /\ Set(r, ngx_http_upstream_next(b, "error", "no"))
         \/ Set(r, ngx_http_upstream_next(w, "error", "no"))
         \/ Set(r, ngx_http_upstream_finalize_request(w, "no"))
         \/ /\ b.q.blocks > 0
            /\ \E t \in {TRUE} \cup (IF b.q.kind = "stream" THEN {FALSE} ELSE {}) :
                 Set(r, [w EXCEPT !.q.st = "sending", !.q.wtimer = t,
                                  !.q.blocks = @ - 1])
         \/ Set(r, [w EXCEPT !.q.st = "waiting", !.q.body = TRUE,
                             !.q.wtimer = FALSE, !.q.whandler = FALSE])

(* ngx_http_upstream_send_request_handler on a write event                  *)
WriteEvent(r) ==
  /\ Quiet
  /\ \/ /\ req[r].st \in {"connecting", "sending"}
        /\ req' = [req EXCEPT ![r].st = "send"]
     \/ /\ req[r].st = "response" /\ req[r].whandler
        /\ req' = [req EXCEPT ![r].whandler = FALSE]
  /\ UNCHANGED <<upTime, peers, kaCache, sockets>>

(* The same handler on the write timer, also while a response is passed on. *)
WriteTimeout(r) ==
  /\ Quiet
  /\ req[r].wtimer
  /\ Set(r, IF req[r].whandler
            THEN ngx_http_upstream_next(Bundle(r), "timeout", "no")
            ELSE [Bundle(r) EXCEPT !.q.wtimer = FALSE])

(* ngx_http_upstream_send_response: a header goes to the client once.  A    *)
(* server that speaks as soon as it is connected is also writable, and the  *)
(* write event that comes with the read event is the last one handled.      *)
ngx_http_upstream_send_response(r) ==
  \/ Set(r, ngx_http_upstream_finalize_request(Bundle(r), "no"))
  \/ /\ ~req[r].header
     /\ Set(r, [Bundle(r) EXCEPT !.q.header = TRUE, !.q.st = "response",
                                 !.q.whandler = @ /\ req[r].st # "connecting"])

(* ngx_http_upstream_process_header, with the answers of the server: none   *)
(* or a bad one, a 404, which ngx_http_upstream_test_next may turn into     *)
(* another attempt, or one to pass on.                                      *)
ngx_http_upstream_process_header(r) ==
  LET q == req[r]
  IN  /\ Quiet
      /\ q.st \in {"connecting", "sending", "waiting"}
      /\ \/ \E ft \in {"error", "invalid_header"} :
              Set(r, ngx_http_upstream_next(Bundle(r), ft, "no"))
         \/ IF q.tries > 1 /\ MayGoOn(q, "http_404")
            THEN \E keep \in {"no", "yes"} :
                   Set(r, ngx_http_upstream_next(Bundle(r), "http_404", keep))
            ELSE ngx_http_upstream_send_response(r)
         \/ ngx_http_upstream_send_response(r)

(* The read timer, which send_request arms while no header has been sent.   *)
ReadTimeout(r) ==
  /\ Quiet
  /\ req[r].st = "waiting" /\ ~req[r].header
  /\ Set(r, ngx_http_upstream_next(Bundle(r), "timeout", "no"))

(* ngx_http_upstream_process_request and its kin: the response ends, well   *)
(* or not.                                                                  *)
ResponseEnds(r) ==
  /\ Quiet
  /\ req[r].st = "response"
  /\ \E keep \in {"no", "yes", "gone"} :
       Set(r, ngx_http_upstream_finalize_request(Bundle(r), keep))

(* ngx_http_upstream_check_broken_connection: the client goes; a response   *)
(* that is to be cached is read to its end.  Also the client's read timer   *)
(* while an unbuffered body is sent.                                        *)
ClientGone(r) ==
  /\ Quiet
  /\ req[r].st \in {"connecting", "sending", "waiting", "response"}
  /\ \/ Set(r, ngx_http_upstream_finalize_request(Bundle(r), "no"))
     \/ ~req[r].error /\ Set(r, [Bundle(r) EXCEPT !.q.error = TRUE])

(* ngx_http_upstream_read_request_handler: the rest of an unbuffered body   *)
(* comes, or does not come in time.                                         *)
ngx_http_upstream_read_request_handler(r) ==
  /\ Quiet
  /\ req[r].st = "sending" /\ req[r].kind = "stream"
  /\ \/ Set(r, [Bundle(r) EXCEPT !.q.st = "send"])
     \/ Set(r, ngx_http_upstream_finalize_request(Bundle(r), "no"))

(* ngx_http_upstream_keepalive_close_handler                                *)
ngx_http_upstream_keepalive_close_handler(i) ==
  /\ Quiet
  /\ i \in 1..Len(kaCache)
  /\ kaCache' = Without(kaCache, i)
  /\ sockets' = [sockets EXCEPT ![kaCache[i]] = NoPeer]
  /\ UNCHANGED <<upTime, req, peers>>

UpTick ==
  /\ Quiet
  /\ upTime < MaxUpTime
  /\ upTime' = upTime + 1
  /\ UNCHANGED <<req, peers, kaCache, sockets>>

(* The steps that a handler under way, an armed timer or the end of a       *)
(* response brings about by itself.                                         *)
UpProgress(r) ==
  \/ ngx_http_upstream_connect(r)
  \/ ngx_http_upstream_send_request(r)
  \/ WriteTimeout(r)
  \/ ReadTimeout(r)
  \/ ResponseEnds(r)
  \/ ngx_http_upstream_read_request_handler(r)

UpNext ==
  \/ \E r \in Requests :
       \/ ngx_http_upstream_init_request(r)
       \/ UpProgress(r)
       \/ WriteEvent(r)
       \/ ngx_http_upstream_process_header(r)
       \/ ClientGone(r)
  \/ \E i \in 1..KaSize : ngx_http_upstream_keepalive_close_handler(i)
  \/ UpTick

UpSpec == UpInit /\ [][UpNext]_upVars

----------------------------------------------------------------------------
(* Each server's count of connections is the number of attempts that hold   *)
(* it, within its limit, and the weights the balancer moves between the     *)
(* servers of a list always add up to nothing; an open connection has one   *)
(* owner, a request or a place in the cache, and goes to the server its     *)
(* request took.  No path through the errors, retries and aborts takes a    *)
(* server or a connection without giving it back once.                      *)
PeersAccounted ==
  LET owner(c) == {r \in Requests : req[r].conn = c}
                  \cup {i \in 1..Len(kaCache) : kaCache[i] = c}
  IN  /\ \A p \in Peers :
           /\ peers[p].conns =
                Cardinality({r \in Requests : req[r].sockaddr /\ req[r].cur = p})
           /\ MaxConns[p] = 0 \/ peers[p].conns <= MaxConns[p]
      /\ \A list \in {Primary, Backup} :
           SumOver([p \in Peers |-> peers[p].current], InList(list)) = 0
      /\ \A c \in Conns :
           Cardinality(owner(c)) = IF sockets[c] = NoPeer THEN 0 ELSE 1
      /\ \A r \in Requests : req[r].conn # NoConn /\ req[r].sockaddr
                               => sockets[req[r].conn] = req[r].cur

(* Unless the configuration says so, a request that may not be repeated, or *)
(* whose body is gone once it is sent, is written to one server at most.    *)
NoResend ==
  \A r \in Requests :
    req[r].sends > 1 => \/ req[r].kind = "safe"
                        \/ req[r].kind = "post" /\ "non_idempotent" \in NextUpstream

(* No new attempt is made for a request whose client has the header of a    *)
(* response.  The code does not keep to it: see WriteTimeout.               *)
NoRetryAfterHeader ==
  \A r \in Requests : req[r].st = "connect" => ~req[r].header

(* Every request ends, unless it makes another attempt after the header of  *)
(* a response, for which no read timer is armed.                            *)
UpstreamEnds ==
  \A r \in Requests :
    req[r].st = "connect" ~> \/ req[r].st = "done"
                             \/ req[r].st = "waiting" /\ req[r].header
=============================================================================
