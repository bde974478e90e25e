--------------------------- MODULE UpstreamProofs ---------------------------
(***************************************************************************)
(* Proofs about proxied requests and what they share: the requests of       *)
(* Upstream with their servers and connections, for any requests, servers,  *)
(* weights, limits and configuration of proxy_next_upstream; the            *)
(* reader-writer lock that guards their servers (Rwlock), for every number  *)
(* of processes that is below the largest lock word, and any number of      *)
(* deaths; and the entry of the file cache that they fill (FileCache), for  *)
(* every number of requests, every set of sizes and any number of deaths.   *)
(***************************************************************************)
EXTENDS Upstream, Rwlock, FileCache, SequenceLemmas

-----------------------------------------------------------------------------
(* Upstream.                                                                *)

Fields == {"st", "kind", "tried", "backup", "cur", "tries", "start", "sockaddr",
           "conn", "cached", "sent", "body", "header", "blocks", "wtimer",
           "whandler", "error", "sends"}

(* The records the handlers work on.                                        *)
Shape(q)    == DOMAIN q = Fields
IsBundle(b) == DOMAIN b = {"q", "peers", "cache", "sockets"} /\ Shape(b.q)

(* What NoResend depends on, and no function below changes but the three    *)
(* that are about it.                                                       *)
Alike(p, q) == p.st = q.st /\ p.kind = q.kind /\ p.sent = q.sent /\ p.sends = q.sends

LEMMA FreshShape ==
  Shape(Fresh) /\ Fresh.st = "idle" /\ Fresh.kind = "safe" /\ ~Fresh.sent
  /\ Fresh.sends = 0 /\ ~Fresh.wtimer
BY DEF Shape, Fresh, Fields

LEMMA BundleShape ==
  ASSUME NEW r, Shape(req[r])
  PROVE  IsBundle(Bundle(r)) /\ Bundle(r).q = req[r]
BY DEF Bundle, IsBundle

(* Giving a server back and closing a connection leave the request's        *)
(* progress alone.                                                          *)
LEMMA KeptKeeps ==
  ASSUME NEW b, IsBundle(b), NEW keep
  PROVE  IsBundle(Kept(b, keep)) /\ Alike(Kept(b, keep).q, b.q)
BY DEF Kept, IsBundle, Shape, Fields, Alike

LEMMA FreePeerKeeps ==
  ASSUME NEW b, IsBundle(b), NEW failed, NEW keep
  PROVE  IsBundle(FreePeer(b, failed, keep)) /\ Alike(FreePeer(b, failed, keep).q, b.q)
<1> DEFINE k == IF Keepable(b, failed, keep) THEN Kept(b, keep) ELSE b
           f == [k EXCEPT !.peers = ngx_http_upstream_free_round_robin_peer(
                                      k.peers, k.q.cur, failed, upTime),
                          !.q.tries = TriesAfterFree(@),
                          !.q.sockaddr = FALSE]
<1>1. IsBundle(k) /\ Alike(k.q, b.q)
  BY KeptKeeps DEF Alike
<1> HIDE DEF k
<1>2. IsBundle(f) /\ Alike(f.q, k.q)
  BY <1>1 DEF IsBundle, Shape, Fields, Alike
<1>3. FreePeer(b, failed, keep) = f
  BY DEF FreePeer, k
<1> QED
  BY <1>1, <1>2, <1>3 DEF Alike

LEMMA CloseConnKeeps ==
  ASSUME NEW b, IsBundle(b)
  PROVE  IsBundle(CloseConn(b)) /\ Alike(CloseConn(b).q, b.q)
BY DEF CloseConn, IsBundle, Shape, Fields, Alike

(* A request that ends keeps its count of attempts that wrote it.           *)
LEMMA FinalizeEnds ==
  ASSUME NEW b, IsBundle(b), NEW keep
  PROVE  LET f == ngx_http_upstream_finalize_request(b, keep)
         IN  /\ Shape(f.q) /\ f.q.st = "done" /\ f.q.kind = b.q.kind
             /\ f.q.sends = b.q.sends /\ ~f.q.wtimer
<1> DEFINE g == IF b.q.sockaddr THEN FreePeer(b, FALSE, keep) ELSE b
           h == CloseConn(g)
           f == [h EXCEPT !.q = [Fresh EXCEPT !.st = "done", !.kind = b.q.kind,
                                              !.sends = b.q.sends]]
<1>1. IsBundle(g)
  BY FreePeerKeeps
<1> HIDE DEF g
<1>2. IsBundle(h)
  BY <1>1, CloseConnKeeps
<1> HIDE DEF h
<1>3. /\ Shape(f.q) /\ f.q.st = "done" /\ f.q.kind = b.q.kind
      /\ f.q.sends = b.q.sends /\ ~f.q.wtimer
  BY <1>2, FreshShape DEF IsBundle, Shape, Fields
<1>4. ngx_http_upstream_finalize_request(b, keep) = f
  BY DEF ngx_http_upstream_finalize_request, g, h
<1> QED
  BY <1>3, <1>4

(* After a failure the request ends, or it makes another attempt because    *)
(* the failure is listed and it may be repeated or has not been written.    *)
LEMMA NextDecides ==
  ASSUME NEW b, IsBundle(b), NEW ft, NEW keep
  PROVE  LET n == ngx_http_upstream_next(b, ft, keep)
         IN  /\ Shape(n.q) /\ n.q.kind = b.q.kind /\ n.q.sends = b.q.sends
             /\ \/ n.q.st = "done" /\ ~n.q.wtimer
                \/ /\ n.q.st = "connect" /\ n.q.sent = b.q.sent
                   /\ b.q.sent => /\ b.q.kind # "stream"
                                  /\ b.q.kind = "post" => "non_idempotent" \in NextUpstream
<1> DEFINE f == IF b.q.sockaddr THEN FreePeer(b, ft # "http_404", keep) ELSE b
           t == IF b.q.cached /\ ft = "error" THEN [f EXCEPT !.q.tries = @ + 1] ELSE f
           n == ngx_http_upstream_next(b, ft, keep)
           over == t.q.error \/ t.q.tries = 0 \/ ~MayGoOn(t.q, ft)
           c == CloseConn(t)
           d == [c EXCEPT !.q.st = "connect"]
<1>1. IsBundle(f) /\ Alike(f.q, b.q)
  BY FreePeerKeeps DEF Alike
<1> HIDE DEF f
<1>2. IsBundle(t) /\ Alike(t.q, b.q)
  <2>1. CASE b.q.cached /\ ft = "error"
    <3>1. IsBundle([f EXCEPT !.q.tries = @ + 1]) /\ Alike([f EXCEPT !.q.tries = @ + 1].q, f.q)
      BY <1>1 DEF IsBundle, Shape, Fields, Alike
    <3> QED
      BY <1>1, <2>1, <3>1 DEF Alike
  <2> QED
    BY <1>1, <2>1
<1> HIDE DEF t
<1>3. n = IF over THEN ngx_http_upstream_finalize_request(t, "no") ELSE d
  BY DEF ngx_http_upstream_next, f, t
<1> HIDE DEF n
<1>4. CASE over
  <2>1. n = ngx_http_upstream_finalize_request(t, "no")
    BY <1>3, <1>4
  <2> QED
    BY <1>2, <2>1, FinalizeEnds DEF Alike, n
<1>5. CASE ~over
  <2>1. n = d /\ MayGoOn(t.q, ft)
    BY <1>3, <1>5
  <2>2. IsBundle(c) /\ Alike(c.q, t.q)
    BY <1>2, CloseConnKeeps
  <2> HIDE DEF c
  <2>3. Shape(n.q) /\ n.q.st = "connect" /\ n.q.kind = b.q.kind
        /\ n.q.sent = b.q.sent /\ n.q.sends = b.q.sends
    BY <1>2, <2>1, <2>2 DEF IsBundle, Shape, Fields, Alike
  <2>4. b.q.sent => /\ b.q.kind # "stream"
                    /\ b.q.kind = "post" => "non_idempotent" \in NextUpstream
    BY <1>2, <2>1 DEF Alike, MayGoOn, Needed
  <2> QED
    BY <2>3, <2>4 DEF n
<1> QED
  BY <1>4, <1>5

(* A new connection starts an attempt that has written nothing.             *)
LEMMA ConnectedStarts ==
  ASSUME NEW b, IsBundle(b), NEW c, NEW cached, NEW st
  PROVE  LET d == Connected(b, c, cached, st)
         IN  /\ Shape(d.q) /\ d.q.st = st /\ d.q.kind = b.q.kind
             /\ ~d.q.sent /\ d.q.sends = b.q.sends
<1> DEFINE q1 == [b.q EXCEPT !.st = st, !.conn = c, !.cached = cached,
                            !.sent = FALSE, !.body = FALSE]
           b1 == [b EXCEPT !.q = q1]
           q2 == [q1 EXCEPT !.blocks = MaxBlocks, !.whandler = TRUE,
                            !.wtimer = (st = "connecting")]
           b2 == [b EXCEPT !.q = q2]
           d == [b2 EXCEPT !.sockets[c] = b.q.cur]
<1>1. Shape(q1) /\ q1.st = st /\ q1.kind = b.q.kind /\ ~q1.sent /\ q1.sends = b.q.sends
  BY DEF IsBundle, Shape, Fields
<1>2. Shape(q2) /\ q2.st = st /\ q2.kind = b.q.kind /\ ~q2.sent /\ q2.sends = b.q.sends
  <2> HIDE DEF q1
  <2> QED
    BY <1>1 DEF Shape, Fields
<1>3. Connected(b, c, cached, st) = d
  BY DEF Connected, IsBundle, Shape, Fields
<1>4. d.q = q2
  <2> HIDE DEF q2
  <2> QED
    BY DEF IsBundle
<1> HIDE DEF q2, d
<1> QED
  BY <1>2, <1>3, <1>4

-----------------------------------------------------------------------------
(* The inductive invariant: a request that is not to be repeated has been   *)
(* written by its present attempt or not at all, and not at all when        *)
(* another attempt begins.                                                  *)
Repeatable(q) ==
  q.kind = "safe" \/ (q.kind = "post" /\ "non_idempotent" \in NextUpstream)

Once(q) ==
  Repeatable(q) \/ /\ q.sends \in {0, 1}
                   /\ q.st # "done" => q.sends = IF q.sent THEN 1 ELSE 0
                   /\ q.st = "connect" => ~q.sent

Sound(q) ==
  /\ Shape(q) /\ q.kind \in {"safe", "post", "stream"} /\ Once(q)
  /\ q.st = "idle" => ~q.sent /\ q.sends = 0
  /\ q.st \in {"idle", "done"} => ~q.wtimer

SendInv == DOMAIN req = Requests /\ \A r \in Requests : Sound(req[r])

(* A step that replaces one request by a sound one.                         *)
LEMMA OneRequestChanges ==
  ASSUME SendInv, NEW r \in Requests, NEW q, Sound(q), req' = [req EXCEPT ![r] = q]
  PROVE  SendInv'
<1>1. DOMAIN req' = Requests /\ \A s \in Requests : req'[s] = IF s = r THEN q ELSE req[s]
  BY DEF SendInv
<1> QED
  BY <1>1 DEF SendInv

LEMMA SetSound ==
  ASSUME SendInv, NEW r \in Requests, NEW b, Sound(b.q), Set(r, b)
  PROVE  SendInv'
BY OneRequestChanges DEF Set

LEMMA NextSound ==
  ASSUME NEW b, IsBundle(b), Sound(b.q), NEW ft, NEW keep, b.q.st # "done"
  PROVE  Sound(ngx_http_upstream_next(b, ft, keep).q)
<1> DEFINE n == ngx_http_upstream_next(b, ft, keep)
<1>1. /\ Shape(n.q) /\ n.q.kind = b.q.kind /\ n.q.sends = b.q.sends
      /\ \/ n.q.st = "done" /\ ~n.q.wtimer
         \/ /\ n.q.st = "connect" /\ n.q.sent = b.q.sent
            /\ b.q.sent => /\ b.q.kind # "stream"
                           /\ b.q.kind = "post" => "non_idempotent" \in NextUpstream
  BY NextDecides
<1> HIDE DEF n
<1>2. CASE Repeatable(b.q)
  BY <1>1, <1>2 DEF Sound, Once, Repeatable, n
<1>3. CASE ~Repeatable(b.q)
  <2>1. /\ b.q.sends \in {0, 1} /\ b.q.sends = IF b.q.sent THEN 1 ELSE 0
        /\ b.q.kind \in {"safe", "post", "stream"}
    BY <1>3 DEF Sound, Once
  <2>2. n.q.st = "connect" => ~b.q.sent /\ n.q.sent = b.q.sent
    BY <1>1, <1>3, <2>1 DEF Repeatable
  <2>3. Once(n.q)
    BY <1>1, <2>1, <2>2 DEF Once
  <2> QED
    BY <1>1, <2>1, <2>3 DEF Sound, n
<1> QED
  BY <1>2, <1>3

LEMMA FinalizeSound ==
  ASSUME NEW b, IsBundle(b), Sound(b.q), NEW keep
  PROVE  Sound(ngx_http_upstream_finalize_request(b, keep).q)
<1> DEFINE n == ngx_http_upstream_finalize_request(b, keep)
<1>1. /\ Shape(n.q) /\ n.q.st = "done" /\ n.q.kind = b.q.kind
      /\ n.q.sends = b.q.sends /\ ~n.q.wtimer
  BY FinalizeEnds
<1> HIDE DEF n
<1> QED
  BY <1>1 DEF Sound, Once, Repeatable, n

(* The ways of ngx_http_upstream_connect, for what it got from the balancer.*)
Got(r) == ngx_http_upstream_get_round_robin_peer(peers, req[r].tried, req[r].backup, upTime)

Attempt(r, got) ==
  [Bundle(r) EXCEPT !.peers = got.peers, !.q.tried = got.tried, !.q.backup = got.backup,
                    !.q.cur = got.peer, !.q.sockaddr = (got.peer # NoPeer), !.q.cached = FALSE]

IdleTo(p) == {i \in 1..Len(kaCache) : sockets[kaCache[i]] = p}

FirstOf(I) == CHOOSE i \in I : \A j \in I : i <= j

FreeOne == CHOOSE c \in Conns : sockets[c] = NoPeer

LEMMA ConnectWays ==
  ASSUME NEW r, ngx_http_upstream_connect(r)
  PROVE  LET got == Got(r)
             b == Attempt(r, got)
             i == FirstOf(IdleTo(got.peer))
         IN  /\ req[r].st = "connect"
             /\ \/ /\ got.peer = NoPeer
                   /\ Set(r, ngx_http_upstream_next(b, "nolive", "no"))
                \/ /\ got.peer # NoPeer /\ IdleTo(got.peer) # {}
                   /\ Set(r, Connected([b EXCEPT !.cache = Without(@, i)],
                                       kaCache[i], TRUE, "send"))
                \/ /\ got.peer # NoPeer /\ IdleTo(got.peer) = {}
                   /\ \/ Set(r, Connected(b, FreeOne, FALSE, "connecting"))
                      \/ Set(r, Connected(b, FreeOne, FALSE, "send"))
                      \/ Set(r, ngx_http_upstream_finalize_request(b, "no"))
                      \/ Set(r, ngx_http_upstream_next(b, "error", "no"))
<1> DEFINE Way(g, d) ==
             LET idle == {i \in 1..Len(kaCache) : sockets[kaCache[i]] = g.peer}
                 i == CHOOSE i \in idle : \A j \in idle : i <= j
                 c == CHOOSE c \in Conns : sockets[c] = NoPeer
             IN  \/ /\ g.peer = NoPeer
                    /\ Set(r, ngx_http_upstream_next(d, "nolive", "no"))
                 \/ /\ g.peer # NoPeer /\ idle # {}
                    /\ Set(r, Connected([d EXCEPT !.cache = Without(@, i)],
                                         kaCache[i], TRUE, "send"))
                 \/ /\ g.peer # NoPeer /\ idle = {}
                    /\ \/ Set(r, Connected(d, c, FALSE, "connecting"))
                       \/ Set(r, Connected(d, c, FALSE, "send"))
                       \/ Set(r, ngx_http_upstream_finalize_request(d, "no"))
                       \/ Set(r, ngx_http_upstream_next(d, "error", "no"))
<1>1. req[r].st = "connect" /\ \E g \in {Got(r)} : \E d \in {Attempt(r, g)} : Way(g, d)
  BY Zenon DEF ngx_http_upstream_connect, Got, Attempt
<1>2. Way(Got(r), Attempt(r, Got(r)))
  <2> HIDE DEF Way
  <2> QED BY <1>1
<1> QED BY <1>1, <1>2, Zenon DEF IdleTo, FirstOf, FreeOne

(* ngx_http_upstream_connect: the attempt that begins has not written the   *)
(* request, and none before it has if the request is not to be repeated.    *)
LEMMA ConnectSound ==
  ASSUME SendInv, NEW r \in Requests, ngx_http_upstream_connect(r)
  PROVE  SendInv'
<1> DEFINE got == ngx_http_upstream_get_round_robin_peer(
                    peers, req[r].tried, req[r].backup, upTime)
           b == [Bundle(r) EXCEPT
                  !.peers = got.peers, !.q.tried = got.tried,
                  !.q.backup = got.backup, !.q.cur = got.peer,
                  !.q.sockaddr = (got.peer # NoPeer), !.q.cached = FALSE]
           idle == {i \in 1..Len(kaCache) : sockets[kaCache[i]] = got.peer}
           first == CHOOSE i \in idle : \A j \in idle : i <= j
           unused == CHOOSE c \in Conns : sockets[c] = NoPeer
           a == [b EXCEPT !.cache = Without(@, first)]
<1>1. \/ Set(r, ngx_http_upstream_next(b, "nolive", "no"))
      \/ Set(r, Connected(a, kaCache[first], TRUE, "send"))
      \/ Set(r, Connected(b, unused, FALSE, "connecting"))
      \/ Set(r, Connected(b, unused, FALSE, "send"))
      \/ Set(r, ngx_http_upstream_finalize_request(b, "no"))
      \/ Set(r, ngx_http_upstream_next(b, "error", "no"))
  BY ConnectWays, Zenon DEF Got, Attempt, IdleTo, FirstOf, FreeOne
<1>2. Sound(req[r]) /\ req[r].st = "connect"
  BY DEF SendInv, ngx_http_upstream_connect
<1>3. IsBundle(b) /\ Alike(b.q, req[r])
  <2>1. IsBundle(Bundle(r)) /\ Bundle(r).q = req[r]
    BY <1>2, BundleShape DEF Sound
  <2> DEFINE q1 == [Bundle(r).q EXCEPT !.tried = got.tried, !.backup = got.backup,
                      !.cur = got.peer, !.sockaddr = (got.peer # NoPeer), !.cached = FALSE]
             b1 == [Bundle(r) EXCEPT !.peers = got.peers, !.q = q1]
  <2> HIDE DEF got
  <2>2. b = b1
    BY <2>1 DEF IsBundle, Shape, Fields
  <2>3. Shape(q1) /\ Alike(q1, req[r])
    BY <2>1 DEF IsBundle, Shape, Fields, Alike
  <2>4. IsBundle(b1) /\ b1.q = q1
    <3> HIDE DEF q1
    <3> QED
      BY <2>1, <2>3 DEF IsBundle
  <2> QED
    BY <2>2, <2>3, <2>4
<1> HIDE DEF b, first, unused
<1>4. Sound(b.q) /\ b.q.st = "connect"
  BY <1>2, <1>3 DEF Sound, Once, Repeatable, Alike, IsBundle
<1>5. ASSUME NEW d, IsBundle(d), d.q = b.q, NEW c, NEW cached, NEW st,
             st \in {"send", "connecting"}
      PROVE  Sound(Connected(d, c, cached, st).q)
  <2> DEFINE e == Connected(d, c, cached, st)
  <2>1. Shape(e.q) /\ e.q.st = st /\ e.q.kind = b.q.kind /\ ~e.q.sent /\ e.q.sends = b.q.sends
    BY <1>5, ConnectedStarts
  <2> HIDE DEF e
  <2>2. CASE Repeatable(b.q)
    BY <1>4, <1>5, <2>1, <2>2 DEF Sound, Once, Repeatable, e
  <2>3. CASE ~Repeatable(b.q)
    <3>1. b.q.sends = 0
      BY <1>4, <2>3 DEF Sound, Once
    <3>2. Once(e.q)
      BY <1>5, <2>1, <3>1 DEF Once
    <3> QED
      BY <1>4, <1>5, <2>1, <3>2 DEF Sound, e
  <2> QED
    BY <2>2, <2>3
<1>6. IsBundle(a) /\ a.q = b.q
  BY <1>3 DEF IsBundle
<1> HIDE DEF a
<1>7. CASE Set(r, Connected(a, kaCache[first], TRUE, "send"))
  BY <1>5, <1>6, <1>7, SetSound
<1>8. CASE \/ Set(r, Connected(b, unused, FALSE, "connecting"))
           \/ Set(r, Connected(b, unused, FALSE, "send"))
  BY <1>3, <1>5, <1>8, SetSound
<1>9. CASE \/ Set(r, ngx_http_upstream_next(b, "nolive", "no"))
           \/ Set(r, ngx_http_upstream_finalize_request(b, "no"))
           \/ Set(r, ngx_http_upstream_next(b, "error", "no"))
  BY <1>3, <1>4, <1>9, NextSound, FinalizeSound, SetSound
<1> QED
  BY <1>1, <1>7, <1>8, <1>9

(* ngx_http_upstream_send_request: an attempt that has written the request  *)
(* and blocked writes on, and does not count again.                         *)
LEMMA SendSound ==
  ASSUME SendInv, NEW r \in Requests, ngx_http_upstream_send_request(r)
  PROVE  SendInv'
<1> DEFINE b == Bundle(r)
           w == [b EXCEPT !.q.sent = TRUE, !.q.sends = IF b.q.sent THEN @ ELSE @ + 1]
           blocked(t) == [w EXCEPT !.q.st = "sending", !.q.wtimer = t, !.q.blocks = @ - 1]
           written == [w EXCEPT !.q.st = "waiting", !.q.body = TRUE,
                                !.q.wtimer = FALSE, !.q.whandler = FALSE]
<1>1. /\ req[r].st = "send"
      /\ \/ Set(r, ngx_http_upstream_next(b, "error", "no"))
         \/ Set(r, ngx_http_upstream_next(w, "error", "no"))
         \/ Set(r, ngx_http_upstream_finalize_request(w, "no"))
         \/ \E t : Set(r, blocked(t))
         \/ Set(r, written)
  BY DEF ngx_http_upstream_send_request
<1>2. Sound(req[r])
  BY DEF SendInv
<1>3. IsBundle(b) /\ b.q = req[r]
  BY <1>2, BundleShape DEF Sound
<1> HIDE DEF b
<1>4. /\ IsBundle(w) /\ w.q.st = "send" /\ w.q.kind = b.q.kind /\ w.q.sent
      /\ w.q.sends = IF b.q.sent THEN b.q.sends ELSE b.q.sends + 1
  BY <1>1, <1>3 DEF IsBundle, Shape, Fields
<1> HIDE DEF w
<1>5. Sound(w.q)
  <2>1. Shape(w.q) /\ w.q.kind \in {"safe", "post", "stream"}
    BY <1>2, <1>3, <1>4 DEF Sound, IsBundle
  <2>2. CASE Repeatable(b.q)
    BY <1>4, <2>1, <2>2 DEF Sound, Once, Repeatable
  <2>3. CASE ~Repeatable(b.q)
    <3>1. b.q.sends = IF b.q.sent THEN 1 ELSE 0
      BY <1>1, <1>2, <1>3, <2>3 DEF Sound, Once
    <3>2. w.q.sends = 1
      BY <1>4, <3>1
    <3> QED
      BY <1>4, <2>1, <3>2 DEF Sound, Once
  <2> QED
    BY <2>2, <2>3
<1>6. ASSUME NEW d, Shape(d.q), d.q.kind = w.q.kind, d.q.sent = w.q.sent,
             d.q.sends = w.q.sends, d.q.st \in {"sending", "waiting"}
      PROVE  Sound(d.q)
  <2>1. w.q.st # "done"
    BY <1>4
  <2> QED
    BY <1>5, <1>6, <2>1 DEF Sound, Once, Repeatable
<1>7. CASE \E t : Set(r, blocked(t))
  <2> PICK t : Set(r, blocked(t))
    BY <1>7
  <2>1. /\ Shape(blocked(t).q) /\ blocked(t).q.kind = w.q.kind /\ blocked(t).q.sent = w.q.sent
        /\ blocked(t).q.sends = w.q.sends /\ blocked(t).q.st = "sending"
    BY <1>4 DEF IsBundle, Shape, Fields
  <2> HIDE DEF blocked
  <2>2. Sound(blocked(t).q)
    BY <1>6, <2>1
  <2> QED
    BY <2>2, SetSound
<1>8. CASE Set(r, written)
  <2>1. /\ Shape(written.q) /\ written.q.kind = w.q.kind /\ written.q.sent = w.q.sent
        /\ written.q.sends = w.q.sends /\ written.q.st = "waiting"
    BY <1>4 DEF IsBundle, Shape, Fields
  <2> HIDE DEF written
  <2>2. Sound(written.q)
    BY <1>6, <2>1
  <2> QED
    BY <1>8, <2>2, SetSound
<1>9. CASE \/ Set(r, ngx_http_upstream_next(b, "error", "no"))
           \/ Set(r, ngx_http_upstream_next(w, "error", "no"))
           \/ Set(r, ngx_http_upstream_finalize_request(w, "no"))
  <2>1. b.q.st # "done" /\ w.q.st # "done" /\ Sound(b.q)
    BY <1>1, <1>2, <1>3, <1>4
  <2> QED
    BY <1>3, <1>4, <1>5, <1>9, <2>1, NextSound, FinalizeSound, SetSound
<1> QED
  BY <1>1, <1>7, <1>8, <1>9

(* A change of a request that leaves alone what it has written.             *)
LEMMA SameSendsSound ==
  ASSUME NEW q, NEW d, Sound(d), Shape(q), q.kind = d.kind, q.sent = d.sent, q.sends = d.sends,
         d.st # "done", q.st \notin {"connect", "idle", "done"}
  PROVE  Sound(q)
BY DEF Sound, Once, Repeatable

LEMMA SendResponseSound ==
  ASSUME SendInv, NEW r \in Requests, req[r].st # "done", ngx_http_upstream_send_response(r)
  PROVE  SendInv'
<1> DEFINE b == Bundle(r)
           h == [b EXCEPT !.q.header = TRUE, !.q.st = "response",
                          !.q.whandler = @ /\ req[r].st # "connecting"]
<1>1. Sound(req[r])
  BY DEF SendInv
<1>2. IsBundle(b) /\ b.q = req[r]
  BY <1>1, BundleShape DEF Sound
<1>3. \/ Set(r, ngx_http_upstream_finalize_request(b, "no"))
      \/ Set(r, h)
  BY DEF ngx_http_upstream_send_response
<1> HIDE DEF b
<1>4. /\ Shape(h.q) /\ h.q.kind = b.q.kind /\ h.q.sent = b.q.sent
      /\ h.q.sends = b.q.sends /\ h.q.st = "response"
  BY <1>2 DEF IsBundle, Shape, Fields
<1> HIDE DEF h
<1>5. Sound(h.q)
  BY <1>1, <1>2, <1>4, SameSendsSound
<1> QED
  BY <1>1, <1>2, <1>3, <1>5, FinalizeSound, SetSound

LEMMA SendInvStep ==
  ASSUME SendInv, [UpNext]_upVars
  PROVE  SendInv'
<1>0. ASSUME NEW r \in Requests
      PROVE  Sound(req[r]) /\ IsBundle(Bundle(r)) /\ Bundle(r).q = req[r]
  BY BundleShape DEF SendInv, Sound
<1>n. ASSUME NEW r \in Requests, NEW ft, NEW keep, req[r].st # "done",
             Set(r, ngx_http_upstream_next(Bundle(r), ft, keep))
      PROVE  SendInv'
  BY <1>0, <1>n, NextSound, SetSound
<1>f. ASSUME NEW r \in Requests, NEW keep,
             Set(r, ngx_http_upstream_finalize_request(Bundle(r), keep))
      PROVE  SendInv'
  BY <1>0, <1>f, FinalizeSound, SetSound
<1>1. ASSUME NEW r \in Requests, ngx_http_upstream_init_request(r)
      PROVE  SendInv'
  <2> DEFINE tries == IF MaxTries > 0 /\ MaxTries < ngx_http_upstream_tries
                      THEN MaxTries ELSE ngx_http_upstream_tries
  <2> HIDE DEF tries
  <2> PICK kind \in Kinds[r] :
        req' = [req EXCEPT ![r].st = "connect", ![r].kind = kind,
                           ![r].start = upTime, ![r].tries = tries]
    BY <1>1 DEF ngx_http_upstream_init_request, tries
  <2> DEFINE q == [req[r] EXCEPT !.st = "connect", !.kind = kind, !.start = upTime,
                                 !.tries = tries]
  <2>1. req' = [req EXCEPT ![r] = q]
    BY DEF SendInv
  <2>2. req[r].st = "idle" /\ kind \in {"safe", "post", "stream"}
    BY <1>1, UpstreamAssumption DEF ngx_http_upstream_init_request
  <2>3. ~req[r].sent /\ req[r].sends = 0 /\ Shape(req[r])
    BY <1>0, <2>2 DEF Sound
  <2>4. Shape(q) /\ q.st = "connect" /\ q.kind = kind /\ ~q.sent /\ q.sends = 0
    BY <2>3 DEF Shape, Fields
  <2> HIDE DEF q
  <2>5. Sound(q)
    BY <2>2, <2>4 DEF Sound, Once
  <2> QED
    BY <2>1, <2>5, OneRequestChanges
<1>2. ASSUME NEW r \in Requests, WriteEvent(r)
      PROVE  SendInv'
  <2> DEFINE q1 == [req[r] EXCEPT !.st = "send"]
             q2 == [req[r] EXCEPT !.whandler = FALSE]
  <2>1. \/ req[r].st \in {"connecting", "sending"} /\ req' = [req EXCEPT ![r] = q1]
        \/ req[r].st = "response" /\ req' = [req EXCEPT ![r] = q2]
    BY <1>2 DEF WriteEvent, SendInv
  <2>2. req[r].st \notin {"connect", "idle", "done"} /\ Sound(req[r])
    BY <1>0, <2>1
  <2>3. Shape(q1) /\ q1.kind = req[r].kind /\ q1.sent = req[r].sent
        /\ q1.sends = req[r].sends /\ q1.st = "send"
    BY <2>2 DEF Sound, Shape, Fields
  <2>4. Shape(q2) /\ q2.kind = req[r].kind /\ q2.sent = req[r].sent
        /\ q2.sends = req[r].sends /\ q2.st = req[r].st
    BY <2>2 DEF Sound, Shape, Fields
  <2> HIDE DEF q1, q2
  <2>5. Sound(q1) /\ Sound(q2)
    BY <2>2, <2>3, <2>4, SameSendsSound
  <2> QED
    BY <2>1, <2>5, OneRequestChanges
<1>s. ASSUME NEW r \in Requests, NEW b, Set(r, b), Shape(b.q),
             b.q.kind = req[r].kind, b.q.sent = req[r].sent, b.q.sends = req[r].sends,
             req[r].st # "done", b.q.st \notin {"connect", "idle", "done"}
      PROVE  SendInv'
  BY <1>0, <1>s, SameSendsSound, SetSound
<1>3. ASSUME NEW r \in Requests, WriteTimeout(r)
      PROVE  SendInv'
  <2> DEFINE b == [Bundle(r) EXCEPT !.q.wtimer = FALSE]
  <2>1. req[r].st \notin {"connect", "idle", "done"}
    BY <1>0, <1>3 DEF WriteTimeout, Quiet, Sound
  <2>2. \/ Set(r, ngx_http_upstream_next(Bundle(r), "timeout", "no"))
        \/ Set(r, b)
    BY <1>3 DEF WriteTimeout
  <2>3. Shape(b.q) /\ Alike(b.q, req[r])
    BY <1>0 DEF IsBundle, Shape, Fields, Alike
  <2> HIDE DEF b
  <2>4. CASE Set(r, b)
    BY <1>s, <2>1, <2>3, <2>4 DEF Alike
  <2> QED
    BY <1>n, <2>1, <2>2, <2>4
<1>4. ASSUME NEW r \in Requests, ngx_http_upstream_process_header(r)
      PROVE  SendInv'
  <2>1. /\ req[r].st \in {"connecting", "sending", "waiting"}
        /\ \/ \E ft, keep : Set(r, ngx_http_upstream_next(Bundle(r), ft, keep))
           \/ ngx_http_upstream_send_response(r)
    BY <1>4 DEF ngx_http_upstream_process_header
  <2> QED
    BY <1>n, <2>1, SendResponseSound
<1>5. ASSUME NEW r \in Requests, ReadTimeout(r)
      PROVE  SendInv'
  BY <1>5, <1>n DEF ReadTimeout
<1>6. ASSUME NEW r \in Requests, ResponseEnds(r)
      PROVE  SendInv'
  BY <1>6, <1>f DEF ResponseEnds
<1>7. ASSUME NEW r \in Requests, ClientGone(r)
      PROVE  SendInv'
  <2> DEFINE b == [Bundle(r) EXCEPT !.q.error = TRUE]
  <2>1. /\ req[r].st \in {"connecting", "sending", "waiting", "response"}
        /\ \/ Set(r, ngx_http_upstream_finalize_request(Bundle(r), "no"))
           \/ Set(r, b)
    BY <1>7 DEF ClientGone
  <2>2. Shape(b.q) /\ Alike(b.q, req[r])
    BY <1>0 DEF IsBundle, Shape, Fields, Alike
  <2> HIDE DEF b
  <2>3. CASE Set(r, b)
    BY <1>s, <2>1, <2>2, <2>3 DEF Alike
  <2> QED
    BY <1>f, <2>1, <2>3
<1>8. ASSUME NEW r \in Requests, ngx_http_upstream_read_request_handler(r)
      PROVE  SendInv'
  <2> DEFINE b == [Bundle(r) EXCEPT !.q.st = "send"]
  <2>1. /\ req[r].st = "sending"
        /\ \/ Set(r, b)
           \/ Set(r, ngx_http_upstream_finalize_request(Bundle(r), "no"))
    BY <1>8 DEF ngx_http_upstream_read_request_handler
  <2>2. /\ Shape(b.q) /\ b.q.kind = req[r].kind /\ b.q.sent = req[r].sent
        /\ b.q.sends = req[r].sends /\ b.q.st = "send"
    BY <1>0 DEF IsBundle, Shape, Fields
  <2> HIDE DEF b
  <2>3. CASE Set(r, b)
    BY <1>s, <2>1, <2>2, <2>3
  <2> QED
    BY <1>f, <2>1, <2>3
<1>9. CASE UpTick \/ UNCHANGED upVars
           \/ \E i \in 1..KaSize : ngx_http_upstream_keepalive_close_handler(i)
  <2>1. req' = req
    BY <1>9 DEF UpTick, upVars, ngx_http_upstream_keepalive_close_handler
  <2> QED
    BY <2>1 DEF SendInv
<1> QED
  BY <1>1, <1>2, <1>3, <1>4, <1>5, <1>6, <1>7, <1>8, <1>9, ConnectSound, SendSound
  DEF UpNext, UpProgress

(* A request that may not be repeated, or whose body is gone once it is     *)
(* sent, is written to one server at most, whatever failures, timeouts and  *)
(* idle connections its attempts meet; only proxy_next_upstream with        *)
(* non_idempotent makes an exception.                                       *)
THEOREM RequestsAreNotResent == UpSpec => []NoResend
<1>1. UpInit => SendInv
  <2> SUFFICES ASSUME UpInit PROVE SendInv
    OBVIOUS
  <2>1. DOMAIN req = Requests /\ \A r \in Requests : req[r] = Fresh
    BY DEF UpInit
  <2>2. Sound(Fresh)
    BY FreshShape DEF Sound, Once, Repeatable
  <2> QED
    BY <2>1, <2>2 DEF SendInv
<1>2. SendInv /\ [UpNext]_upVars => SendInv'
  BY SendInvStep
<1>3. SendInv => NoResend
  <2> SUFFICES ASSUME SendInv, NEW r \in Requests, req[r].sends > 1
               PROVE  Repeatable(req[r])
    BY DEF NoResend, Repeatable
  <2>1. Once(req[r])
    BY DEF SendInv, Sound
  <2> QED
    BY <2>1 DEF Once
<1> QED
  BY <1>1, <1>2, <1>3, PTL DEF UpSpec

-----------------------------------------------------------------------------
(* Sums over finite sets, with the lemmas of SequenceLemmas.                *)

(* What the sum is, and what follows for the callers.                       *)
LEMMA SumOverIs ==
  ASSUME NEW f, NEW S, IsFiniteSet(S)
  PROVE  \E g : IsSum(g, f, S) /\ SumOver(f, S) = g[S]
<1>1. SumOver(f, S) = (CHOOSE g : IsSum(g, f, S))[S]
  BY DEF SumOver, MapThenSumSet, MapThenFoldSet, IsSum
<1>2. IsSum(CHOOSE g : IsSum(g, f, S), f, S)
  BY SumDefined
<1> QED BY <1>1, <1>2

(* What the proofs below know of a sum.                                     *)
LEMMA SumOfNone == ASSUME NEW f PROVE SumOver(f, {}) = 0
<1>1. IsFiniteSet({})
  BY FS_EmptySet
<1>2. PICK g : IsSum(g, f, {}) /\ SumOver(f, {}) = g[{}]
  BY <1>1, SumOverIs
<1> QED BY <1>2, IsSumPick

LEMMA SumSame ==
  ASSUME NEW f, NEW e, NEW S, IsFiniteSet(S), \A x \in S : f[x] = e[x]
  PROVE  SumOver(f, S) = SumOver(e, S)
<1>1. PICK g : IsSum(g, f, S) /\ SumOver(f, S) = g[S]
  BY SumOverIs
<1>2. PICK h : IsSum(h, e, S) /\ SumOver(e, S) = h[S]
  BY SumOverIs
<1>3. g[S] = h[S]
  BY <1>1, <1>2, SumUnique
<1> QED BY <1>1, <1>2, <1>3

(* An element more.                                                         *)
LEMMA SumOfMore ==
  ASSUME NEW f, NEW S, IsFiniteSet(S), IntOn(f, S)
  PROVE  /\ SumOver(f, S) \in Int
         /\ \A x \in S : SumOver(f, S) = f[x] + SumOver(f, S \ {x})
<1>1. PICK g : IsSum(g, f, S) /\ SumOver(f, S) = g[S]
  BY SumOverIs
<1>2. \A T \in SUBSET S : g[T] \in Int /\ \A x \in T : g[T] = f[x] + g[T \ {x}]
  <2>1. AnyOrder(g, f, S)
    BY <1>1, SumAnyOrder
  <2> QED BY <2>1 DEF AnyOrder
<1>3. ASSUME NEW x \in S PROVE SumOver(f, S \ {x}) = g[S \ {x}]
  <2>1. IsFiniteSet(S \ {x})
    BY FS_Subset
  <2>2. PICK h : IsSum(h, f, S \ {x}) /\ SumOver(f, S \ {x}) = h[S \ {x}]
    BY <2>1, SumOverIs
  <2>3. h[S \ {x}] = g[S \ {x}]
    BY <1>1, <2>1, <2>2, SumUnique
  <2> QED BY <2>2, <2>3
<1> QED BY <1>1, <1>2, <1>3

(* Sums of sums, and of what is zero outside a part.                        *)
LEMMA SumPlus ==
  ASSUME NEW f, NEW e, NEW h, NEW S, IsFiniteSet(S), IntOn(f, S), IntOn(e, S),
         \A x \in S : h[x] = f[x] + e[x]
  PROVE  SumOver(h, S) = SumOver(f, S) + SumOver(e, S)
<1> DEFINE Q == {T \in SUBSET S : SumOver(h, T) = SumOver(f, T) + SumOver(e, T)}
<1>1. {} \in Q
  BY SumOfNone
<1>2. ASSUME NEW T \in SUBSET S, NEW x \in S \ T, T \in Q PROVE T \cup {x} \in Q
  <2> DEFINE U == T \cup {x}
  <2>1. IsFiniteSet(U) /\ IntOn(f, U) /\ IntOn(e, U) /\ IntOn(h, U) /\ U \ {x} = T /\ x \in U
        /\ U \in SUBSET S
    <3>1. U \in SUBSET S
      OBVIOUS
    <3> QED
      BY <3>1, FS_Subset DEF IntOn
  <2>t. IsFiniteSet(T) /\ IntOn(f, T) /\ IntOn(e, T)
    BY FS_Subset DEF IntOn
  <2> HIDE DEF U
  <2>2. SumOver(f, U) = f[x] + SumOver(f, T) /\ SumOver(f, T) \in Int
    BY <2>1, <2>t, SumOfMore
  <2>3. SumOver(e, U) = e[x] + SumOver(e, T) /\ SumOver(e, T) \in Int
    BY <2>1, <2>t, SumOfMore
  <2>4. SumOver(h, U) = h[x] + SumOver(h, T)
    BY <2>1, SumOfMore
  <2>5. h[x] = f[x] + e[x] /\ f[x] \in Int /\ e[x] \in Int
    BY DEF IntOn
  <2>6. SumOver(h, T) = SumOver(f, T) + SumOver(e, T)
    BY <1>2
  <2>7. SumOver(h, U) = SumOver(f, U) + SumOver(e, U)
    BY <2>2, <2>3, <2>4, <2>5, <2>6
  <2> QED BY <2>1, <2>7 DEF U
<1> HIDE DEF Q
<1>3. S \in Q
  BY <1>1, <1>2, FiniteInduction
<1> QED BY <1>3 DEF Q

(* Elements outside U that count nothing.                                   *)
LEMMA SumWithin ==
  ASSUME NEW e, NEW z, NEW S, IsFiniteSet(S), NEW U, U \subseteq S, IntOn(e, S),
         \A x \in S : z[x] = IF x \in U THEN e[x] ELSE 0
  PROVE  SumOver(z, S) = SumOver(e, U)
<1> DEFINE Q == {T \in SUBSET S : SumOver(z, T) = SumOver(e, T \cap U)}
<1>1. {} \in Q
  <2>1. {} \cap U = {}
    OBVIOUS
  <2> QED BY <2>1, SumOfNone
<1>2. ASSUME NEW T \in SUBSET S, NEW x \in S \ T, T \in Q PROVE T \cup {x} \in Q
  <2> DEFINE V == T \cup {x}
             W == V \cap U
  <2>1. IsFiniteSet(V) /\ IntOn(z, V) /\ V \ {x} = T /\ x \in V /\ V \in SUBSET S
    <3>1. V \in SUBSET S
      OBVIOUS
    <3>2. \A y \in S : z[y] \in Int
      BY DEF IntOn
    <3> QED
      BY <3>1, <3>2, FS_Subset DEF IntOn
  <2>2. IsFiniteSet(W) /\ IntOn(e, W)
    BY FS_Subset DEF IntOn
  <2>3. SumOver(z, T) = SumOver(e, T \cap U)
    BY <1>2
  <2>5. CASE x \in U
    <3>1. W \ {x} = T \cap U /\ x \in W /\ z[x] = e[x]
      BY <2>5
    <3> HIDE DEF V, W
    <3>2. SumOver(z, V) = z[x] + SumOver(z, T)
      BY <2>1, SumOfMore
    <3>3. SumOver(e, W) = e[x] + SumOver(e, T \cap U)
      BY <2>2, <3>1, SumOfMore
    <3>4. SumOver(z, V) = SumOver(e, W)
      BY <2>3, <3>1, <3>2, <3>3
    <3> QED BY <3>4, <2>1 DEF V, W
  <2>6. CASE x \notin U
    <3>1. W = T \cap U /\ z[x] = 0
      BY <2>6
    <3>t. IsFiniteSet(T) /\ IntOn(z, T)
      BY <2>1, FS_Subset DEF IntOn
    <3> HIDE DEF V, W
    <3>2. SumOver(z, V) = z[x] + SumOver(z, T) /\ SumOver(z, T) \in Int
      BY <2>1, <3>t, SumOfMore
    <3>4. SumOver(z, V) = SumOver(e, W)
      BY <2>3, <3>1, <3>2
    <3> QED BY <3>4, <2>1 DEF V, W
  <2> QED BY <2>5, <2>6
<1> HIDE DEF Q
<1>3. S \in Q
  BY <1>1, <1>2, FiniteInduction
<1>4. S \cap U = U
  OBVIOUS
<1> QED BY <1>3, <1>4 DEF Q

Moved(f, e, h, S, U, b) ==
  \A x \in S : h[x] = (f[x] + (IF x \in U THEN e[x] ELSE 0))
                      - (IF x = b THEN SumOver(e, U) ELSE 0)

(* The balancer's move: the servers of a part U gain what e says, one of    *)
(* them pays for all, and the sum stays.                                    *)
LEMMA SumMoved ==
  ASSUME NEW f, NEW e, NEW h, NEW S, IsFiniteSet(S), IntOn(f, S), IntOn(e, S),
         NEW U, U \subseteq S, NEW b \in S, Moved(f, e, h, S, U, b)
  PROVE  SumOver(h, S) = SumOver(f, S)
<1> DEFINE z == [x \in S |-> IF x \in U THEN e[x] ELSE 0]
           g == [x \in S |-> f[x] + z[x]]
           total == SumOver(e, U)
<1>1. IntOn(z, S) /\ IntOn(g, S)
  BY DEF IntOn
<1>2. SumOver(g, S) = SumOver(f, S) + total
  <2>1. SumOver(g, S) = SumOver(f, S) + SumOver(z, S)
    <3> HIDE DEF z
    <3>1. \A x \in S : g[x] = f[x] + z[x]
      OBVIOUS
    <3> HIDE DEF g
    <3> QED BY <1>1, <3>1, SumPlus
  <2>2. SumOver(z, S) = total
    <3>1. \A x \in S : z[x] = IF x \in U THEN e[x] ELSE 0
      OBVIOUS
    <3> HIDE DEF z
    <3> QED BY <3>1, SumWithin
  <2> QED BY <2>1, <2>2
<1>3. IsFiniteSet(U) /\ IntOn(e, U) /\ IsFiniteSet(S \ {b}) /\ IntOn(g, S \ {b})
  BY <1>1, FS_Subset DEF IntOn
<1>4. total \in Int /\ SumOver(f, S) \in Int /\ SumOver(g, S \ {b}) \in Int
  <2> HIDE DEF g
  <2> QED BY <1>3, SumOfMore
<1>5. \A x \in S : h[x] = IF x = b THEN g[x] - total ELSE g[x]
  <2>1. \A x \in S : g[x] \in Int
    BY <1>1 DEF IntOn
  <2>2. \A x \in S : h[x] = g[x] - (IF x = b THEN total ELSE 0)
    BY DEF Moved
  <2> HIDE DEF g, total
  <2> QED BY <2>1, <2>2, <1>4
<1>6. IntOn(h, S)
  <2>1. \A x \in S : g[x] \in Int
    BY <1>1 DEF IntOn
  <2> HIDE DEF g, total
  <2> QED BY <2>1, <1>4, <1>5 DEF IntOn
<1>7. SumOver(h, S \ {b}) = SumOver(g, S \ {b})
  <2>1. \A x \in S \ {b} : h[x] = g[x]
    BY <1>5
  <2> HIDE DEF g
  <2> QED BY <2>1, <1>3, SumSame
<1>8. SumOver(h, S) = h[b] + SumOver(h, S \ {b})
  BY <1>6, SumOfMore
<1>9. SumOver(g, S) = g[b] + SumOver(g, S \ {b})
  <2> HIDE DEF g
  <2> QED BY <1>1, SumOfMore
<1>10. h[b] = g[b] - total /\ g[b] \in Int
  BY <1>1, <1>5 DEF IntOn
<1> HIDE DEF g, total
<1> QED BY <1>2, <1>4, <1>7, <1>8, <1>9, <1>10

-----------------------------------------------------------------------------
(* The servers and connections of the requests.                             *)

(* The lists of servers.                                                    *)
LEMMA ListFacts ==
  /\ IsFiniteSet(InList(Primary)) /\ IsFiniteSet(InList(Backup)) /\ IsFiniteSet(Peers)
  /\ InList(Primary) \subseteq Peers /\ InList(Backup) \subseteq Peers
  /\ InList(Primary) \cap InList(Backup) = {}
<1> DEFINE A == InList(Primary)
           B == InList(Backup)
<1>1. ASSUME NEW list \in Seq(Peers)
      PROVE  /\ IsFiniteSet(InList(list)) /\ Cardinality(InList(list)) <= Len(list)
             /\ Cardinality(InList(list)) \in Nat /\ Len(list) \in Nat
  <2> DEFINE I == 1..Len(list)
             f == [i \in I |-> list[i]]
  <2>1. Len(list) \in Nat
    OBVIOUS
  <2>2. IsFiniteSet(I) /\ Cardinality(I) = Len(list)
    BY <2>1, FS_Interval
  <2>3. f \in Surjection(I, InList(list))
    BY DEF Surjection, InList
  <2>4. IsFiniteSet(InList(list)) /\ Cardinality(InList(list)) <= Cardinality(I)
    <3> HIDE DEF I, f
    <3> QED BY <2>2, <2>3, FS_Surjection
  <2> QED BY <2>1, <2>2, <2>4, FS_CardinalityType
<1>2. /\ IsFiniteSet(A) /\ Cardinality(A) <= Len(Primary) /\ Cardinality(A) \in Nat
      /\ IsFiniteSet(B) /\ Cardinality(B) <= Len(Backup) /\ Cardinality(B) \in Nat
      /\ Len(Primary) \in Nat /\ Len(Backup) \in Nat
  BY <1>1, RoundRobinAssumption
<1>3. Cardinality(A \cup B) = Len(Primary) + Len(Backup) /\ Peers = A \cup B
  BY RoundRobinAssumption DEF Peers
<1> HIDE DEF A, B
<1>4. /\ IsFiniteSet(A \cup B)
      /\ Cardinality(A \cup B) = Cardinality(A) + Cardinality(B) - Cardinality(A \cap B)
  BY <1>2, FS_Union
<1>5. IsFiniteSet(A \cap B) /\ Cardinality(A \cap B) \in Nat
  <2>1. A \cap B \subseteq A
    OBVIOUS
  <2> QED BY <2>1, <1>2, FS_Subset, FS_CardinalityType
<1>6. Cardinality(A \cap B) = 0
  BY <1>2, <1>3, <1>4, <1>5
<1>7. A \cap B = {}
  BY <1>5, <1>6, FS_EmptySet
<1> QED BY <1>2, <1>3, <1>4, <1>7 DEF A, B

(* The table of the servers is well formed, nobody is beyond its limit, and *)
(* the weights of each list add up to nothing.                              *)
PeerFields == {"conns", "fails", "accessed", "checked", "current", "effective"}

Server(x) == DOMAIN x = PeerFields /\ x.conns \in Int /\ x.current \in Int /\ x.effective \in Int

Table(t) == DOMAIN t = Peers /\ \A p \in Peers : Server(t[p])

Within(t) == \A p \in Peers : MaxConns[p] = 0 \/ t[p].conns <= MaxConns[p]

Currents(t) == [p \in Peers |-> t[p].current]

Balanced(t) == \A list \in {Primary, Backup} : SumOver(Currents(t), InList(list)) = 0

(* The servers of a list that the loop of ngx_http_upstream_get_peer does   *)
(* not skip, and the one it chooses.                                        *)
Usables(t, list, tried, now) == {i \in 1..Len(list) : Usable(t, list[i], tried, now)}

Has(t, list, i) == t[list[i]].current + t[list[i]].effective

Better(t, list, i, j) ==
  \/ Has(t, list, i) > Has(t, list, j)
  \/ Has(t, list, i) = Has(t, list, j) /\ i <= j

(* The loop ends with a best server when it has found any.                  *)
LEMMA SomeBest ==
  ASSUME NEW t, NEW list, NEW U, U \subseteq Nat, IsFiniteSet(U), U # {},
         \A i \in U : Has(t, list, i) \in Int
  PROVE  \E i \in U : \A j \in U : Better(t, list, i, j)
<1> DEFINE Q == {T \in SUBSET U : T = {} \/ \E i \in T : \A j \in T : Better(t, list, i, j)}
<1>1. {} \in Q
  OBVIOUS
<1>2. ASSUME NEW T \in SUBSET U, NEW x \in U \ T, T \in Q PROVE T \cup {x} \in Q
  <2>1. CASE T = {}
    BY <2>1 DEF Better
  <2>2. CASE T # {}
    <3>1. PICK i \in T : \A j \in T : Better(t, list, i, j)
      BY <2>2, <1>2
    <3>2. /\ i \in Nat /\ x \in Nat /\ Has(t, list, i) \in Int /\ Has(t, list, x) \in Int
          /\ \A j \in T : j \in Nat /\ Has(t, list, j) \in Int
      OBVIOUS
    <3>3. CASE Better(t, list, i, x)
      BY <3>1, <3>3
    <3>4. CASE ~Better(t, list, i, x)
      <4>1. ASSUME NEW j \in T PROVE Better(t, list, x, j)
        BY <3>1, <3>2, <3>4 DEF Better
      <4>2. Better(t, list, x, x)
        BY <3>2 DEF Better
      <4> QED BY <4>1, <4>2
    <3> QED BY <3>3, <3>4
  <2> QED BY <2>1, <2>2
<1> HIDE DEF Q
<1>3. U \in Q
  BY <1>1, <1>2, FiniteInduction
<1> QED BY <1>3 DEF Q

(* ngx_http_upstream_get_peer chooses a server of the list that has a       *)
(* connection left, and keeps the balance.                                  *)
LEMMA GetPeer ==
  ASSUME NEW t, Table(t), Within(t), Balanced(t), NEW list \in {Primary, Backup},
         NEW tried, NEW now
  PROVE  LET got == ngx_http_upstream_get_peer(t, list, tried, now)
         IN  /\ got.peer \in InList(list) \cup {NoPeer}
             /\ got.peer # NoPeer => MaxConns[got.peer] = 0 \/ t[got.peer].conns < MaxConns[got.peer]
             /\ Table(got.peers) /\ Balanced(got.peers)
             /\ \A p \in Peers : got.peers[p].conns = t[p].conns
<1> DEFINE U == Usables(t, list, tried, now)
           best == CHOOSE i \in U : \A j \in U : Better(t, list, i, j)
           chosen == {list[i] : i \in U}
           effectives == [p \in Peers |-> t[p].effective]
           total == SumOver(effectives, chosen)
           weighed(p) == IF \E i \in U : list[i] = p
                         THEN [t[p] EXCEPT !.current = @ + t[p].effective,
                                           !.effective = IF @ < Weight[p] THEN @ + 1 ELSE @]
                         ELSE t[p]
           u == [p \in Peers |-> IF p = list[best]
                                 THEN [weighed(p) EXCEPT
                                        !.current = @ - total,
                                        !.checked = IF now - @ > FailTimeout THEN now ELSE @]
                                 ELSE weighed(p)]
           got == ngx_http_upstream_get_peer(t, list, tried, now)
<1>1. got = IF U = {} THEN [peer |-> NoPeer, peers |-> t] ELSE [peer |-> list[best], peers |-> u]
  BY Zenon DEF ngx_http_upstream_get_peer, Usables, Better, Has
<1>2. CASE U = {}
  <2>1. got.peer = NoPeer /\ got.peers = t
    BY <1>1, <1>2
  <2> HIDE DEF got
  <2> QED BY <2>1 DEF got
<1>3. CASE U # {}
  <2>1. /\ list \in Seq(Peers) /\ U \subseteq 1..Len(list) /\ Len(list) \in Nat
        /\ \A i \in U : list[i] \in InList(list) /\ list[i] \in Peers
    BY RoundRobinAssumption DEF Usables, InList
  <2>2. IsFiniteSet(U) /\ U \subseteq Nat
    <3> DEFINE I == 1..Len(list)
    <3>1. IsFiniteSet(I) /\ U \subseteq I /\ I \subseteq Nat
      BY <2>1, FS_Interval
    <3> HIDE DEF U, I
    <3> QED BY <3>1, FS_Subset
  <2>3. \A i \in U : Has(t, list, i) \in Int
    BY <2>1 DEF Has, Table, Server
  <2>4. best \in U
    <3> HIDE DEF U
    <3>1. \E i \in U : \A j \in U : Better(t, list, i, j)
      BY <1>3, <2>2, <2>3, SomeBest
    <3> QED BY <3>1
  <2>5. list[best] \in InList(list) /\ list[best] \in Peers /\ list[best] \in chosen
    BY <2>1, <2>4
  <2>6. MaxConns[list[best]] = 0 \/ t[list[best]].conns < MaxConns[list[best]]
    <3>1. Usable(t, list[best], tried, now)
      BY <2>4 DEF Usables
    <3>2. t[list[best]].conns \in Int /\ MaxConns[list[best]] \in Int
      BY <2>5, RoundRobinAssumption DEF Table, Server
    <3> QED BY <3>1, <3>2 DEF Usable
  <2>7. chosen \subseteq InList(list) /\ InList(list) \subseteq Peers /\ IsFiniteSet(InList(list))
        /\ IsFiniteSet(chosen) /\ IntOn(effectives, InList(list)) /\ IntOn(effectives, chosen)
    <3>1. chosen \subseteq InList(list) /\ InList(list) \subseteq Peers /\ IsFiniteSet(InList(list))
      BY <2>1, ListFacts
    <3>2. \A p \in Peers : effectives[p] \in Int
      BY DEF Table, Server
    <3> QED BY <3>1, <3>2, FS_Subset DEF IntOn
  <2>8. total \in Int
    BY <2>7, SumOfMore
  <2>9. ASSUME NEW p \in Peers
        PROVE  /\ Server(u[p]) /\ u[p].conns = t[p].conns
               /\ u[p].current = (t[p].current + (IF p \in chosen THEN t[p].effective ELSE 0))
                                 - (IF p = list[best] THEN total ELSE 0)
    <3>1. Server(t[p]) /\ Weight[p] \in Int
      BY RoundRobinAssumption DEF Table
    <3>2. /\ Server(weighed(p)) /\ weighed(p).conns = t[p].conns
          /\ weighed(p).current = t[p].current + (IF p \in chosen THEN t[p].effective ELSE 0)
      <4>1. (\E i \in U : list[i] = p) <=> p \in chosen
        OBVIOUS
      <4> HIDE DEF chosen, U
      <4> QED BY <3>1, <4>1 DEF Server, PeerFields
    <3> DEFINE w == weighed(p)
    <3>3. u[p] = IF p = list[best]
                 THEN [w EXCEPT !.current = @ - total,
                                !.checked = IF now - @ > FailTimeout THEN now ELSE @]
                 ELSE w
      OBVIOUS
    <3> HIDE DEF u, w, total, chosen, best
    <3> QED BY <2>8, <3>1, <3>2, <3>3 DEF Server, PeerFields, w
  <2>10. Table(u)
    BY <2>9 DEF Table
  <2>11. SumOver(Currents(u), InList(list)) = SumOver(Currents(t), InList(list))
    <3>1. \A p \in InList(list) :
            Currents(u)[p] = (Currents(t)[p] + (IF p \in chosen THEN effectives[p] ELSE 0))
                             - (IF p = list[best] THEN total ELSE 0)
      <4> HIDE DEF u, total, chosen, best
      <4> QED BY <2>7, <2>9 DEF Currents
    <3>2. IntOn(Currents(t), InList(list))
      BY <2>7 DEF IntOn, Currents, Table, Server
    <3> DEFINE S == InList(list)
               f == Currents(t)
               h == Currents(u)
               pays == list[best]
    <3>3. /\ IsFiniteSet(S) /\ IntOn(f, S) /\ IntOn(effectives, S) /\ chosen \subseteq S /\ pays \in S
          /\ Moved(f, effectives, h, S, chosen, pays)
      BY <2>5, <2>7, <3>1, <3>2 DEF Moved
    <3> HIDE DEF u, chosen, effectives, best, S, f, h, pays
    <3>4. SumOver(h, S) = SumOver(f, S)
      BY <3>3, SumMoved
    <3> QED BY <3>4 DEF S, f, h
  <2>12. Balanced(u)
    <3>1. ASSUME NEW other \in {Primary, Backup}, other # list
          PROVE  SumOver(Currents(u), InList(other)) = SumOver(Currents(t), InList(other))
      <4>1. InList(other) \cap InList(list) = {} /\ InList(other) \subseteq Peers
            /\ IsFiniteSet(InList(other))
        BY <3>1, ListFacts
      <4>2. \A p \in InList(other) : Currents(u)[p] = Currents(t)[p]
        <5>1. ASSUME NEW p \in InList(other) PROVE Currents(u)[p] = Currents(t)[p]
          <6>1. p \in Peers /\ p \notin chosen /\ p # list[best]
            BY <4>1, <2>5, <2>7
          <6>2. u[p].current = t[p].current
            <7> HIDE DEF u, chosen, total, best
            <7>1. t[p].current \in Int
              BY <6>1 DEF Table, Server
            <7> QED BY <6>1, <2>9, <7>1
          <6> HIDE DEF u
          <6> QED BY <6>1, <6>2 DEF Currents
        <5> QED BY <5>1
      <4> HIDE DEF u
      <4> QED BY <4>1, <4>2, SumSame
    <3> HIDE DEF u
    <3> QED BY <3>1, <2>11 DEF Balanced
  <2>13. got.peer = list[best] /\ got.peers = u
    <3> HIDE DEF u, best, U
    <3> QED BY <1>1, <1>3
  <2> HIDE DEF got, u, best
  <2> QED BY <2>5, <2>6, <2>9, <2>10, <2>12, <2>13 DEF got
<1> QED BY <1>2, <1>3

(* Whichever list it comes from, a server is taken within its limit and     *)
(* counted once.                                                            *)
LEMMA GetRoundRobin ==
  ASSUME NEW t, Table(t), Within(t), Balanced(t), NEW tried, NEW backup, NEW now
  PROVE  LET got == ngx_http_upstream_get_round_robin_peer(t, tried, backup, now)
         IN  /\ got.peer \in Peers \cup {NoPeer}
             /\ Table(got.peers) /\ Within(got.peers) /\ Balanced(got.peers)
             /\ \A p \in Peers :
                  got.peers[p].conns = t[p].conns + (IF p = got.peer THEN 1 ELSE 0)
<1> DEFINE Good(g) == /\ g.peer \in Peers \cup {NoPeer}
                      /\ Table(g.peers) /\ Within(g.peers) /\ Balanced(g.peers)
                      /\ \A p \in Peers :
                           g.peers[p].conns = t[p].conns + (IF p = g.peer THEN 1 ELSE 0)
           busy(s, b) == [peer |-> NoPeer, tried |-> s, backup |-> b, peers |-> t]
           here == IF backup THEN Backup ELSE Primary
           first == ngx_http_upstream_get_peer(t, here, tried, now)
           second == ngx_http_upstream_get_peer(t, Backup, {}, now)
           only == [peer |-> Primary[1], peers |-> t]
           got == ngx_http_upstream_get_round_robin_peer(t, tried, backup, now)
<1>1. ASSUME NEW g, NEW s, NEW b, g.peer \in Peers, Table(g.peers), Balanced(g.peers),
             \A p \in Peers : g.peers[p].conns = t[p].conns,
             MaxConns[g.peer] = 0 \/ t[g.peer].conns < MaxConns[g.peer]
      PROVE  Good(Taken(g, s, b))
  <2> DEFINE u == [g.peers EXCEPT ![g.peer].conns = @ + 1]
  <2>1. Taken(g, s, b) = [peer |-> g.peer, tried |-> s \cup {g.peer}, backup |-> b, peers |-> u]
    BY DEF Taken
  <2>2. \A p \in Peers : Server(u[p]) /\ u[p].current = g.peers[p].current
                         /\ u[p].conns = t[p].conns + (IF p = g.peer THEN 1 ELSE 0)
    BY <1>1 DEF Table, Server, PeerFields
  <2>3. Table(u)
    BY <2>2, <1>1 DEF Table
  <2>4. Currents(u) = Currents(g.peers)
    <3> HIDE DEF u
    <3> QED BY <2>2 DEF Currents
  <2>5. Balanced(u)
    BY <2>4, <1>1 DEF Balanced
  <2>6. Within(u)
    <3>1. \A p \in Peers : MaxConns[p] \in Nat /\ t[p].conns \in Int
      BY RoundRobinAssumption DEF Table, Server
    <3> HIDE DEF u
    <3> QED BY <2>2, <3>1, <1>1 DEF Within
  <2> HIDE DEF u
  <2> QED BY <2>1, <2>2, <2>3, <2>5, <2>6, <1>1
<1>2. ASSUME NEW s, NEW b PROVE Good(busy(s, b))
  <2>1. NoPeer \notin Peers /\ \A p \in Peers : t[p].conns \in Int
    BY RoundRobinAssumption DEF Table, Server
  <2> QED BY <2>1
<1>3. Single => \/ MaxConns[Primary[1]] # 0 /\ t[Primary[1]].conns >= MaxConns[Primary[1]]
                \/ Good(Taken(only, tried, backup))
  <2>1. SUFFICES ASSUME Single, ~(MaxConns[Primary[1]] # 0 /\ t[Primary[1]].conns >= MaxConns[Primary[1]])
                 PROVE  Good(Taken(only, tried, backup))
    OBVIOUS
  <2>2. Primary[1] \in Peers
    <3>1. Primary \in Seq(Peers) /\ Len(Primary) = 1
      BY <2>1, RoundRobinAssumption DEF Single
    <3>2. 1 \in 1..Len(Primary)
      BY <3>1
    <3> QED BY <3>1, <3>2
  <2>3. MaxConns[Primary[1]] \in Nat /\ t[Primary[1]].conns \in Int
    BY <2>2, RoundRobinAssumption DEF Table, Server
  <2>4. only.peer = Primary[1] /\ only.peers = t
    OBVIOUS
  <2> HIDE DEF Good, only
  <2> QED BY <1>1, <2>1, <2>2, <2>3, <2>4
<1>4. ASSUME NEW list \in {Primary, Backup}, NEW s, NEW g,
             g = ngx_http_upstream_get_peer(t, list, s, now), g.peer # NoPeer,
             NEW v, NEW b
      PROVE  Good(Taken(g, v, b))
  <2>1. /\ g.peer \in InList(list) \cup {NoPeer}
        /\ MaxConns[g.peer] = 0 \/ t[g.peer].conns < MaxConns[g.peer]
        /\ Table(g.peers) /\ Balanced(g.peers)
        /\ \A p \in Peers : g.peers[p].conns = t[p].conns
    BY <1>4, GetPeer
  <2>2. g.peer \in Peers
    BY <2>1, <1>4, ListFacts
  <2> HIDE DEF Good
  <2> QED BY <1>1, <2>1, <2>2
<1>5. first.peer # NoPeer => Good(Taken(first, tried, backup))
  <2> DEFINE f == first
  <2>1. here \in {Primary, Backup} /\ f = ngx_http_upstream_get_peer(t, here, tried, now)
    OBVIOUS
  <2> HIDE DEF Good, f, here
  <2>2. f.peer # NoPeer => Good(Taken(f, tried, backup))
    BY <1>4, <2>1
  <2> QED BY <2>2 DEF f
<1>6. second.peer # NoPeer => Good(Taken(second, {}, TRUE))
  <2> DEFINE f == second
  <2>1. f = ngx_http_upstream_get_peer(t, Backup, {}, now)
    OBVIOUS
  <2> HIDE DEF Good, f
  <2>2. f.peer # NoPeer => Good(Taken(f, {}, TRUE))
    BY <1>4, <2>1
  <2> QED BY <2>2 DEF f
<1>7. got = CASE Single ->
                  IF MaxConns[Primary[1]] # 0
                       /\ t[Primary[1]].conns >= MaxConns[Primary[1]]
                  THEN busy(tried, backup)
                  ELSE Taken(only, tried, backup)
             [] ~Single /\ first.peer # NoPeer -> Taken(first, tried, backup)
             [] ~Single /\ first.peer = NoPeer /\ ~backup /\ Backup # <<>> ->
                  IF second.peer # NoPeer THEN Taken(second, {}, TRUE) ELSE busy({}, TRUE)
             [] OTHER -> busy(tried, backup)
  BY Zenon DEF ngx_http_upstream_get_round_robin_peer
<1> HIDE DEF Good, busy, first, second, only, got
<1>8. Good(got)
  BY <1>2, <1>3, <1>5, <1>6, <1>7
<1> QED BY <1>8 DEF Good, got

(* A server given back is counted once less; its failure lowers its weight  *)
(* and leaves the balance.                                                  *)
LEMMA FreeRoundRobin ==
  ASSUME NEW t, Table(t), Balanced(t), NEW p \in Peers, NEW failed, NEW now
  PROVE  LET u == ngx_http_upstream_free_round_robin_peer(t, p, failed, now)
         IN  /\ Table(u) /\ Balanced(u)
             /\ \A x \in Peers : u[x].conns = t[x].conns - (IF x = p THEN 1 ELSE 0)
<1> DEFINE loss == IF MaxFails = 0 THEN 0 ELSE Weight[p] \div MaxFails
           after == IF t[p].effective > loss THEN t[p].effective - loss ELSE 0
           freed == [t EXCEPT ![p].conns = @ - 1]
           lost == [freed EXCEPT ![p].fails = @ + 1, ![p].accessed = now,
                                 ![p].checked = now, ![p].effective = after]
           kept == [freed EXCEPT ![p].fails =
                      IF t[p].accessed < t[p].checked THEN 0 ELSE @]
           Good(u) == /\ Table(u) /\ Balanced(u)
                      /\ \A x \in Peers : u[x].conns = t[x].conns - (IF x = p THEN 1 ELSE 0)
           u == ngx_http_upstream_free_round_robin_peer(t, p, failed, now)
<1>1. ASSUME NEW v, DOMAIN v = Peers,
             \A x \in Peers : /\ Server(v[x]) /\ v[x].current = t[x].current
                              /\ v[x].conns = t[x].conns - (IF x = p THEN 1 ELSE 0)
      PROVE  Good(v)
  <2>1. Currents(v) = Currents(t)
    BY <1>1 DEF Currents
  <2> QED BY <2>1, <1>1 DEF Table, Balanced
<1>2. loss \in Int
  <2>1. Weight[p] \in Nat /\ MaxFails \in Nat
    BY RoundRobinAssumption
  <2> QED BY <2>1
<1>3. after \in Int
  <2>1. t[p].effective \in Int
    BY DEF Table, Server
  <2> HIDE DEF loss
  <2> QED BY <1>2, <2>1
<1>4. DOMAIN freed = Peers /\ \A x \in Peers :
         /\ Server(freed[x]) /\ freed[x].current = t[x].current
         /\ freed[x].conns = t[x].conns - (IF x = p THEN 1 ELSE 0)
  BY DEF Table, Server, PeerFields
<1>5. DOMAIN lost = Peers /\ \A x \in Peers :
         /\ Server(lost[x]) /\ lost[x].current = t[x].current
         /\ lost[x].conns = t[x].conns - (IF x = p THEN 1 ELSE 0)
  <2> HIDE DEF freed, after
  <2> QED BY <1>3, <1>4 DEF Server, PeerFields
<1>6. DOMAIN kept = Peers /\ \A x \in Peers :
         /\ Server(kept[x]) /\ kept[x].current = t[x].current
         /\ kept[x].conns = t[x].conns - (IF x = p THEN 1 ELSE 0)
  <2> HIDE DEF freed
  <2> QED BY <1>4 DEF Server, PeerFields
<1>7. u = CASE Single -> freed [] ~Single /\ failed -> lost [] OTHER -> kept
  BY Zenon DEF ngx_http_upstream_free_round_robin_peer
<1>8. Good(freed) /\ Good(lost) /\ Good(kept)
  <2> HIDE DEF Good, freed, lost, kept
  <2> QED BY <1>1, <1>4, <1>5, <1>6
<1> HIDE DEF Good, freed, lost, kept, u
<1>9. Good(u)
  BY <1>7, <1>8
<1> QED BY <1>9 DEF Good, u

(* The cache of idle connections holds open ones of nobody else; conn is    *)
(* the connection of the request at work and goes says where those of the   *)
(* others go.                                                               *)
Owned(cache, socks, conn, goes) ==
  /\ cache \in Seq(Conns) /\ Len(cache) <= KaSize
  /\ \A i, j \in 1..Len(cache) : cache[i] = cache[j] => i = j
  /\ conn \in Conns \cup {NoConn}
  /\ \A i \in 1..Len(cache) : cache[i] # conn /\ cache[i] \notin DOMAIN goes
  /\ conn \notin DOMAIN goes
  /\ DOMAIN socks = Conns
  /\ \A c \in Conns : socks[c] # NoPeer <=> \/ c = conn \/ c \in DOMAIN goes
                                            \/ \E i \in 1..Len(cache) : cache[i] = c
  /\ \A c \in DOMAIN goes : c \in Conns /\ socks[c] = goes[c]

(* What Owned says of sequences and connections.                            *)
LEMMA ConnsAre == NoConn \notin Conns /\ KaSize \in Nat /\ Cardinality(Requests) \in Nat
BY FS_CardinalityType, UpstreamAssumption DEF Conns, NoConn

LEMMA FrontFacts ==
  ASSUME NEW S, NEW s \in Seq(S), NEW n \in Nat, n <= Len(s)
  PROVE  /\ SubSeq(s, 1, n) \in Seq(S) /\ Len(SubSeq(s, 1, n)) = n
         /\ \A i \in 1..n : SubSeq(s, 1, n)[i] = s[i]
OBVIOUS

LEMMA ConsElements ==
  ASSUME NEW S, NEW s \in Seq(S), NEW c \in S
  PROVE  /\ <<c>> \o s \in Seq(S) /\ Len(<<c>> \o s) = Len(s) + 1
         /\ \A i \in 1..Len(s) + 1 : (<<c>> \o s)[i] = IF i = 1 THEN c ELSE s[i - 1]
OBVIOUS

LEMMA WithoutFacts ==
  ASSUME NEW S, NEW s \in Seq(S), NEW i \in 1..Len(s)
  PROVE  /\ Without(s, i) \in Seq(S) /\ Len(Without(s, i)) = Len(s) - 1
         /\ \A j \in 1..Len(s) - 1 : Without(s, i)[j] = IF j < i THEN s[j] ELSE s[j + 1]
<1> DEFINE a == SubSeq(s, 1, i - 1)
           d == SubSeq(s, i + 1, Len(s))
<1>1. Len(s) \in Nat /\ i \in Nat /\ 1 <= i /\ i <= Len(s)
  OBVIOUS
<1>2. a \in Seq(S) /\ Len(a) = i - 1 /\ \A j \in 1..i - 1 : a[j] = s[j]
  <2>1. i - 1 \in Nat /\ i - 1 <= Len(s)
    BY <1>1
  <2> QED BY <2>1, FrontFacts
<1>3. d \in Seq(S) /\ Len(d) = Len(s) - i /\ \A j \in 1..Len(s) - i : d[j] = s[i + j]
  BY <1>1
<1>4. Without(s, i) = a \o d
  BY DEF Without
<1> DEFINE w == a \o d
<1> HIDE DEF a, d
<1>e. a \in Seq(S) /\ d \in Seq(S) /\ Len(a) \in Nat /\ Len(d) \in Nat
  BY <1>2, <1>3
<1>f. w \in Seq(S)
  BY <1>e
<1>g. Len(w) = Len(a) + Len(d)
  BY <1>e
<1>h. \A j \in 1..Len(a) + Len(d) : w[j] = IF j <= Len(a) THEN a[j] ELSE d[j - Len(a)]
  BY <1>e
<1>5. /\ w \in Seq(S) /\ Len(w) = Len(a) + Len(d)
      /\ \A j \in 1..Len(a) + Len(d) : w[j] = IF j <= Len(a) THEN a[j] ELSE d[j - Len(a)]
  BY <1>f, <1>g, <1>h
<1> HIDE DEF w
<1>6. Len(w) = Len(s) - 1
  BY <1>1, <1>2, <1>3, <1>5
<1>7. ASSUME NEW j \in 1..Len(s) - 1 PROVE w[j] = IF j < i THEN s[j] ELSE s[j + 1]
  <2>1. CASE j < i
    <3>1. j \in 1..Len(a) + Len(d) /\ j <= Len(a) /\ j \in 1..i - 1
      BY <1>1, <1>2, <1>3, <2>1
    <3> QED BY <3>1, <2>1, <1>2, <1>5
  <2>2. CASE ~(j < i)
    <3>1. /\ j \in 1..Len(a) + Len(d) /\ ~(j <= Len(a)) /\ j - Len(a) \in 1..Len(s) - i
          /\ i + (j - Len(a)) = j + 1
      BY <1>1, <1>2, <1>3, <2>2
    <3> QED BY <3>1, <2>2, <1>3, <1>5
  <2> QED BY <2>1, <2>2
<1> QED BY <1>4, <1>5, <1>6, <1>7 DEF w

(* An open connection leaves the cache.                                     *)
LEMMA TakenOut ==
  ASSUME NEW cache, NEW socks, NEW goes, NEW n \in 1..Len(cache),
         Owned(cache, socks, NoConn, goes)
  PROVE  /\ Owned(Without(cache, n), socks, cache[n], goes)
         /\ cache[n] \in Conns /\ cache[n] # NoConn
<1> DEFINE w == Without(cache, n)
<1>1. cache \in Seq(Conns) /\ Len(cache) \in Nat /\ cache[n] \in Conns /\ KaSize \in Nat
      /\ Len(cache) <= KaSize /\ cache[n] # NoConn
  BY ConnsAre DEF Owned
<1>2. /\ w \in Seq(Conns) /\ Len(w) = Len(cache) - 1
      /\ \A j \in 1..Len(w) : w[j] = IF j < n THEN cache[j] ELSE cache[j + 1]
  BY <1>1, WithoutFacts
<1> HIDE DEF w
<1>3. \A j \in 1..Len(w) : \E k \in 1..Len(cache) : k # n /\ w[j] = cache[k]
  <2>1. ASSUME NEW j \in 1..Len(w)
        PROVE  \E k \in 1..Len(cache) : k # n /\ w[j] = cache[k]
    <3>1. CASE j < n
      BY <1>1, <1>2, <3>1
    <3>2. CASE ~(j < n)
      <4>1. j + 1 \in 1..Len(cache) /\ j + 1 # n /\ w[j] = cache[j + 1]
        BY <1>1, <1>2, <3>2
      <4> QED BY <4>1
    <3> QED BY <3>1, <3>2
  <2> QED BY <2>1
<1>4. \A k \in 1..Len(cache) : k # n => \E j \in 1..Len(w) : w[j] = cache[k]
  <2>1. ASSUME NEW k \in 1..Len(cache), k # n PROVE \E j \in 1..Len(w) : w[j] = cache[k]
    <3>1. CASE k < n
      BY <1>1, <1>2, <3>1
    <3>2. CASE ~(k < n)
      <4>1. k - 1 \in 1..Len(w) /\ w[k - 1] = cache[k]
        BY <1>1, <1>2, <2>1, <3>2
      <4> QED BY <4>1
    <3> QED BY <3>1, <3>2
  <2> QED BY <2>1
<1>5. \A i, j \in 1..Len(w) : w[i] = w[j] => i = j
  <2>1. ASSUME NEW i \in 1..Len(w), NEW j \in 1..Len(w), w[i] = w[j] PROVE i = j
    <3> DEFINE a == IF i < n THEN i ELSE i + 1
               d == IF j < n THEN j ELSE j + 1
    <3>1. a \in 1..Len(cache) /\ d \in 1..Len(cache) /\ w[i] = cache[a] /\ w[j] = cache[d]
      BY <1>1, <1>2
    <3>2. a = d
      <4> HIDE DEF a, d
      <4>1. cache[a] = cache[d]
        BY <3>1, <2>1
      <4>2. \A x, y \in 1..Len(cache) : cache[x] = cache[y] => x = y
        BY DEF Owned
      <4> QED BY <3>1, <4>1, <4>2
    <3> QED BY <3>2, <1>1, <1>2
  <2> QED BY <2>1
<1>6. \A c \in Conns : (\E i \in 1..Len(cache) : cache[i] = c)
                         <=> c = cache[n] \/ \E i \in 1..Len(w) : w[i] = c
  BY <1>3, <1>4
<1>7. \A i \in 1..Len(w) : w[i] # cache[n] /\ w[i] \notin DOMAIN goes
  BY <1>3 DEF Owned
<1>8. cache[n] \notin DOMAIN goes
  BY DEF Owned
<1>9. Len(w) <= KaSize
  BY <1>1, <1>2
<1>10. \A c \in Conns : socks[c] # NoPeer <=> \/ c = cache[n] \/ c \in DOMAIN goes
                                              \/ \E i \in 1..Len(w) : w[i] = c
  BY <1>6, <1>1, ConnsAre DEF Owned
<1> QED BY <1>1, <1>2, <1>5, <1>7, <1>8, <1>9, <1>10 DEF Owned, w

(* A connection enters the cache: first, in place of the last.              *)
LEMMA PutIn ==
  ASSUME NEW cache, NEW socks, NEW conn, NEW goes, NEW gone \in BOOLEAN,
         Owned(cache, socks, conn, goes), conn # NoConn, KaSize > 0
  PROVE  LET full == Len(cache) = KaSize
             rest == IF full THEN SubSeq(cache, 1, KaSize - 1) ELSE cache
             shut == (IF full THEN {cache[KaSize]} ELSE {}) \cup (IF gone THEN {conn} ELSE {})
         IN  Owned(IF gone THEN rest ELSE <<conn>> \o rest,
                   [c \in Conns |-> IF c \in shut THEN NoPeer ELSE socks[c]], NoConn, goes)
<1> DEFINE full == Len(cache) = KaSize
           n == IF full THEN KaSize - 1 ELSE Len(cache)
           rest == IF full THEN SubSeq(cache, 1, KaSize - 1) ELSE cache
           shut == (IF full THEN {cache[KaSize]} ELSE {}) \cup (IF gone THEN {conn} ELSE {})
           new == IF gone THEN rest ELSE <<conn>> \o rest
           open == [c \in Conns |-> IF c \in shut THEN NoPeer ELSE socks[c]]
<1>1. /\ cache \in Seq(Conns) /\ Len(cache) \in Nat /\ Len(cache) <= KaSize /\ KaSize \in Nat
      /\ conn \in Conns /\ NoConn \notin Conns
  BY ConnsAre DEF Owned
<1>2. /\ rest \in Seq(Conns) /\ Len(rest) = n /\ n \in Nat /\ n < KaSize /\ n <= Len(cache)
      /\ \A i \in 1..n : rest[i] = cache[i]
  <2>1. CASE full
    <3>1. KaSize - 1 \in Nat /\ KaSize - 1 <= Len(cache)
      BY <1>1, <2>1
    <3> QED BY <1>1, <2>1, <3>1, FrontFacts
  <2>2. CASE ~full
    BY <1>1, <2>2
  <2> QED BY <2>1, <2>2
<1>3. \A c \in Conns : (\E i \in 1..Len(cache) : cache[i] = c)
                         <=> (\E i \in 1..n : rest[i] = c) \/ (full /\ c = cache[KaSize])
  <2>1. CASE full
    <3>1. \A i \in 1..Len(cache) : i \in 1..n \/ i = KaSize
      BY <1>1, <1>2, <2>1
    <3>2. \A i \in 1..n : i \in 1..Len(cache)
      BY <1>1, <1>2
    <3>3. KaSize \in 1..Len(cache)
      BY <1>1, <2>1
    <3> QED BY <3>1, <3>2, <3>3, <2>1, <1>2
  <2>2. CASE ~full
    BY <1>1, <1>2, <2>2
  <2> QED BY <2>1, <2>2
<1>4. full => \A i \in 1..n : rest[i] # cache[KaSize]
  <2>1. SUFFICES ASSUME full, NEW i \in 1..n PROVE rest[i] # cache[KaSize]
    OBVIOUS
  <2>2. i \in 1..Len(cache) /\ KaSize \in 1..Len(cache) /\ i # KaSize /\ rest[i] = cache[i]
    BY <1>1, <1>2, <2>1
  <2> QED BY <2>2 DEF Owned
<1>5. /\ \A i, j \in 1..n : rest[i] = rest[j] => i = j
      /\ \A i \in 1..n : rest[i] # conn /\ rest[i] \notin DOMAIN goes /\ rest[i] \in Conns
  <2>1. \A i \in 1..n : i \in 1..Len(cache) /\ rest[i] = cache[i]
    BY <1>1, <1>2
  <2> HIDE DEF rest, n
  <2> QED BY <2>1, <1>1, <1>2 DEF Owned
<1>6. full => cache[KaSize] \in Conns /\ cache[KaSize] # conn /\ cache[KaSize] \notin DOMAIN goes
  <2>1. full => KaSize \in 1..Len(cache)
    BY <1>1
  <2> QED BY <2>1, <1>1 DEF Owned
<1>7. /\ new \in Seq(Conns) /\ Len(new) <= KaSize /\ Len(new) \in Nat
      /\ \A i, j \in 1..Len(new) : new[i] = new[j] => i = j
      /\ \A c \in Conns : (\E i \in 1..Len(new) : new[i] = c)
                            <=> (\E i \in 1..n : rest[i] = c) \/ (~gone /\ c = conn)
  <2>1. CASE gone
    <3>1. new = rest
      BY <2>1
    <3> HIDE DEF rest, n, new
    <3> QED BY <2>1, <3>1, <1>1, <1>2, <1>5
  <2>2. CASE ~gone
    <3>1. new = <<conn>> \o rest
      BY <2>2
    <3> HIDE DEF rest, n, new
    <3>2. /\ new \in Seq(Conns) /\ Len(new) = n + 1
          /\ \A i \in 1..n + 1 : new[i] = IF i = 1 THEN conn ELSE rest[i - 1]
      <4>1. Len(rest) = n
        BY <1>2
      <4> QED BY <3>1, <4>1, <1>1, <1>2, ConsElements
    <3>3. \A i \in 1..n + 1 : i # 1 => i - 1 \in 1..n
      BY <1>2
    <3>4. \A i, j \in 1..n + 1 : new[i] = new[j] => i = j
      <4>1. ASSUME NEW i \in 1..n + 1, NEW j \in 1..n + 1, new[i] = new[j] PROVE i = j
        <5>1. CASE i = 1 \/ j = 1
          BY <5>1, <4>1, <3>2, <3>3, <1>5
        <5>2. CASE i # 1 /\ j # 1
          <6>1. rest[i - 1] = rest[j - 1] /\ i - 1 \in 1..n /\ j - 1 \in 1..n
            BY <5>2, <4>1, <3>2, <3>3
          <6>2. i - 1 = j - 1
            BY <6>1, <1>5
          <6> QED BY <6>2, <1>2
        <5> QED BY <5>1, <5>2
      <4> QED BY <4>1
    <3>5. \A c \in Conns : (\E i \in 1..n + 1 : new[i] = c)
                             <=> (\E i \in 1..n : rest[i] = c) \/ c = conn
      <4>1. ASSUME NEW i \in 1..n PROVE i + 1 \in 1..n + 1 /\ new[i + 1] = rest[i]
        <5>1. i + 1 \in 1..n + 1 /\ i + 1 # 1 /\ (i + 1) - 1 = i
          BY <1>2
        <5> QED BY <5>1, <3>2
      <4>2. 1 \in 1..n + 1 /\ new[1] = conn
        BY <3>2, <1>2
      <4> QED BY <4>1, <4>2, <3>2, <3>3
    <3> QED BY <2>2, <3>2, <3>4, <3>5, <1>1, <1>2
  <2> QED BY <2>1, <2>2
<1>8. \A c \in Conns : c \in shut <=> (full /\ c = cache[KaSize]) \/ (gone /\ c = conn)
  OBVIOUS
<1>9. DOMAIN open = Conns /\ \A c \in Conns : open[c] = IF c \in shut THEN NoPeer ELSE socks[c]
  OBVIOUS
<1>10. \A i \in 1..Len(new) : new[i] \in Conns /\ new[i] # NoConn /\ new[i] \notin DOMAIN goes
  <2> HIDE DEF new, rest, n
  <2>1. \A i \in 1..Len(new) : new[i] \in Conns
    BY <1>7
  <2>2. \A c \in Conns : (\E i \in 1..Len(new) : new[i] = c) => c \notin DOMAIN goes
    BY <1>7, <1>5 DEF Owned
  <2> QED BY <2>1, <2>2, <1>1
<1>11. \A c \in Conns : open[c] # NoPeer <=> \/ c = NoConn \/ c \in DOMAIN goes
                                             \/ \E i \in 1..Len(new) : new[i] = c
  <2> HIDE DEF new, rest, n, open, shut, full
  <2>1. ASSUME NEW c \in Conns
        PROVE  open[c] # NoPeer <=> \/ c = NoConn \/ c \in DOMAIN goes
                                    \/ \E i \in 1..Len(new) : new[i] = c
    <3>1. socks[c] # NoPeer <=> \/ c = conn \/ c \in DOMAIN goes
                                \/ \E i \in 1..n : rest[i] = c
                                \/ full /\ c = cache[KaSize]
      BY <1>3 DEF Owned
    <3>2. c # NoConn
      BY <1>1
    <3>3. c = conn => c \notin DOMAIN goes /\ (~\E i \in 1..n : rest[i] = c)
                      /\ ~(full /\ c = cache[KaSize])
      BY <1>5, <1>6 DEF Owned
    <3>4. full /\ c = cache[KaSize] => c \notin DOMAIN goes /\ ~\E i \in 1..n : rest[i] = c
      BY <1>4, <1>6
    <3> QED BY <3>1, <3>2, <3>3, <3>4, <1>7, <1>8, <1>9
  <2> QED BY <2>1
<1>12. \A c \in DOMAIN goes : c \in Conns /\ open[c] = goes[c]
  <2> HIDE DEF new, rest, n, open, shut, full
  <2> QED BY <1>6, <1>8, <1>9 DEF Owned
<1>13. NoConn \notin DOMAIN goes
  BY <1>1 DEF Owned
<1> HIDE DEF new, rest, n, open, shut, full
<1>14. Owned(new, open, NoConn, goes)
  BY <1>7, <1>9, <1>10, <1>11, <1>12, <1>13 DEF Owned
<1> QED BY <1>14 DEF new, rest, open, shut, full

(* A bundle of a request, when the other requests hold held[p] times server *)
(* p and have the connections that goes says.                               *)
BundleSound(b, held, goes) ==
  /\ IsBundle(b)
  /\ Table(b.peers) /\ Within(b.peers) /\ Balanced(b.peers)
  /\ \A p \in Peers :
       b.peers[p].conns = held[p] + (IF b.q.sockaddr /\ b.q.cur = p THEN 1 ELSE 0)
  /\ b.q.sockaddr \in BOOLEAN
  /\ b.q.sockaddr => b.q.cur \in Peers
  /\ Owned(b.cache, b.sockets, b.q.conn, goes)
  /\ b.q.sockaddr /\ b.q.conn # NoConn => b.sockets[b.q.conn] = b.q.cur

HeldOK(held) == \A p \in Peers : held[p] \in Int

(* Each function of the code that works on a bundle keeps it sound.  A      *)
(* connection goes into the cache only while the request has it.            *)
LEMMA KeptSound ==
  ASSUME NEW b, NEW held, NEW goes, BundleSound(b, held, goes), NEW failed, NEW keep,
         Keepable(b, failed, keep)
  PROVE  LET k == Kept(b, keep)
         IN  /\ BundleSound(k, held, goes)
             /\ k.q.conn = NoConn /\ k.q.sockaddr = b.q.sockaddr /\ k.q.cur = b.q.cur
<1> DEFINE full == Len(b.cache) = KaSize
           rest == IF full THEN SubSeq(b.cache, 1, KaSize - 1) ELSE b.cache
           gone == keep = "gone"
           shut == (IF full THEN {b.cache[KaSize]} ELSE {})
                   \cup (IF gone THEN {b.q.conn} ELSE {})
           new == IF gone THEN rest ELSE <<b.q.conn>> \o rest
           open == [c \in Conns |-> IF c \in shut THEN NoPeer ELSE b.sockets[c]]
           k == Kept(b, keep)
           q1 == [b.q EXCEPT !.conn = NoConn]
<1>1. Owned(new, open, NoConn, goes)
  <2> DEFINE cache == b.cache
             socks == b.sockets
             conn == b.q.conn
  <2>1. Owned(cache, socks, conn, goes) /\ conn # NoConn /\ KaSize > 0 /\ gone \in BOOLEAN
    BY DEF BundleSound, Keepable
  <2> HIDE DEF cache, socks, conn, gone
  <2>2. LET fl == Len(cache) = KaSize
            rs == IF fl THEN SubSeq(cache, 1, KaSize - 1) ELSE cache
            sh == (IF fl THEN {cache[KaSize]} ELSE {}) \cup (IF gone THEN {conn} ELSE {})
        IN  Owned(IF gone THEN rs ELSE <<conn>> \o rs,
                  [c \in Conns |-> IF c \in sh THEN NoPeer ELSE socks[c]], NoConn, goes)
    BY <2>1, PutIn
  <2> QED BY <2>2 DEF cache, socks, conn
<1>2. k = [b EXCEPT !.cache = new, !.sockets = open, !.q.conn = NoConn]
  BY Zenon DEF Kept, Closed
<1> HIDE DEF new, open, k
<1>3. /\ DOMAIN k = DOMAIN b /\ k.cache = new /\ k.sockets = open /\ k.q = q1 /\ k.peers = b.peers
  BY <1>2 DEF BundleSound, IsBundle
<1>4. Shape(q1) /\ q1.conn = NoConn /\ q1.sockaddr = b.q.sockaddr /\ q1.cur = b.q.cur
  BY DEF BundleSound, IsBundle, Shape, Fields
<1> HIDE DEF q1
<1> QED BY <1>1, <1>3, <1>4 DEF BundleSound, IsBundle, k

LEMMA FreePeerSound ==
  ASSUME NEW b, NEW held, NEW goes, BundleSound(b, held, goes), HeldOK(held),
         NEW failed, NEW keep, b.q.sockaddr
  PROVE  LET f == FreePeer(b, failed, keep)
         IN  BundleSound(f, held, goes) /\ ~f.q.sockaddr
<1> DEFINE k == IF Keepable(b, failed, keep) THEN Kept(b, keep) ELSE b
           u == ngx_http_upstream_free_round_robin_peer(k.peers, k.q.cur, failed, upTime)
           q1 == [k.q EXCEPT !.tries = TriesAfterFree(@), !.sockaddr = FALSE]
           f == FreePeer(b, failed, keep)
<1>1. BundleSound(k, held, goes) /\ k.q.sockaddr = b.q.sockaddr /\ k.q.cur = b.q.cur
  BY KeptSound
<1>2. f = [k EXCEPT !.peers = u, !.q.tries = TriesAfterFree(@), !.q.sockaddr = FALSE]
  BY Zenon DEF FreePeer
<1> HIDE DEF k, f
<1>3. k.q.cur \in Peers
  BY <1>1 DEF BundleSound
<1>4. /\ Table(u) /\ Balanced(u)
      /\ \A x \in Peers : u[x].conns = k.peers[x].conns - (IF x = k.q.cur THEN 1 ELSE 0)
  BY <1>1, <1>3, FreeRoundRobin DEF BundleSound
<1> HIDE DEF u
<1>5. DOMAIN f = DOMAIN k /\ f.peers = u /\ f.cache = k.cache /\ f.sockets = k.sockets /\ f.q = q1
  BY <1>1, <1>2 DEF BundleSound, IsBundle
<1>6. Shape(q1) /\ q1.sockaddr = FALSE /\ q1.conn = k.q.conn /\ q1.cur = k.q.cur
  BY <1>1 DEF BundleSound, IsBundle, Shape, Fields
<1> HIDE DEF q1
<1>7. \A x \in Peers : held[x] \in Int
  BY DEF HeldOK
<1>8. \A x \in Peers : u[x].conns = held[x]
  BY <1>1, <1>4, <1>7 DEF BundleSound
<1>9. Within(u)
  <2>1. \A x \in Peers : k.peers[x].conns \in Int /\ MaxConns[x] \in Int
                         /\ (MaxConns[x] = 0 \/ k.peers[x].conns <= MaxConns[x])
    BY <1>1, RoundRobinAssumption DEF BundleSound, Within, Table, Server
  <2> QED BY <2>1, <1>4 DEF Within
<1>10. IsBundle(f) /\ f.q.sockaddr = FALSE /\ f.q.conn = k.q.conn
  BY <1>1, <1>5, <1>6 DEF BundleSound, IsBundle
<1>11. \A x \in Peers : f.peers[x].conns = held[x] + (IF f.q.sockaddr /\ f.q.cur = x THEN 1 ELSE 0)
  BY <1>5, <1>7, <1>8, <1>10
<1>12. Owned(f.cache, f.sockets, f.q.conn, goes)
  BY <1>1, <1>5, <1>10 DEF BundleSound
<1>13. Table(f.peers) /\ Within(f.peers) /\ Balanced(f.peers)
  BY <1>4, <1>5, <1>9
<1> QED BY <1>10, <1>11, <1>12, <1>13 DEF BundleSound, f

(* A connection of nobody else is closed.                                   *)
LEMMA OwnedClosed ==
  ASSUME NEW cache, NEW socks, NEW conn, NEW goes, Owned(cache, socks, conn, goes)
  PROVE  Owned(cache, [c \in Conns |-> IF c \in {conn} THEN NoPeer ELSE socks[c]], NoConn, goes)
<1> DEFINE open == [c \in Conns |-> IF c \in {conn} THEN NoPeer ELSE socks[c]]
<1>1. NoConn \notin Conns /\ \A i \in 1..Len(cache) : cache[i] \in Conns
  BY ConnsAre DEF Owned
<1>2. DOMAIN open = Conns /\ \A c \in Conns : open[c] = IF c = conn THEN NoPeer ELSE socks[c]
  OBVIOUS
<1> HIDE DEF open
<1>3. Owned(cache, open, NoConn, goes)
  BY <1>1, <1>2 DEF Owned
<1> QED BY <1>3 DEF open

LEMMA CloseConnSound ==
  ASSUME NEW b, NEW held, NEW goes, BundleSound(b, held, goes), ~b.q.sockaddr
  PROVE  LET c == CloseConn(b)
         IN  BundleSound(c, held, goes) /\ ~c.q.sockaddr /\ c.q.conn = NoConn
<1> DEFINE open == [c \in Conns |-> IF c \in {b.q.conn} THEN NoPeer ELSE b.sockets[c]]
           q1 == [b.q EXCEPT !.conn = NoConn, !.wtimer = FALSE]
           d == CloseConn(b)
<1>1. Owned(b.cache, open, NoConn, goes)
  BY OwnedClosed DEF BundleSound
<1>2. d = [b EXCEPT !.sockets = open, !.q.conn = NoConn, !.q.wtimer = FALSE]
  BY Zenon DEF CloseConn, Closed
<1> HIDE DEF open, d
<1>3. DOMAIN d = DOMAIN b /\ d.sockets = open /\ d.q = q1 /\ d.peers = b.peers /\ d.cache = b.cache
  BY <1>2 DEF BundleSound, IsBundle
<1>4. Shape(q1) /\ q1.conn = NoConn /\ q1.sockaddr = b.q.sockaddr /\ q1.cur = b.q.cur
  BY DEF BundleSound, IsBundle, Shape, Fields
<1> HIDE DEF q1
<1> QED BY <1>1, <1>3, <1>4 DEF BundleSound, IsBundle, d

(* Fields that do not matter here may change.                               *)
LEMMA OtherFields ==
  ASSUME NEW b, NEW held, NEW goes, BundleSound(b, held, goes), NEW d, NEW q, Shape(q),
         IsBundle(d), d.q = q, d.peers = b.peers, d.cache = b.cache, d.sockets = b.sockets,
         q.sockaddr = b.q.sockaddr, q.sockaddr => q.cur = b.q.cur, q.conn = b.q.conn
  PROVE  BundleSound(d, held, goes)
BY DEF BundleSound

(* ngx_http_upstream_finalize_request and ngx_http_upstream_next end with a *)
(* request that has neither server nor connection.                          *)
LEMMA FinalizePeers ==
  ASSUME NEW b, NEW held, NEW goes, BundleSound(b, held, goes), HeldOK(held), NEW keep
  PROVE  LET f == ngx_http_upstream_finalize_request(b, keep)
         IN  BundleSound(f, held, goes) /\ ~f.q.sockaddr /\ f.q.conn = NoConn /\ f.q.st = "done"
<1> DEFINE f == IF b.q.sockaddr THEN FreePeer(b, FALSE, keep) ELSE b
           c == CloseConn(f)
           q1 == [Fresh EXCEPT !.st = "done", !.kind = b.q.kind, !.sends = b.q.sends]
           d == ngx_http_upstream_finalize_request(b, keep)
<1>1. BundleSound(f, held, goes) /\ ~f.q.sockaddr
  BY FreePeerSound
<1>2. d = [c EXCEPT !.q = q1]
  BY Zenon DEF ngx_http_upstream_finalize_request
<1> HIDE DEF f
<1>3. BundleSound(c, held, goes) /\ ~c.q.sockaddr /\ c.q.conn = NoConn
  BY <1>1, CloseConnSound
<1>4. Shape(q1) /\ q1.st = "done" /\ q1.sockaddr = FALSE /\ q1.conn = NoConn
  BY DEF Shape, Fields, Fresh
<1> HIDE DEF c, d, q1
<1>5. IsBundle(d) /\ d.q = q1 /\ d.peers = c.peers /\ d.cache = c.cache /\ d.sockets = c.sockets
  BY <1>2, <1>3, <1>4 DEF BundleSound, IsBundle
<1>6. c.q.sockaddr = FALSE
  BY <1>3 DEF BundleSound
<1>7. BundleSound(d, held, goes)
  BY <1>3, <1>4, <1>5, <1>6, OtherFields
<1> QED BY <1>4, <1>5, <1>7 DEF d

LEMMA NextPeers ==
  ASSUME NEW b, NEW held, NEW goes, BundleSound(b, held, goes), HeldOK(held), NEW ft, NEW keep
  PROVE  LET n == ngx_http_upstream_next(b, ft, keep)
         IN  BundleSound(n, held, goes) /\ ~n.q.sockaddr /\ n.q.conn = NoConn
<1> DEFINE f == IF b.q.sockaddr THEN FreePeer(b, ft # "http_404", keep) ELSE b
           t == IF b.q.cached /\ ft = "error" THEN [f EXCEPT !.q.tries = @ + 1] ELSE f
           qt == [f.q EXCEPT !.tries = @ + 1]
           c == CloseConn(t)
           q1 == [c.q EXCEPT !.st = "connect"]
           on == [c EXCEPT !.q.st = "connect"]
           n == ngx_http_upstream_next(b, ft, keep)
<1>1. BundleSound(f, held, goes) /\ ~f.q.sockaddr
  BY FreePeerSound
<1>2. n = IF t.q.error \/ t.q.tries = 0 \/ ~MayGoOn(t.q, ft)
          THEN ngx_http_upstream_finalize_request(t, "no")
          ELSE on
  BY Zenon DEF ngx_http_upstream_next
<1> HIDE DEF f
<1>3. BundleSound(t, held, goes) /\ ~t.q.sockaddr
  <2> DEFINE e == [f EXCEPT !.q.tries = @ + 1]
  <2>1. IsBundle(e) /\ e.q = qt /\ e.peers = f.peers /\ e.cache = f.cache /\ e.sockets = f.sockets
        /\ Shape(qt) /\ qt.sockaddr = f.q.sockaddr /\ qt.cur = f.q.cur /\ qt.conn = f.q.conn
    BY <1>1 DEF BundleSound, IsBundle, Shape, Fields
  <2> HIDE DEF e, qt
  <2>2. BundleSound(e, held, goes) /\ ~e.q.sockaddr
    BY <1>1, <2>1, OtherFields
  <2> QED BY <1>1, <2>2 DEF e
<1> HIDE DEF t
<1>4. BundleSound(c, held, goes) /\ ~c.q.sockaddr /\ c.q.conn = NoConn
  BY <1>3, CloseConnSound
<1> HIDE DEF c
<1>5. BundleSound(on, held, goes) /\ ~on.q.sockaddr /\ on.q.conn = NoConn
  <2>1. IsBundle(on) /\ on.q = q1 /\ on.peers = c.peers /\ on.cache = c.cache
        /\ on.sockets = c.sockets /\ Shape(q1) /\ q1.sockaddr = c.q.sockaddr
        /\ q1.cur = c.q.cur /\ q1.conn = c.q.conn
    BY <1>4 DEF BundleSound, IsBundle, Shape, Fields
  <2> HIDE DEF on, q1
  <2> QED BY <1>4, <2>1, OtherFields
<1>6. BundleSound(ngx_http_upstream_finalize_request(t, "no"), held, goes)
      /\ ~ngx_http_upstream_finalize_request(t, "no").q.sockaddr
      /\ ngx_http_upstream_finalize_request(t, "no").q.conn = NoConn
  BY <1>3, FinalizePeers
<1> HIDE DEF n, on
<1>7. BundleSound(n, held, goes) /\ ~n.q.sockaddr /\ n.q.conn = NoConn
  BY <1>2, <1>5, <1>6
<1> QED BY <1>7 DEF n

(* The request is bound to a connection of its own: one that was free, or   *)
(* one from the cache to the server it took.                                *)
LEMMA ConnectedSound ==
  ASSUME NEW b, NEW held, NEW goes, BundleSound(b, held, goes), b.q.sockaddr,
         b.q.conn = NoConn, NEW a, IsBundle(a), a.q = b.q, a.peers = b.peers,
         a.sockets = b.sockets, NEW c \in Conns,
         \/ a.cache = b.cache /\ b.sockets[c] = NoPeer
         \/ Owned(a.cache, a.sockets, c, goes) /\ b.sockets[c] = b.q.cur,
         NEW cached, NEW st
  PROVE  LET d == Connected(a, c, cached, st)
         IN  /\ BundleSound(d, held, goes)
             /\ d.q.sockaddr /\ d.q.conn = c /\ d.q.st = st
<1> DEFINE d == Connected(a, c, cached, st)
           q1 == [a.q EXCEPT !.st = st, !.conn = c, !.cached = cached,
                             !.sent = FALSE, !.body = FALSE, !.blocks = MaxBlocks,
                             !.whandler = TRUE, !.wtimer = (st = "connecting")]
           socks == [a.sockets EXCEPT ![c] = a.q.cur]
<1>1. /\ DOMAIN d = DOMAIN a /\ d.q = q1 /\ d.peers = a.peers /\ d.cache = a.cache
      /\ d.sockets = socks
  BY DEF Connected, IsBundle
<1>2. Shape(q1) /\ q1.st = st /\ q1.conn = c /\ q1.sockaddr = b.q.sockaddr /\ q1.cur = b.q.cur
  BY DEF IsBundle, Shape, Fields
<1>3. b.q.cur \in Peers /\ NoPeer \notin Peers /\ NoConn \notin Conns
  BY ConnsAre, RoundRobinAssumption DEF BundleSound
<1>4. DOMAIN a.sockets = Conns
  BY DEF BundleSound, Owned
<1>5. DOMAIN socks = Conns /\ \A x \in Conns : socks[x] = IF x = c THEN b.q.cur ELSE b.sockets[x]
  BY <1>4
<1> HIDE DEF socks, q1, d
<1>6. CASE a.cache = b.cache /\ b.sockets[c] = NoPeer
  <2>1. Owned(b.cache, b.sockets, NoConn, goes)
    BY DEF BundleSound
  <2>2. c \notin DOMAIN goes /\ \A i \in 1..Len(b.cache) : b.cache[i] # c
    BY <2>1, <1>6 DEF Owned
  <2>3. Owned(b.cache, socks, c, goes)
    <3>1. \A x \in Conns : socks[x] # NoPeer <=> \/ x = c \/ x \in DOMAIN goes
                                                 \/ \E i \in 1..Len(b.cache) : b.cache[i] = x
      BY <2>1, <1>3, <1>5 DEF Owned
    <3>2. \A x \in DOMAIN goes : x \in Conns /\ socks[x] = goes[x]
      BY <2>1, <2>2, <1>5 DEF Owned
    <3> QED BY <3>1, <3>2, <2>1, <2>2, <1>5 DEF Owned
  <2> QED BY <2>3, <1>1, <1>2, <1>3, <1>5, <1>6 DEF BundleSound, IsBundle, d
<1>7. CASE Owned(a.cache, a.sockets, c, goes) /\ b.sockets[c] = b.q.cur
  <2>1. \A x \in Conns : socks[x] = b.sockets[x]
    BY <1>5, <1>7
  <2>2. Owned(a.cache, socks, c, goes)
    BY <2>1, <1>5, <1>7 DEF Owned
  <2> QED BY <2>1, <2>2, <1>1, <1>2, <1>3, <1>7 DEF BundleSound, IsBundle, d
<1> QED BY <1>6, <1>7

-----------------------------------------------------------------------------
(* The invariant.  A request has a server while it has a connection.        *)
Settled(q) ==
  /\ Shape(q)
  /\ q.sockaddr \in BOOLEAN
  /\ q.sockaddr <=> q.conn # NoConn
  /\ q.sockaddr => q.cur \in Peers
  /\ q.st \in {"idle", "connect"} => ~q.sockaddr

Takers(f, R, p) == {s \in R : f[s].sockaddr /\ f[s].cur = p}

Used(R) == {req[s].conn : s \in R} \ {NoConn}

Goes(R) == [c \in Used(R) |-> sockets[c]]

Held(f, R) == [p \in Peers |-> Cardinality(Takers(f, R, p))]

PeersInv ==
  /\ DOMAIN req = Requests /\ \A r \in Requests : Settled(req[r])
  /\ Table(peers) /\ Within(peers) /\ Balanced(peers)
  /\ \A p \in Peers : peers[p].conns = Cardinality(Takers(req, Requests, p))
  /\ Owned(kaCache, sockets, NoConn, Goes(Requests))
  /\ \A r, s \in Requests : r # s /\ req[r].sockaddr /\ req[s].sockaddr
                              => req[r].conn # req[s].conn
  /\ \A r \in Requests : req[r].sockaddr => sockets[req[r].conn] = req[r].cur

(* The count of the requests that have a server.                            *)
LEMMA TakersFinite ==
  ASSUME NEW f, NEW R, R \subseteq Requests
  PROVE  \A p \in Peers : /\ IsFiniteSet(Takers(f, R, p)) /\ Cardinality(Takers(f, R, p)) \in Nat
                          /\ Held(f, R)[p] = Cardinality(Takers(f, R, p))
<1>1. ASSUME NEW p \in Peers
      PROVE  IsFiniteSet(Takers(f, R, p)) /\ Cardinality(Takers(f, R, p)) \in Nat
  <2>1. Takers(f, R, p) \subseteq Requests
    BY DEF Takers
  <2> QED BY <2>1, FS_Subset, FS_CardinalityType, UpstreamAssumption
<1> QED BY <1>1 DEF Held

(* A request and the others hold together what all hold.                    *)
LEMMA TakersSplit ==
  ASSUME NEW f, NEW r \in Requests, NEW p \in Peers
  PROVE  Cardinality(Takers(f, Requests, p)) =
           Held(f, Requests \ {r})[p] + (IF f[r].sockaddr /\ f[r].cur = p THEN 1 ELSE 0)
<1> DEFINE H == Takers(f, Requests, p)
           G == Takers(f, Requests \ {r}, p)
<1>1. /\ IsFiniteSet(H) /\ IsFiniteSet(G) /\ Cardinality(H) \in Nat /\ Cardinality(G) \in Nat
      /\ Held(f, Requests \ {r})[p] = Cardinality(G)
  BY TakersFinite
<1>2. CASE f[r].sockaddr /\ f[r].cur = p
  <2>1. r \in H /\ H \ {r} = G
    BY <1>2 DEF Takers
  <2> HIDE DEF H, G
  <2>2. Cardinality(G) = Cardinality(H) - 1
    BY <1>1, <2>1, FS_RemoveElement
  <2> QED BY <1>1, <1>2, <2>2 DEF H, G
<1>3. CASE ~(f[r].sockaddr /\ f[r].cur = p)
  <2>1. H = G
    BY <1>3 DEF Takers
  <2> QED BY <1>1, <1>3, <2>1
<1> QED BY <1>2, <1>3

(* Under the invariant a handler begins with a sound bundle.                *)
LEMMA Bundled ==
  ASSUME PeersInv, NEW r \in Requests
  PROVE  /\ BundleSound(Bundle(r), Held(req, Requests \ {r}), Goes(Requests \ {r}))
         /\ Bundle(r).q = req[r] /\ HeldOK(Held(req, Requests \ {r}))
<1> DEFINE b == Bundle(r)
           goes == Goes(Requests \ {r})
           held == Held(req, Requests \ {r})
           all == Goes(Requests)
<1>1. /\ b.q = req[r] /\ b.peers = peers /\ b.cache = kaCache /\ b.sockets = sockets
      /\ DOMAIN b = {"q", "peers", "cache", "sockets"}
  BY DEF Bundle
<1>2. Settled(req[r]) /\ NoConn \notin Conns
  BY ConnsAre DEF PeersInv
<1>3. /\ DOMAIN all = Used(Requests) /\ DOMAIN goes = Used(Requests \ {r})
      /\ \A c \in Used(Requests) : all[c] = sockets[c]
      /\ \A c \in Used(Requests \ {r}) : goes[c] = sockets[c]
  BY DEF Goes
<1>4. \A c : c \in Used(Requests) <=> \/ c \in Used(Requests \ {r})
                                      \/ c = req[r].conn /\ c # NoConn
  BY DEF Used
<1>5. req[r].conn \notin Used(Requests \ {r})
  <2>1. SUFFICES ASSUME NEW s \in Requests \ {r}, req[r].conn = req[s].conn, req[r].conn # NoConn
                 PROVE  FALSE
    BY DEF Used
  <2>2. Settled(req[r]) /\ Settled(req[s])
    BY DEF PeersInv
  <2> QED BY <2>1, <2>2 DEF PeersInv, Settled
<1>6. Owned(kaCache, sockets, NoConn, all)
  BY DEF PeersInv
<1>7. Owned(kaCache, sockets, req[r].conn, goes)
  <2> HIDE DEF all, goes
  <2>1. req[r].conn \in Conns \cup {NoConn}
    BY <1>3, <1>4, <1>6 DEF Owned
  <2>c. \A i \in 1..Len(kaCache) : kaCache[i] \in Conns
    BY <1>6 DEF Owned
  <2>2. \A i \in 1..Len(kaCache) : kaCache[i] # req[r].conn /\ kaCache[i] \notin DOMAIN goes
    BY <2>c, <1>2, <1>3, <1>4, <1>6 DEF Owned
  <2>3. \A c \in Conns : sockets[c] # NoPeer <=> \/ c = req[r].conn \/ c \in DOMAIN goes
                                                 \/ \E i \in 1..Len(kaCache) : kaCache[i] = c
    BY <1>2, <1>3, <1>4, <1>6 DEF Owned
  <2>4. \A c \in DOMAIN goes : c \in Conns /\ sockets[c] = goes[c]
    BY <1>3, <1>4, <1>6 DEF Owned
  <2> QED BY <2>1, <2>2, <2>3, <2>4, <1>3, <1>5, <1>6 DEF Owned
<1>8. \A p \in Peers : peers[p].conns = held[p] + (IF req[r].sockaddr /\ req[r].cur = p THEN 1 ELSE 0)
  <2> HIDE DEF held
  <2> QED BY TakersSplit DEF PeersInv, held
<1>9. HeldOK(held)
  <2>1. \A p \in Peers : held[p] \in Nat
    BY TakersFinite
  <2> HIDE DEF held
  <2> QED BY <2>1 DEF HeldOK
<1>10. req[r].sockaddr => sockets[req[r].conn] = req[r].cur
  BY DEF PeersInv
<1> HIDE DEF b, held, goes, all
<1>11. BundleSound(b, held, goes)
  BY <1>1, <1>2, <1>7, <1>8, <1>10 DEF BundleSound, IsBundle, Settled, PeersInv
<1> QED BY <1>1, <1>9, <1>11 DEF b, held, goes

(* A handler that ends with a sound bundle keeps the invariant.             *)
LEMMA SetPeers ==
  ASSUME PeersInv, NEW r \in Requests, NEW b, Settled(b.q),
         BundleSound(b, Held(req, Requests \ {r}), Goes(Requests \ {r})),
         req' = [req EXCEPT ![r] = b.q], peers' = b.peers, kaCache' = b.cache,
         sockets' = b.sockets
  PROVE  PeersInv'
<1> DEFINE R == Requests \ {r}
<1>1. /\ req' = [req EXCEPT ![r] = b.q] /\ peers' = b.peers /\ kaCache' = b.cache
      /\ sockets' = b.sockets
  OBVIOUS
<1>2. DOMAIN req' = Requests /\ \A s \in Requests : req'[s] = IF s = r THEN b.q ELSE req[s]
  BY <1>1 DEF PeersInv
<1>3. \A p \in Peers : Takers(req', R, p) = Takers(req, R, p)
  BY <1>2 DEF Takers
<1>4. Used(R)' = Used(R)
  BY <1>2 DEF Used
<1>5. Held(req', R) = Held(req, R)
  BY <1>3 DEF Held
<1>6. /\ DOMAIN Goes(R) = Used(R) /\ \A c \in Used(R) : Goes(R)[c] = sockets[c]
  BY DEF Goes
<1>7. /\ DOMAIN Goes(Requests)' = Used(Requests)'
      /\ \A c \in Used(Requests)' : Goes(Requests)'[c] = b.sockets[c]
  BY <1>1 DEF Goes
<1>8. \A c : c \in Used(Requests)' <=> c \in Used(R) \/ (c = b.q.conn /\ c # NoConn)
  BY <1>2 DEF Used
<1>9. Owned(b.cache, b.sockets, b.q.conn, Goes(R)) /\ NoConn \notin Conns
  BY ConnsAre DEF BundleSound
<1>10. Owned(b.cache, b.sockets, NoConn, Goes(Requests)')
  <2> DEFINE all == Goes(Requests)'
             goes == Goes(R)
  <2>0. /\ DOMAIN goes = Used(R)
        /\ DOMAIN all = Used(Requests)' /\ \A c \in Used(Requests)' : all[c] = b.sockets[c]
        /\ Owned(b.cache, b.sockets, b.q.conn, goes)
    BY <1>6, <1>7, <1>9
  <2>c. \A i \in 1..Len(b.cache) : b.cache[i] \in Conns
    BY <1>9 DEF Owned
  <2>d. \A c \in DOMAIN all : /\ all[c] = b.sockets[c]
                             /\ (c \in DOMAIN goes \/ (c = b.q.conn /\ c # NoConn))
    BY <2>0, <1>8
  <2> HIDE DEF all, goes
  <2>1. \A i \in 1..Len(b.cache) : b.cache[i] # NoConn /\ b.cache[i] \notin DOMAIN all
    <3>1. \A i \in 1..Len(b.cache) : b.cache[i] # b.q.conn /\ b.cache[i] \notin DOMAIN goes
      BY <2>0 DEF Owned
    <3>2. \A i \in 1..Len(b.cache) : b.cache[i] # NoConn
      BY <2>c, <1>9
    <3>3. \A i \in 1..Len(b.cache) : b.cache[i] \notin DOMAIN all
      BY <3>1, <2>d
    <3> QED BY <3>2, <3>3
  <2>2. NoConn \notin DOMAIN all
    BY <2>0, <1>8, <1>9 DEF Owned
  <2>3. \A c \in Conns : b.sockets[c] # NoPeer <=> \/ c = NoConn \/ c \in DOMAIN all
                                                   \/ \E i \in 1..Len(b.cache) : b.cache[i] = c
    BY <2>0, <1>8, <1>9 DEF Owned
  <2>4. \A c \in DOMAIN all : c \in Conns /\ b.sockets[c] = all[c]
    BY <2>0, <2>d, <1>9 DEF Owned
  <2>5. Owned(b.cache, b.sockets, NoConn, all)
    BY <2>0, <2>1, <2>2, <2>3, <2>4 DEF Owned
  <2> QED BY <2>5 DEF all
<1>11. \A p \in Peers : peers'[p].conns = Cardinality(Takers(req', Requests, p))
  <2>1. ASSUME NEW p \in Peers PROVE peers'[p].conns = Cardinality(Takers(req', Requests, p))
    <3>1. Cardinality(Takers(req', Requests, p)) =
            Held(req', R)[p] + (IF req'[r].sockaddr /\ req'[r].cur = p THEN 1 ELSE 0)
      BY TakersSplit
    <3>2. b.peers[p].conns = Held(req, R)[p] + (IF b.q.sockaddr /\ b.q.cur = p THEN 1 ELSE 0)
      BY DEF BundleSound
    <3> QED BY <3>1, <3>2, <1>1, <1>2, <1>5
  <2> QED BY <2>1
<1>12. ASSUME NEW s \in Requests, NEW u \in Requests, s # u, req'[s].sockaddr, req'[u].sockaddr
       PROVE  req'[s].conn # req'[u].conn
  <2>1. ASSUME NEW v \in R, req[v].sockaddr PROVE req[v].conn \in Used(R)
    BY <2>1 DEF PeersInv, Settled, Used
  <2>2. b.q.conn \notin Used(R)
    BY <1>6, <1>9 DEF Owned
  <2>3. CASE s = r
    BY <2>1, <2>2, <2>3, <1>2, <1>12
  <2>4. CASE u = r
    BY <2>1, <2>2, <2>4, <1>2, <1>12
  <2>5. CASE s # r /\ u # r
    BY <2>5, <1>2, <1>12 DEF PeersInv
  <2> QED BY <2>3, <2>4, <2>5
<1>13. ASSUME NEW s \in Requests, req'[s].sockaddr PROVE sockets'[req'[s].conn] = req'[s].cur
  <2>1. CASE s = r
    BY <2>1, <1>1, <1>2, <1>13 DEF BundleSound, Settled
  <2>2. CASE s # r
    <3>1. req[s].conn \in Used(R) /\ sockets[req[s].conn] = req[s].cur
      BY <2>2, <1>2, <1>13 DEF PeersInv, Settled, Used
    <3>2. b.sockets[req[s].conn] = sockets[req[s].conn]
      BY <3>1, <1>6, <1>9 DEF Owned
    <3> QED BY <3>1, <3>2, <2>2, <1>1, <1>2
  <2> QED BY <2>1, <2>2
<1>14. \A s \in Requests : Settled(req'[s])
  BY <1>2 DEF PeersInv
<1>15. Table(peers') /\ Within(peers') /\ Balanced(peers')
  BY <1>1 DEF BundleSound
<1> QED BY <1>1, <1>2, <1>10, <1>11, <1>12, <1>13, <1>14, <1>15 DEF PeersInv

(* There is a connection for every request and every place in the cache.    *)
LEMMA FreeConn ==
  ASSUME PeersInv, NEW r \in Requests, req[r].conn = NoConn
  PROVE  \E c \in Conns : sockets[c] = NoPeer
<1> DEFINE R == Requests \ {r}
           U == Used(R)
           K == {kaCache[i] : i \in 1..Len(kaCache)}
<1>1. SUFFICES ASSUME \A c \in Conns : sockets[c] # NoPeer PROVE FALSE
  OBVIOUS
<1>2. Conns \subseteq U \cup K
  <2>1. Owned(kaCache, sockets, NoConn, Goes(Requests)) /\ NoConn \notin Conns
    BY ConnsAre DEF PeersInv
  <2>2. DOMAIN Goes(Requests) = Used(Requests)
    BY DEF Goes
  <2>3. \A c \in Used(Requests) : c \in U
    BY DEF Used
  <2>4. \A c \in Conns : c \in Used(Requests) \/ \E i \in 1..Len(kaCache) : kaCache[i] = c
    BY <1>1, <2>1, <2>2 DEF Owned
  <2> QED BY <2>3, <2>4
<1>3. IsFiniteSet(R) /\ Cardinality(R) = Cardinality(Requests) - 1 /\ Cardinality(Requests) \in Nat
  BY UpstreamAssumption, FS_RemoveElement, FS_CardinalityType
<1>4. IsFiniteSet(U) /\ Cardinality(U) <= Cardinality(R) /\ Cardinality(U) \in Nat
  <2> DEFINE V == {req[s].conn : s \in R}
             f == [s \in R |-> req[s].conn]
  <2>1. f \in Surjection(R, V)
    BY DEF Surjection
  <2>2. U \subseteq V
    BY DEF Used
  <2> HIDE DEF R, U, V, f
  <2>3. IsFiniteSet(V) /\ Cardinality(V) <= Cardinality(R)
    BY <1>3, <2>1, FS_Surjection
  <2>4. IsFiniteSet(U) /\ Cardinality(U) <= Cardinality(V)
    BY <2>2, <2>3, FS_Subset
  <2>5. Cardinality(U) \in Nat /\ Cardinality(V) \in Nat /\ Cardinality(R) \in Nat
    BY <1>3, <2>3, <2>4, FS_CardinalityType
  <2> QED BY <2>3, <2>4, <2>5
<1>5. IsFiniteSet(K) /\ Cardinality(K) <= KaSize /\ Cardinality(K) \in Nat
  <2> DEFINE n == Len(kaCache)
             I == 1..n
             f == [i \in I |-> kaCache[i]]
  <2>1. n \in Nat /\ n <= KaSize /\ KaSize \in Nat
    BY ConnsAre DEF PeersInv, Owned
  <2>2. IsFiniteSet(I) /\ Cardinality(I) = n
    <3> HIDE DEF n
    <3> QED BY <2>1, FS_Interval
  <2>3. f \in Surjection(I, K)
    BY DEF Surjection
  <2> HIDE DEF I, f, K
  <2>4. IsFiniteSet(K) /\ Cardinality(K) <= Cardinality(I)
    BY <2>2, <2>3, FS_Surjection
  <2>5. Cardinality(K) \in Nat
    BY <2>4, FS_CardinalityType
  <2> QED BY <2>1, <2>2, <2>4, <2>5
<1>6. IsFiniteSet(Conns) /\ Cardinality(Conns) = Cardinality(Requests) + KaSize /\ KaSize \in Nat
  <2> DEFINE n == Cardinality(Requests) + KaSize
  <2>1. n \in Nat /\ Conns = 1..n /\ KaSize \in Nat
    BY ConnsAre DEF Conns
  <2> HIDE DEF n
  <2>2. IsFiniteSet(1..n) /\ Cardinality(1..n) = n
    BY <2>1, FS_Interval
  <2> QED BY <2>1, <2>2 DEF n
<1> HIDE DEF U, K, R
<1>7. IsFiniteSet(U \cup K) /\ Cardinality(U \cup K) <= Cardinality(U) + Cardinality(K)
  <2>1. IsFiniteSet(U \cup K)
        /\ Cardinality(U \cup K) = Cardinality(U) + Cardinality(K) - Cardinality(U \cap K)
    BY <1>4, <1>5, FS_Union
  <2>2. IsFiniteSet(U \cap K) /\ Cardinality(U \cap K) \in Nat
    <3>1. U \cap K \subseteq U
      OBVIOUS
    <3> QED BY <3>1, <1>4, FS_Subset, FS_CardinalityType
  <2> QED BY <2>1, <2>2, <1>4, <1>5
<1>8. Cardinality(Conns) <= Cardinality(U \cup K) /\ Cardinality(U \cup K) \in Nat
  BY <1>2, <1>7, FS_Subset, FS_CardinalityType
<1> QED BY <1>3, <1>4, <1>5, <1>6, <1>7, <1>8

(* The steps.                                                               *)
LEMMA DoneSettled ==
  ASSUME NEW b, NEW held, NEW goes, BundleSound(b, held, goes), ~b.q.sockaddr, b.q.conn = NoConn
  PROVE  Settled(b.q)
BY DEF BundleSound, IsBundle, Settled

LEMMA NextStep ==
  ASSUME PeersInv, NEW r \in Requests, NEW b, NEW ft, NEW keep,
         BundleSound(b, Held(req, Requests \ {r}), Goes(Requests \ {r})),
         \/ Set(r, ngx_http_upstream_next(b, ft, keep))
         \/ Set(r, ngx_http_upstream_finalize_request(b, keep))
  PROVE  PeersInv'
<1> DEFINE held == Held(req, Requests \ {r})
           goes == Goes(Requests \ {r})
           n == ngx_http_upstream_next(b, ft, keep)
           f == ngx_http_upstream_finalize_request(b, keep)
<1>1. HeldOK(held)
  BY Bundled
<1> HIDE DEF held, goes, n, f
<1>2. BundleSound(b, held, goes)
  BY DEF held, goes
<1>3. BundleSound(n, held, goes) /\ Settled(n.q)
  BY <1>1, <1>2, NextPeers, DoneSettled DEF n
<1>4. BundleSound(f, held, goes) /\ Settled(f.q)
  BY <1>1, <1>2, FinalizePeers, DoneSettled DEF f
<1>5. Set(r, n) \/ Set(r, f)
  BY DEF n, f
<1>6. CASE Set(r, n)
  BY <1>3, <1>6, SetPeers DEF held, goes, Set
<1>7. CASE Set(r, f)
  BY <1>4, <1>7, SetPeers DEF held, goes, Set
<1> QED BY <1>5, <1>6, <1>7

(* A step that leaves the server and the connection of the request alone.   *)
LEMMA SameServer ==
  ASSUME PeersInv, NEW r \in Requests, NEW q, Shape(q), q.sockaddr = req[r].sockaddr,
         q.cur = req[r].cur, q.conn = req[r].conn,
         q.st \in {"idle", "connect"} => ~req[r].sockaddr,
         req' = [req EXCEPT ![r] = q], UNCHANGED <<peers, kaCache, sockets>>
  PROVE  PeersInv'
<1> DEFINE b == [Bundle(r) EXCEPT !.q = q]
           held == Held(req, Requests \ {r})
           goes == Goes(Requests \ {r})
<1>1. BundleSound(Bundle(r), held, goes) /\ Bundle(r).q = req[r] /\ Settled(req[r])
  BY Bundled DEF PeersInv
<1>2. /\ IsBundle(b) /\ b.q = q /\ b.peers = peers /\ b.cache = kaCache /\ b.sockets = sockets
      /\ Bundle(r).peers = peers /\ Bundle(r).cache = kaCache /\ Bundle(r).sockets = sockets
  BY DEF Bundle, IsBundle
<1> HIDE DEF b, held, goes
<1>3. BundleSound(b, held, goes)
  BY <1>1, <1>2, OtherFields
<1>4. Settled(b.q)
  BY <1>1, <1>2 DEF Settled
<1>5. req' = [req EXCEPT ![r] = b.q] /\ peers' = b.peers /\ kaCache' = b.cache
      /\ sockets' = b.sockets
  BY <1>2
<1> QED BY <1>3, <1>4, <1>5, SetPeers DEF held, goes

(* ngx_http_upstream_connect: the server taken is the request's from here on,*)
(* with a connection of the cache, a new one, or none if the attempt fails. *)
LEMMA FirstIn ==
  ASSUME NEW I, I \subseteq Nat, I # {}
  PROVE  FirstOf(I) \in I
BY LeastNat DEF FirstOf

LEMMA ConnectPeers ==
  ASSUME PeersInv, NEW r \in Requests, ngx_http_upstream_connect(r)
  PROVE  PeersInv'
<1> DEFINE got == Got(r)
           b == Attempt(r, got)
           i == FirstOf(IdleTo(got.peer))
           a == [b EXCEPT !.cache = Without(@, i)]
           held == Held(req, Requests \ {r})
           goes == Goes(Requests \ {r})
           q1 == [req[r] EXCEPT !.tried = got.tried, !.backup = got.backup, !.cur = got.peer,
                                !.sockaddr = (got.peer # NoPeer), !.cached = FALSE]
<1>1. /\ req[r].st = "connect" /\ Settled(req[r]) /\ BundleSound(Bundle(r), held, goes)
      /\ HeldOK(held) /\ Table(peers) /\ Within(peers) /\ Balanced(peers)
  BY ConnectWays, Bundled DEF PeersInv
<1>2. ~req[r].sockaddr /\ req[r].conn = NoConn /\ Shape(req[r])
  BY <1>1 DEF Settled
<1>3. /\ got.peer \in Peers \cup {NoPeer}
      /\ Table(got.peers) /\ Within(got.peers) /\ Balanced(got.peers)
      /\ \A p \in Peers : got.peers[p].conns = peers[p].conns + (IF p = got.peer THEN 1 ELSE 0)
  BY <1>1, GetRoundRobin DEF Got
<1> HIDE DEF got, held, goes
<1>4. /\ IsBundle(b) /\ b.q = q1 /\ b.peers = got.peers /\ b.cache = kaCache /\ b.sockets = sockets
  <2>1. /\ Bundle(r).q = req[r] /\ Bundle(r).cache = kaCache /\ Bundle(r).sockets = sockets
        /\ DOMAIN Bundle(r) = {"q", "peers", "cache", "sockets"}
    BY DEF Bundle
  <2>2. Shape(q1)
    BY <1>2 DEF Shape, Fields
  <2>3. b = [Bundle(r) EXCEPT !.peers = got.peers, !.q = q1]
    BY <2>1, <1>2 DEF Attempt, Shape, Fields
  <2> HIDE DEF b, q1
  <2> QED BY <2>1, <2>2, <2>3 DEF IsBundle
<1>5. /\ q1.conn = NoConn /\ q1.cur = got.peer /\ q1.sockaddr = (got.peer # NoPeer)
  BY <1>2 DEF Shape, Fields
<1> HIDE DEF b, q1
<1>6. BundleSound(b, held, goes)
  <2>1. \A p \in Peers : /\ peers[p].conns = held[p] /\ held[p] \in Int
                         /\ got.peers[p].conns = held[p] + (IF got.peer # NoPeer /\ got.peer = p THEN 1 ELSE 0)
    <3>1. \A p \in Peers : peers[p].conns = held[p] /\ held[p] \in Int
      <4>1. \A p \in Peers : peers[p].conns = held[p] + (IF req[r].sockaddr /\ req[r].cur = p THEN 1 ELSE 0)
        BY <1>1 DEF BundleSound, Bundle
      <4> QED BY <4>1, <1>1, <1>2 DEF HeldOK
    <3>2. NoPeer \notin Peers
      BY RoundRobinAssumption
    <3> QED BY <3>1, <3>2, <1>3
  <2>2. Owned(kaCache, sockets, NoConn, goes)
    BY <1>1, <1>2 DEF BundleSound, Bundle
  <2>3. b.q.sockaddr = (got.peer # NoPeer) /\ b.q.cur = got.peer /\ b.q.conn = NoConn
    BY <1>4, <1>5
  <2>4. \A p \in Peers : b.peers[p].conns = held[p] + (IF b.q.sockaddr /\ b.q.cur = p THEN 1 ELSE 0)
    BY <2>1, <2>3, <1>4
  <2>5. Table(b.peers) /\ Within(b.peers) /\ Balanced(b.peers)
    BY <1>3, <1>4
  <2>6. b.q.sockaddr \in BOOLEAN /\ (b.q.sockaddr => b.q.cur \in Peers)
    BY <1>3, <2>3
  <2>7. Owned(b.cache, b.sockets, b.q.conn, goes)
    BY <1>4, <2>2, <2>3
  <2>8. IsBundle(b)
    BY <1>4
  <2> QED BY <2>3, <2>4, <2>5, <2>6, <2>7, <2>8 DEF BundleSound
<1>7. ASSUME NEW ft, NEW keep, \/ Set(r, ngx_http_upstream_next(b, ft, keep))
                               \/ Set(r, ngx_http_upstream_finalize_request(b, keep))
      PROVE  PeersInv'
  BY <1>6, <1>7, NextStep DEF held, goes
<1>8. ASSUME got.peer # NoPeer, NEW d, IsBundle(d), d.q = b.q, d.peers = b.peers,
             d.sockets = b.sockets, NEW c \in Conns,
             \/ d.cache = b.cache /\ b.sockets[c] = NoPeer
             \/ Owned(d.cache, d.sockets, c, goes) /\ b.sockets[c] = b.q.cur,
             NEW cached, NEW st \in {"send", "connecting"}, Set(r, Connected(d, c, cached, st))
      PROVE  PeersInv'
  <2> DEFINE e == Connected(d, c, cached, st)
  <2>1. b.q.sockaddr /\ b.q.conn = NoConn
    BY <1>4, <1>5, <1>8
  <2>2. BundleSound(e, held, goes) /\ e.q.sockaddr /\ e.q.conn = c /\ e.q.st = st
    BY <1>6, <1>8, <2>1, ConnectedSound
  <2> HIDE DEF e
  <2>3. Settled(e.q)
    BY <2>2, <1>8, ConnsAre DEF BundleSound, IsBundle, Settled
  <2>4. Set(r, e)
    BY <1>8 DEF e
  <2> QED BY <2>2, <2>3, <2>4, SetPeers DEF held, goes, Set
<1>9. CASE got.peer # NoPeer /\ IdleTo(got.peer) # {}
           /\ Set(r, Connected(a, kaCache[i], TRUE, "send"))
  <2>1. i \in 1..Len(kaCache) /\ sockets[kaCache[i]] = got.peer
    <3>1. IdleTo(got.peer) \subseteq Nat
      BY DEF IdleTo
    <3>2. i \in IdleTo(got.peer)
      BY <3>1, <1>9, FirstIn
    <3> QED BY <3>2 DEF IdleTo
  <2>2. IsBundle(a) /\ a.q = b.q /\ a.peers = b.peers /\ a.sockets = b.sockets
        /\ a.cache = Without(kaCache, i)
    BY <1>4 DEF IsBundle
  <2>3. Owned(kaCache, sockets, NoConn, goes)
    BY <1>4, <1>5, <1>6 DEF BundleSound
  <2> HIDE DEF a, i
  <2>4. Owned(Without(kaCache, i), sockets, kaCache[i], goes) /\ kaCache[i] \in Conns
    BY <2>1, <2>3, TakenOut
  <2> QED BY <1>8, <1>9, <2>1, <2>2, <2>4, <1>4, <1>5
<1>10. CASE /\ got.peer # NoPeer
            /\ \/ Set(r, Connected(b, FreeOne, FALSE, "connecting"))
               \/ Set(r, Connected(b, FreeOne, FALSE, "send"))
  <2>1. FreeOne \in Conns /\ sockets[FreeOne] = NoPeer
    BY <1>2, FreeConn DEF FreeOne
  <2> QED BY <1>8, <1>10, <2>1, <1>4
<1> QED BY ConnectWays, <1>7, <1>9, <1>10 DEF got, b

(* A step that replaces the request by one with the same server.            *)
LEMMA SameSet ==
  ASSUME PeersInv, NEW r \in Requests, NEW b, IsBundle(b),
         b.peers = peers, b.cache = kaCache, b.sockets = sockets,
         b.q.sockaddr = req[r].sockaddr, b.q.cur = req[r].cur, b.q.conn = req[r].conn,
         b.q.st \in {"idle", "connect"} => ~req[r].sockaddr, Set(r, b)
  PROVE  PeersInv'
<1>1. req' = [req EXCEPT ![r] = b.q] /\ UNCHANGED <<peers, kaCache, sockets>>
  BY DEF Set
<1>2. Shape(b.q)
  BY DEF IsBundle
<1> QED BY <1>1, <1>2, SameServer

(* ngx_http_upstream_send_request and ngx_http_upstream_send_response.      *)
LEMMA SendPeers ==
  ASSUME PeersInv, NEW r \in Requests, ngx_http_upstream_send_request(r)
  PROVE  PeersInv'
<1> DEFINE b == Bundle(r)
           w == [b EXCEPT !.q.sent = TRUE, !.q.sends = IF b.q.sent THEN @ ELSE @ + 1]
           blocked(t) == [w EXCEPT !.q.st = "sending", !.q.wtimer = t, !.q.blocks = @ - 1]
           written == [w EXCEPT !.q.st = "waiting", !.q.body = TRUE,
                                !.q.wtimer = FALSE, !.q.whandler = FALSE]
           held == Held(req, Requests \ {r})
           goes == Goes(Requests \ {r})
           Same(d) == /\ IsBundle(d) /\ d.peers = peers /\ d.cache = kaCache /\ d.sockets = sockets
                      /\ d.q.sockaddr = req[r].sockaddr /\ d.q.cur = req[r].cur
                      /\ d.q.conn = req[r].conn
<1>1. \/ Set(r, ngx_http_upstream_next(b, "error", "no"))
      \/ Set(r, ngx_http_upstream_next(w, "error", "no"))
      \/ Set(r, ngx_http_upstream_finalize_request(w, "no"))
      \/ \E t : Set(r, blocked(t))
      \/ Set(r, written)
  BY DEF ngx_http_upstream_send_request
<1>2. BundleSound(b, held, goes) /\ b.q = req[r]
  BY Bundled
<1>3. /\ DOMAIN b = {"q", "peers", "cache", "sockets"}
      /\ b.peers = peers /\ b.cache = kaCache /\ b.sockets = sockets
  BY DEF Bundle
<1> HIDE DEF b, held, goes
<1>4. Same(b)
  BY <1>2, <1>3 DEF BundleSound
<1>5. Same(w)
  BY <1>4 DEF IsBundle, Shape, Fields
<1> HIDE DEF w
<1>6. \A t : Same(blocked(t)) /\ blocked(t).q.st = "sending"
  <2> TAKE t
  <2> QED BY <1>5 DEF IsBundle, Shape, Fields
<1>7. Same(written) /\ written.q.st = "waiting"
  BY <1>5 DEF IsBundle, Shape, Fields
<1>8. BundleSound(w, held, goes)
  <2>1. Shape(w.q)
    BY <1>5 DEF IsBundle
  <2> QED BY <1>2, <1>4, <1>5, <2>1, OtherFields
<1> HIDE DEF blocked, written
<1>9. CASE \E t : Set(r, blocked(t))
  <2> PICK t : Set(r, blocked(t))
    BY <1>9
  <2>1. Same(blocked(t)) /\ blocked(t).q.st = "sending"
    BY <1>6
  <2> QED BY <2>1, SameSet
<1>10. CASE Set(r, written)
  BY <1>7, <1>10, SameSet
<1>11. CASE \/ Set(r, ngx_http_upstream_next(b, "error", "no"))
            \/ Set(r, ngx_http_upstream_next(w, "error", "no"))
            \/ Set(r, ngx_http_upstream_finalize_request(w, "no"))
  BY <1>2, <1>8, <1>11, NextStep DEF held, goes
<1> QED BY <1>1, <1>9, <1>10, <1>11

LEMMA ResponsePeers ==
  ASSUME PeersInv, NEW r \in Requests, ngx_http_upstream_send_response(r)
  PROVE  PeersInv'
<1> DEFINE b == Bundle(r)
           h == [b EXCEPT !.q.header = TRUE, !.q.st = "response",
                          !.q.whandler = @ /\ req[r].st # "connecting"]
<1>1. \/ Set(r, ngx_http_upstream_finalize_request(b, "no"))
      \/ Set(r, h)
  BY DEF ngx_http_upstream_send_response
<1>2. /\ BundleSound(b, Held(req, Requests \ {r}), Goes(Requests \ {r})) /\ b.q = req[r]
      /\ b.peers = peers /\ b.cache = kaCache /\ b.sockets = sockets
  BY Bundled DEF Bundle
<1> HIDE DEF b
<1>3. /\ IsBundle(h) /\ h.peers = peers /\ h.cache = kaCache /\ h.sockets = sockets
      /\ h.q.sockaddr = req[r].sockaddr /\ h.q.cur = req[r].cur
      /\ h.q.conn = req[r].conn /\ h.q.st = "response"
  BY <1>2 DEF BundleSound, IsBundle, Shape, Fields
<1> HIDE DEF h
<1> QED BY <1>1, <1>2, <1>3, NextStep, SameSet

(* An idle connection is closed.                                            *)
LEMMA IdleClosed ==
  ASSUME PeersInv, NEW n \in 1..KaSize, ngx_http_upstream_keepalive_close_handler(n)
  PROVE  PeersInv'
<1> DEFINE c == kaCache[n]
           w == Without(kaCache, n)
           open == [x \in Conns |-> IF x \in {c} THEN NoPeer ELSE sockets[x]]
           goes == Goes(Requests)
<1>1. /\ n \in 1..Len(kaCache) /\ kaCache' = w /\ req' = req /\ peers' = peers
      /\ sockets' = [sockets EXCEPT ![c] = NoPeer]
  BY DEF ngx_http_upstream_keepalive_close_handler
<1>2. Owned(kaCache, sockets, NoConn, goes)
  BY DEF PeersInv
<1>3. DOMAIN goes = Used(Requests) /\ \A x \in Used(Requests) : goes[x] = sockets[x]
  BY DEF Goes
<1>4. sockets' = open
  <2>1. DOMAIN sockets = Conns
    BY <1>2 DEF Owned
  <2> QED BY <1>1, <2>1
<1> HIDE DEF goes, w
<1>5. Owned(w, sockets, c, goes) /\ c \in Conns
  BY <1>1, <1>2, TakenOut DEF w
<1> HIDE DEF c
<1>6. Owned(w, open, NoConn, goes)
  BY <1>5, OwnedClosed
<1>7. \A x \in Used(Requests) : x # c /\ x \in Conns /\ sockets'[x] = sockets[x]
  <2>1. \A x \in Used(Requests) : x # c /\ x \in Conns
    BY <1>3, <1>5 DEF Owned
  <2> QED BY <2>1, <1>4
<1>8. Goes(Requests)' = goes
  <2>1. Used(Requests)' = Used(Requests)
    BY <1>1 DEF Used
  <2>2. Goes(Requests)' = [x \in Used(Requests) |-> sockets'[x]]
    BY <2>1 DEF Goes
  <2> QED BY <2>2, <1>7 DEF Goes, goes
<1>9. Owned(kaCache', sockets', NoConn, Goes(Requests)')
  BY <1>1, <1>4, <1>6, <1>8
<1>10. \A r \in Requests : req[r].sockaddr => sockets'[req[r].conn] = req[r].cur
  <2>1. ASSUME NEW r \in Requests, req[r].sockaddr PROVE sockets'[req[r].conn] = req[r].cur
    <3>1. req[r].conn \in Used(Requests) /\ sockets[req[r].conn] = req[r].cur
      BY <2>1 DEF PeersInv, Settled, Used
    <3> QED BY <3>1, <1>7
  <2> QED BY <2>1
<1> QED BY <1>1, <1>9, <1>10 DEF PeersInv

(* Every step keeps the invariant.                                          *)
LEMMA PeersInvStep ==
  ASSUME PeersInv, [UpNext]_upVars
  PROVE  PeersInv'
<1>0. ASSUME NEW r \in Requests
      PROVE  /\ BundleSound(Bundle(r), Held(req, Requests \ {r}), Goes(Requests \ {r}))
             /\ Bundle(r).q = req[r] /\ IsBundle(Bundle(r)) /\ Shape(req[r]) /\ Settled(req[r])
             /\ Bundle(r).peers = peers /\ Bundle(r).cache = kaCache
             /\ Bundle(r).sockets = sockets
  BY Bundled DEF PeersInv, BundleSound, Bundle, Settled
<1>n. ASSUME NEW r \in Requests, NEW ft, NEW keep,
             \/ Set(r, ngx_http_upstream_next(Bundle(r), ft, keep))
             \/ Set(r, ngx_http_upstream_finalize_request(Bundle(r), keep))
      PROVE  PeersInv'
  BY <1>0, <1>n, NextStep
<1>1. ASSUME NEW r \in Requests, ngx_http_upstream_init_request(r)
      PROVE  PeersInv'
  <2> DEFINE tries == IF MaxTries > 0 /\ MaxTries < ngx_http_upstream_tries
                      THEN MaxTries ELSE ngx_http_upstream_tries
  <2> HIDE DEF tries
  <2> PICK kind \in Kinds[r] :
        req' = [req EXCEPT ![r].st = "connect", ![r].kind = kind,
                           ![r].start = upTime, ![r].tries = tries]
    BY <1>1 DEF ngx_http_upstream_init_request, tries
  <2> DEFINE q == [req[r] EXCEPT !.st = "connect", !.kind = kind, !.start = upTime,
                                 !.tries = tries]
  <2>1. req' = [req EXCEPT ![r] = q]
    BY DEF PeersInv
  <2>2. req[r].st = "idle" /\ UNCHANGED <<peers, kaCache, sockets>>
    BY <1>1 DEF ngx_http_upstream_init_request
  <2>3. ~req[r].sockaddr
    BY <1>0, <2>2 DEF Settled
  <2>4. Shape(q) /\ q.sockaddr = req[r].sockaddr /\ q.cur = req[r].cur /\ q.conn = req[r].conn
    BY <1>0 DEF Shape, Fields
  <2> HIDE DEF q
  <2> QED BY <2>1, <2>2, <2>3, <2>4, SameServer
<1>2. ASSUME NEW r \in Requests, WriteEvent(r)
      PROVE  PeersInv'
  <2> DEFINE q1 == [req[r] EXCEPT !.st = "send"]
             q2 == [req[r] EXCEPT !.whandler = FALSE]
  <2>1. /\ \/ req' = [req EXCEPT ![r] = q1]
           \/ req[r].st = "response" /\ req' = [req EXCEPT ![r] = q2]
        /\ UNCHANGED <<peers, kaCache, sockets>>
    BY <1>2 DEF WriteEvent, PeersInv
  <2>2. /\ Shape(q1) /\ q1.sockaddr = req[r].sockaddr /\ q1.cur = req[r].cur
        /\ q1.conn = req[r].conn /\ q1.st = "send"
    BY <1>0 DEF Shape, Fields
  <2>3. /\ Shape(q2) /\ q2.sockaddr = req[r].sockaddr /\ q2.cur = req[r].cur
        /\ q2.conn = req[r].conn /\ q2.st = req[r].st
    BY <1>0 DEF Shape, Fields
  <2> HIDE DEF q1, q2
  <2>4. CASE req' = [req EXCEPT ![r] = q1]
    BY <2>1, <2>2, <2>4, SameServer
  <2>5. CASE req[r].st = "response" /\ req' = [req EXCEPT ![r] = q2]
    BY <2>1, <2>3, <2>5, SameServer
  <2> QED BY <2>1, <2>4, <2>5
<1>3. ASSUME NEW r \in Requests, WriteTimeout(r)
      PROVE  PeersInv'
  <2> DEFINE b == [Bundle(r) EXCEPT !.q.wtimer = FALSE]
  <2>1. \/ Set(r, ngx_http_upstream_next(Bundle(r), "timeout", "no"))
        \/ Set(r, b)
    BY <1>3 DEF WriteTimeout
  <2>2. /\ IsBundle(b) /\ b.peers = peers /\ b.cache = kaCache /\ b.sockets = sockets
        /\ b.q.sockaddr = req[r].sockaddr /\ b.q.cur = req[r].cur
        /\ b.q.conn = req[r].conn /\ b.q.st = req[r].st
    BY <1>0 DEF IsBundle, Shape, Fields
  <2>3. b.q.st \in {"idle", "connect"} => ~req[r].sockaddr
    BY <1>0, <2>2 DEF Settled
  <2> HIDE DEF b
  <2> QED BY <1>n, <2>1, <2>2, <2>3, SameSet
<1>4. ASSUME NEW r \in Requests, ngx_http_upstream_process_header(r)
      PROVE  PeersInv'
  <2>1. \/ \E ft, keep : Set(r, ngx_http_upstream_next(Bundle(r), ft, keep))
        \/ ngx_http_upstream_send_response(r)
    BY <1>4 DEF ngx_http_upstream_process_header
  <2> QED BY <1>n, <2>1, ResponsePeers
<1>5. ASSUME NEW r \in Requests, ReadTimeout(r)
      PROVE  PeersInv'
  BY <1>5, <1>n DEF ReadTimeout
<1>6. ASSUME NEW r \in Requests, ResponseEnds(r)
      PROVE  PeersInv'
  BY <1>6, <1>n DEF ResponseEnds
<1>7. ASSUME NEW r \in Requests, ClientGone(r)
      PROVE  PeersInv'
  <2> DEFINE b == [Bundle(r) EXCEPT !.q.error = TRUE]
  <2>1. /\ req[r].st \in {"connecting", "sending", "waiting", "response"}
        /\ \/ Set(r, ngx_http_upstream_finalize_request(Bundle(r), "no"))
           \/ Set(r, b)
    BY <1>7 DEF ClientGone
  <2>2. /\ IsBundle(b) /\ b.peers = peers /\ b.cache = kaCache /\ b.sockets = sockets
        /\ b.q.sockaddr = req[r].sockaddr /\ b.q.cur = req[r].cur
        /\ b.q.conn = req[r].conn /\ b.q.st = req[r].st
    BY <1>0 DEF IsBundle, Shape, Fields
  <2> HIDE DEF b
  <2> QED BY <1>n, <2>1, <2>2, SameSet
<1>8. ASSUME NEW r \in Requests, ngx_http_upstream_read_request_handler(r)
      PROVE  PeersInv'
  <2> DEFINE b == [Bundle(r) EXCEPT !.q.st = "send"]
  <2>1. \/ Set(r, b)
        \/ Set(r, ngx_http_upstream_finalize_request(Bundle(r), "no"))
    BY <1>8 DEF ngx_http_upstream_read_request_handler
  <2>2. /\ IsBundle(b) /\ b.peers = peers /\ b.cache = kaCache /\ b.sockets = sockets
        /\ b.q.sockaddr = req[r].sockaddr /\ b.q.cur = req[r].cur
        /\ b.q.conn = req[r].conn /\ b.q.st = "send"
    BY <1>0 DEF IsBundle, Shape, Fields
  <2> HIDE DEF b
  <2> QED BY <1>n, <2>1, <2>2, SameSet
<1>9. CASE UpTick \/ UNCHANGED upVars
  <2>1. UNCHANGED <<req, peers, kaCache, sockets>>
    BY <1>9 DEF UpTick, upVars
  <2>2. /\ Goes(Requests)' = Goes(Requests)
        /\ \A p \in Peers : Takers(req', Requests, p) = Takers(req, Requests, p)
    BY <2>1 DEF Goes, Used, Takers
  <2> QED BY <2>1, <2>2 DEF PeersInv
<1> QED
  BY <1>1, <1>2, <1>3, <1>4, <1>5, <1>6, <1>7, <1>8, <1>9, ConnectPeers, SendPeers, IdleClosed
  DEF UpNext, UpProgress

LEMMA PeersInvInit == UpInit => PeersInv
<1> HAVE UpInit
<1>1. /\ req = [r \in Requests |-> Fresh] /\ peers = FreshPeers /\ kaCache = <<>>
      /\ sockets = [c \in Conns |-> NoPeer]
  BY DEF UpInit
<1>2. Shape(Fresh) /\ Fresh.sockaddr = FALSE /\ Fresh.conn = NoConn /\ Fresh.st = "idle"
  BY DEF Shape, Fields, Fresh
<1>3. DOMAIN req = Requests /\ \A r \in Requests : req[r] = Fresh
  BY <1>1
<1>4. \A r \in Requests : Settled(req[r])
  BY <1>2, <1>3 DEF Settled
<1>5. /\ DOMAIN peers = Peers
      /\ \A p \in Peers : /\ DOMAIN peers[p] = PeerFields /\ peers[p].conns = 0
                          /\ peers[p].current = 0 /\ peers[p].effective = Weight[p]
  BY <1>1 DEF FreshPeers, PeerFields
<1>6. Table(peers)
  BY <1>5, RoundRobinAssumption DEF Table, Server
<1>7. Within(peers)
  BY <1>5, RoundRobinAssumption DEF Within
<1>8. Balanced(peers)
  <2>1. ASSUME NEW list \in {Primary, Backup} PROVE SumOver(Currents(peers), InList(list)) = 0
    <3> DEFINE e == Currents(peers)
               S == InList(list)
    <3>1. IsFiniteSet(S) /\ S \subseteq Peers
      BY ListFacts
    <3>2. IntOn(e, S) /\ \A x \in S : e[x] = 0
      BY <3>1, <1>5 DEF IntOn, Currents
    <3> HIDE DEF e, S
    <3>3. SumOver(e, S) = SumOver(e, {})
      BY <3>1, <3>2, SumWithin
    <3> QED BY <3>3, SumOfNone DEF e, S
  <2> QED BY <2>1 DEF Balanced
<1>9. \A p \in Peers : peers[p].conns = Cardinality(Takers(req, Requests, p))
  <2>1. \A p \in Peers : Takers(req, Requests, p) = {}
    BY <1>2, <1>3 DEF Takers
  <2> QED BY <2>1, <1>5, FS_EmptySet
<1>10. Owned(kaCache, sockets, NoConn, Goes(Requests))
  <2>1. Used(Requests) = {}
    BY <1>2, <1>3 DEF Used
  <2>2. DOMAIN Goes(Requests) = {}
    BY <2>1 DEF Goes
  <2>3. kaCache \in Seq(Conns) /\ Len(kaCache) = 0
    BY <1>1
  <2> QED BY <1>1, <2>2, <2>3, ConnsAre DEF Owned
<1> QED BY <1>2, <1>3, <1>4, <1>6, <1>7, <1>8, <1>9, <1>10 DEF PeersInv

LEMMA PeersInvAccounts == PeersInv => PeersAccounted
<1> HAVE PeersInv
<1> DEFINE idle(c) == {i \in 1..Len(kaCache) : kaCache[i] = c}
           taken(c) == {r \in Requests : req[r].conn = c}
           owner(c) == taken(c) \cup idle(c)
<1>1. Owned(kaCache, sockets, NoConn, Goes(Requests)) /\ DOMAIN Goes(Requests) = Used(Requests)
      /\ NoConn \notin Conns
  BY ConnsAre DEF PeersInv, Goes
<1>2. ASSUME NEW c \in Conns PROVE Cardinality(owner(c)) = IF sockets[c] = NoPeer THEN 0 ELSE 1
  <2>1. sockets[c] # NoPeer <=> c \in Used(Requests) \/ \E i \in 1..Len(kaCache) : kaCache[i] = c
    BY <1>1 DEF Owned
  <2>2. c \in Used(Requests) <=> taken(c) # {}
    BY <1>1 DEF Used
  <2>3. \A r, s \in taken(c) : r = s
    BY <1>1 DEF PeersInv, Settled
  <2>4. \A i, j \in idle(c) : i = j
    BY <1>1 DEF Owned
  <2>5. c \in Used(Requests) => idle(c) = {}
    BY <1>1 DEF Owned
  <2>6. CASE sockets[c] = NoPeer
    <3>1. owner(c) = {}
      BY <2>1, <2>2, <2>6
    <3> QED BY <3>1, <2>6, FS_EmptySet
  <2>7. CASE sockets[c] # NoPeer
    <3>1. \E x : owner(c) = {x}
      <4>1. CASE c \in Used(Requests)
        BY <2>2, <2>3, <2>5, <4>1
      <4>2. CASE c \notin Used(Requests)
        BY <2>1, <2>2, <2>4, <2>7, <4>2
      <4> QED BY <4>1, <4>2
    <3> QED BY <3>1, <2>7, FS_Singleton
  <2> QED BY <2>6, <2>7
<1>3. \A p \in Peers :
        /\ peers[p].conns = Cardinality({r \in Requests : req[r].sockaddr /\ req[r].cur = p})
        /\ MaxConns[p] = 0 \/ peers[p].conns <= MaxConns[p]
  BY DEF PeersInv, Takers, Within
<1>4. \A list \in {Primary, Backup} :
        SumOver([p \in Peers |-> peers[p].current], InList(list)) = 0
  BY Zenon DEF PeersInv, Balanced, Currents
<1>5. \A r \in Requests : req[r].conn # NoConn /\ req[r].sockaddr
                            => sockets[req[r].conn] = req[r].cur
  BY DEF PeersInv
<1> HIDE DEF PeersInv
<1> QED BY <1>2, <1>3, <1>4, <1>5 DEF PeersAccounted

(* Every path through errors, retries, aborts and idle connections gives a  *)
(* server and a connection back exactly once: a server's conns is the number*)
(* of attempts that hold it and never passes max_conns, an open connection  *)
(* has one owner and goes to the server that was taken, and the weights that*)
(* ngx_http_upstream_get_peer moves add up to nothing in each list.         *)
THEOREM PeersAreAccounted == UpSpec => []PeersAccounted
<1>1. UpInit => PeersInv
  BY PeersInvInit
<1>2. PeersInv /\ [UpNext]_upVars => PeersInv'
  BY PeersInvStep
<1>3. PeersInv => PeersAccounted
  BY PeersInvAccounts
<1> QED BY <1>1, <1>2, <1>3, PTL DEF UpSpec

-----------------------------------------------------------------------------
(* Rwlock.                                                                  *)

LEMMA FiniteParts ==
  /\ IsFiniteSet(Readers) /\ Cardinality(Readers) \in Nat
  /\ Cardinality(Readers) < WLOCK
<1>1. Readers \subseteq Procs
  BY DEF Readers
<1>2. /\ IsFiniteSet(Readers) /\ Cardinality(Readers) \in Nat
      /\ Cardinality(Procs) \in Nat /\ Cardinality(Readers) <= Cardinality(Procs)
  BY <1>1, RwlockAssumption, FS_Subset, FS_CardinalityType
<1> QED
  BY <1>2, RwlockAssumption

(* A reader is counted.                                                     *)
LEMMA ReaderCounted ==
  ASSUME NEW p \in Readers
  PROVE  Cardinality(Readers) > 0
<1>1. Cardinality(Readers) # 0
  BY FiniteParts, FS_EmptySet
<1> QED
  BY <1>1, FiniteParts

(* The inductive invariant: the two properties, and for a process in the    *)
(* middle of ngx_rwlock_unlock, that what it read sends it to the right     *)
(* branch: a writer has read WLOCK, a reader has not.                       *)
ReleaseBranch ==
  \A p \in Procs : /\ pc[p] = "wrel" => readers[p] = WLOCK
                   /\ pc[p] = "rrel" => readers[p] # WLOCK /\ readers[p] > 0
IInv == TypeOK /\ RwExclusion /\ LockWordAccounted /\ ReleaseBranch

(* The same, in the form the steps use.                                     *)
LEMMA WordFacts ==
  ASSUME IInv
  PROVE  /\ Writers # {} <=> lock = WLOCK
         /\ lock # WLOCK => lock = Cardinality(Readers)
         /\ lock = 0 => Readers = {}
         /\ \A p \in Readers : lock # WLOCK /\ lock > 0
         /\ \A p \in Writers : lock = WLOCK /\ Writers = {p} /\ Readers = {}
<1> USE RwlockAssumption, FiniteParts DEF IInv
<1>1. Writers # {} <=> lock = WLOCK
  BY DEF LockWordAccounted
<1>2. lock # WLOCK => lock = Cardinality(Readers)
  BY DEF LockWordAccounted
<1>3. \A p \in Writers : lock = WLOCK /\ Writers = {p} /\ Readers = {}
  BY <1>1 DEF RwExclusion
<1>4. \A p \in Readers : lock # WLOCK /\ lock > 0
  BY <1>1, <1>2, <1>3, ReaderCounted
<1>5. lock = 0 => Readers = {}
  BY <1>4
<1> QED
  BY <1>1, <1>2, <1>3, <1>4, <1>5

LEMMA IInvStep ==
  ASSUME IInv, [Next]_vars
  PROVE  IInv'
<1> USE RwlockAssumption DEF Goto
<1>t. TypeOK /\ ReleaseBranch
  BY DEF IInv
<1>c. Cardinality(Readers) \in Nat /\ Cardinality(Readers) < WLOCK /\ WLOCK > 0
  BY FiniteParts
<1>same. ASSUME Writers' = Writers, Readers' = Readers, lock' = lock
         PROVE  RwExclusion' /\ LockWordAccounted'
  BY <1>same DEF IInv, RwExclusion, LockWordAccounted
<1>1. CASE \E p \in Procs : Want(p)
  <2> PICK p \in Procs : Want(p)
    BY <1>1
  <2>1. Writers' = Writers /\ Readers' = Readers /\ lock' = lock
    BY <1>t DEF Want, TypeOK, Writers, Readers
  <2>2. TypeOK' /\ ReleaseBranch'
    BY <1>t DEF Want, TypeOK, Labels, ReleaseBranch
  <2> QED
    BY <1>same, <2>1, <2>2 DEF IInv
<1>2. CASE \E p \in Procs : ngx_rwlock_wlock(p)
  <2> PICK p \in Procs : ngx_rwlock_wlock(p)
    BY <1>2
  <2>1. Writers = {} /\ Readers = {}
    BY <1>c, WordFacts DEF ngx_rwlock_wlock
  <2>2. Writers' = {p} /\ Readers' = {} /\ lock' = WLOCK
    BY <1>t, <2>1 DEF ngx_rwlock_wlock, TypeOK, Writers, Readers
  <2>3. RwExclusion' /\ LockWordAccounted'
    BY <2>2 DEF RwExclusion, LockWordAccounted
  <2>4. TypeOK' /\ ReleaseBranch'
    BY <1>t DEF ngx_rwlock_wlock, TypeOK, Labels, ReleaseBranch
  <2> QED
    BY <2>3, <2>4 DEF IInv
<1>3. CASE \E p \in Procs : ngx_rwlock_rlock(p)
  <2> PICK p \in Procs : ngx_rwlock_rlock(p)
    BY <1>3
  <2>1. Writers = {} /\ lock = Cardinality(Readers)
    BY WordFacts DEF ngx_rwlock_rlock
  <2>2. Writers' = {} /\ Readers' = Readers \cup {p} /\ p \notin Readers
    BY <1>t, <2>1 DEF ngx_rwlock_rlock, TypeOK, Writers, Readers
  <2>3. Cardinality(Readers') = Cardinality(Readers) + 1
    BY <2>2, FiniteParts, FS_AddElement
  <2>4. RwExclusion' /\ LockWordAccounted'
    BY <2>1, <2>2, <2>3 DEF RwExclusion, LockWordAccounted, ngx_rwlock_rlock
  <2>5. TypeOK' /\ ReleaseBranch'
    BY <1>t DEF ngx_rwlock_rlock, TypeOK, Labels, ReleaseBranch
  <2> QED
    BY <2>4, <2>5 DEF IInv
<1>4. CASE \E p \in Procs : ngx_rwlock_unlock(p)
  <2> PICK p \in Procs : ngx_rwlock_unlock(p)
    BY <1>4
  <2>1. Writers' = Writers /\ Readers' = Readers /\ lock' = lock
    BY <1>t DEF ngx_rwlock_unlock, TypeOK, Writers, Readers
  <2>2. TypeOK'
    BY <1>t DEF ngx_rwlock_unlock, TypeOK, Labels
  <2>3. /\ pc[p] = "w" => p \in Writers
        /\ pc[p] = "r" => p \in Readers
    BY DEF Writers, Readers
  <2>4. ReleaseBranch'
    BY <1>t, <2>3, WordFacts DEF ngx_rwlock_unlock, TypeOK, ReleaseBranch
  <2> QED
    BY <1>same, <2>1, <2>2, <2>4 DEF IInv
<1>5. CASE \E p \in Procs : Release(p)
  <2> PICK p \in Procs : Release(p)
    BY <1>5
  <2>1. CASE pc[p] = "wrel"
    <3>1. p \in Writers
      BY <2>1 DEF Writers
    <3>2. readers[p] = WLOCK /\ lock = WLOCK /\ Writers = {p} /\ Readers = {}
      BY <1>t, <2>1, <3>1, WordFacts DEF ReleaseBranch
    <3>3. Writers' = {} /\ Readers' = {} /\ lock' = 0
      BY <1>t, <3>2 DEF Release, TypeOK, Writers, Readers
    <3>4. RwExclusion' /\ LockWordAccounted'
      BY <3>3, FS_EmptySet DEF RwExclusion, LockWordAccounted
    <3>5. TypeOK' /\ ReleaseBranch'
      BY <1>t, <3>2 DEF Release, TypeOK, Labels, ReleaseBranch
    <3> QED
      BY <3>4, <3>5 DEF IInv
  <2>2. CASE pc[p] = "rrel" /\ lock = readers[p]
    <3>1. p \in Readers
      BY <2>2 DEF Readers
    <3>2. readers[p] # WLOCK /\ lock > 0 /\ lock = Cardinality(Readers) /\ Writers = {}
      BY <1>t, <2>2, <3>1, WordFacts DEF ReleaseBranch
    <3>3. lock' = lock - 1
      <4>1. lock' = (lock - 1) % (WLOCK + 1)
        BY <2>2, <3>2 DEF Release
      <4>2. lock - 1 \in 0 .. WLOCK
        BY <1>t, <3>2 DEF TypeOK
      <4>3. \A n \in 0 .. WLOCK : n % (WLOCK + 1) = n
        OBVIOUS
      <4> QED
        BY <4>1, <4>2, <4>3
    <3>4. pc' = [pc EXCEPT ![p] = "idle"] /\ UNCHANGED <<readers, crashes>>
      BY <2>2, <3>2 DEF Release
    <3>5. Writers' = {} /\ Readers' = Readers \ {p}
      BY <1>t, <3>2, <3>4 DEF TypeOK, Writers, Readers
    <3>6. Cardinality(Readers') = Cardinality(Readers) - 1
      BY <3>1, <3>5, FiniteParts, FS_RemoveElement
    <3>7. RwExclusion' /\ LockWordAccounted'
      BY <3>2, <3>3, <3>5, <3>6 DEF RwExclusion, LockWordAccounted
    <3>8. TypeOK' /\ ReleaseBranch'
      BY <1>t, <3>2, <3>3, <3>4 DEF TypeOK, Labels, ReleaseBranch
    <3> QED
      BY <3>7, <3>8 DEF IInv
  <2>3. CASE pc[p] = "rrel" /\ lock # readers[p]
    <3>1. p \in Readers
      BY <2>3 DEF Readers
    <3>2. readers[p] # WLOCK /\ lock # WLOCK /\ lock > 0
      BY <1>t, <2>3, <3>1, WordFacts DEF ReleaseBranch
    <3>3. readers' = [readers EXCEPT ![p] = lock] /\ UNCHANGED <<lock, pc, crashes>>
      BY <2>3, <3>2 DEF Release
    <3>4. Writers' = Writers /\ Readers' = Readers
      BY <3>3 DEF Writers, Readers
    <3>5. TypeOK' /\ ReleaseBranch'
      BY <1>t, <2>3, <3>2, <3>3 DEF TypeOK, Labels, ReleaseBranch
    <3> QED
      BY <1>same, <3>3, <3>4, <3>5 DEF IInv
  <2> QED
    BY <2>1, <2>2, <2>3 DEF Release
<1>6. CASE \E p \in Procs : ngx_rwlock_downgrade(p)
  <2> PICK p \in Procs : ngx_rwlock_downgrade(p)
    BY <1>6
  <2>1. p \in Writers
    BY DEF ngx_rwlock_downgrade, Writers
  <2>2. lock = WLOCK /\ Writers = {p} /\ Readers = {}
    BY <2>1, WordFacts
  <2>3. Writers' = {} /\ Readers' = {p} /\ lock' = 1
    BY <1>t, <2>2 DEF ngx_rwlock_downgrade, TypeOK, Writers, Readers
  <2>4. RwExclusion' /\ LockWordAccounted'
    BY <2>3, FS_Singleton DEF RwExclusion, LockWordAccounted
  <2>5. TypeOK' /\ ReleaseBranch'
    BY <1>t, <1>c DEF ngx_rwlock_downgrade, TypeOK, Labels, ReleaseBranch
  <2> QED
    BY <2>4, <2>5 DEF IInv
<1>7. CASE \E p \in Procs : Crash(p)
  <2> PICK p \in Procs : Crash(p)
    BY <1>7
  <2>1. Writers' = Writers /\ Readers' = Readers /\ lock' = lock
    BY <1>t DEF Crash, TypeOK, Writers, Readers
  <2>2. TypeOK' /\ ReleaseBranch'
    BY <1>t DEF Crash, TypeOK, Labels, ReleaseBranch
  <2> QED
    BY <1>same, <2>1, <2>2 DEF IInv
<1>8. CASE UNCHANGED vars
  <2>1. Writers' = Writers /\ Readers' = Readers /\ lock' = lock
    BY <1>8 DEF vars, Writers, Readers
  <2>2. TypeOK' /\ ReleaseBranch'
    BY <1>t, <1>8 DEF vars, TypeOK, ReleaseBranch
  <2> QED
    BY <1>same, <2>1, <2>2 DEF IInv
<1> QED
  BY <1>1, <1>2, <1>3, <1>4, <1>5, <1>6, <1>7, <1>8 DEF Next, Locking, Unlocking

LEMMA IInvHolds == Spec => []IInv
<1>1. Init => IInv
  <2> SUFFICES ASSUME Init PROVE IInv
    OBVIOUS
  <2>1. Writers = {} /\ Readers = {}
    BY DEF Init, Writers, Readers
  <2>2. RwExclusion /\ LockWordAccounted
    BY <2>1, FS_EmptySet DEF Init, RwExclusion, LockWordAccounted
  <2>3. TypeOK /\ ReleaseBranch
    BY RwlockAssumption DEF Init, TypeOK, Labels, ReleaseBranch
  <2> QED
    BY <2>2, <2>3 DEF IInv
<1>2. IInv /\ [Next]_vars => IInv'
  BY IInvStep
<1> QED
  BY <1>1, <1>2, PTL DEF Spec

(* The lock word stays within its width: a decrement never wraps.           *)
THEOREM TypeCorrect == Spec => []TypeOK
<1>1. IInv => TypeOK
  BY DEF IInv
<1> QED
  BY <1>1, IInvHolds, PTL

(* A writer is alone, whatever unlocks, downgrades and deaths happen.       *)
THEOREM ExclusionHolds == Spec => []RwExclusion
<1>1. IInv => RwExclusion
  BY DEF IInv
<1> QED
  BY <1>1, IInvHolds, PTL

(* The lock word is always the writer's value or the number of readers.     *)
THEOREM LockWordAlwaysAccounted == Spec => []LockWordAccounted
<1>1. IInv => LockWordAccounted
  BY DEF IInv
<1> QED
  BY <1>1, IInvHolds, PTL

-----------------------------------------------------------------------------
(* FileCache.                                                               *)

CacheLabels ==
  {"idle", "lock", "open", "wait", "woken", "fetch", "renamed", "served", "done"}

CacheNode ==
  [here : BOOLEAN, count : Int, exists : BOOLEAN, error : BOOLEAN,
   updating : BOOLEAN, deleting : BOOLEAN, lock : Nat, aged : BOOLEAN,
   fs_size : Nat]

RequestCache ==
  [st : CacheLabels, updating : BOOLEAN, lock : Nat, patient : BOOLEAN,
   error : BOOLEAN, new : Nat]

FcTypeOK ==
  /\ node \in CacheNode
  /\ file \in Nat
  /\ size \in Int
  /\ cl \in [Clients -> RequestCache]
  /\ manager \in {"idle", "unlink", "relock"}
  /\ leaks \in Nat
  /\ bypassed \in BOOLEAN
  /\ raced \in BOOLEAN

----------------------------------------------------------------------------
(* Behind the sums of the entry.  A request knows the size of what it has   *)
(* renamed only between the rename and the update of the node.              *)
NewIsRenamed == \A r \in Clients : cl[r].st # "renamed" => cl[r].new = 0

(* A request has the mark only while it fetches the response, or serves a   *)
(* stale one.                                                               *)
UpdatingIsFetching ==
  \A r \in Clients : cl[r].updating => cl[r].st \in {"fetch", "renamed", "served"}

(* The node is marked for deletion exactly while the manager is at it.      *)
DeletingIsManager == node.deleting <=> manager # "idle"

(* As long as nobody has gone past the mark, one who is at work on the      *)
(* entry has set it, with the lock of the node, and nobody else has.        *)
MarkedByOne ==
  ~bypassed =>
    /\ \A r \in Working : cl[r].updating /\ node.updating /\ cl[r].lock = node.lock
    /\ \A r, q \in Working : r = q

(* The size of the cache is the size in the node, until the manager has     *)
(* subtracted it; then nobody has the node.                                 *)
SizeOfNode ==
  /\ ~node.exists => node.fs_size = 0
  /\ size = IF node.deleting THEN 0 ELSE node.fs_size
  /\ node.deleting => Holders = {}

(* The file is what the last rename made of it, of which the node learns    *)
(* in the step that follows.                                                *)
FileOfNode ==
  /\ manager = "relock" => file = 0
  /\ \A r \in Clients : cl[r].st = "renamed" =>
       /\ file = cl[r].new
       /\ cl[r].new # 0 => \A q \in Clients : cl[q].st = "renamed" => q = r
  /\ (\A r \in Clients : cl[r].new = 0) /\ ~node.deleting => file = node.fs_size

(* The inductive invariant                                                  *)
FcInv ==
  /\ FcTypeOK
  /\ ~node.here => node = NoNode
  /\ NodeAccounted
  /\ NewIsRenamed
  /\ UpdatingIsFetching
  /\ DeletingIsManager
  /\ MarkedByOne
  /\ ~raced /\ leaks = 0 => SizeOfNode /\ FileOfNode

----------------------------------------------------------------------------
(* Every action of the module                                               *)
LEMMA FcCases ==
  ASSUME [FcNext]_fcVars
  PROVE  \/ \E r \in Clients :
              \/ ngx_http_file_cache_open(r)
              \/ ngx_http_file_cache_create(r)
              \/ ngx_http_file_cache_read(r)
              \/ ngx_http_file_cache_lock(r)
              \/ ngx_http_file_cache_lock_wait(r)
              \/ Rename(r)
              \/ RenameFails(r)
              \/ ngx_http_file_cache_update(r)
              \/ ngx_http_file_cache_free(r)
              \/ WorkerDies(r)
         \/ LockAges
         \/ ngx_http_file_cache_expire
         \/ Unlink
         \/ ngx_http_file_cache_delete
         \/ UNCHANGED fcVars
BY DEF FcNext, FcProgress, Holders

(* The number of users after one more has come, or one has gone             *)
LEMMA HoldersCount ==
  /\ IsFiniteSet(Holders) /\ Cardinality(Holders) \in Nat
  /\ Cardinality(Holders) = 0 <=> Holders = {}
  /\ \A r \in Clients \ Holders : Cardinality(Holders \cup {r}) = Cardinality(Holders) + 1
  /\ \A r \in Holders : Cardinality(Holders \ {r}) = Cardinality(Holders) - 1
<1>1. IsFiniteSet(Holders)
  BY FileCacheAssumption, FS_Subset DEF Holders
<1> QED
  BY <1>1, FS_CardinalityType, FS_EmptySet, FS_AddElement, FS_RemoveElement

(* What becomes of the users, and of those at work, when one moves          *)
LEMMA OneMoves ==
  ASSUME NEW r \in Clients, \A q \in Clients \ {r} : cl'[q] = cl[q]
  PROVE  /\ Holders' = IF cl'[r].st \in {"idle", "done"} THEN Holders \ {r}
                       ELSE Holders \cup {r}
         /\ Working' = IF cl'[r].updating \/ cl'[r].st \in {"fetch", "renamed"}
                       THEN Working \cup {r} ELSE Working \ {r}
BY DEF Holders, Working, Updaters

(* The types of an entry and of a request after the steps they take         *)
LEMMA EntryTypes ==
  ASSUME NEW n \in CacheNode
  PROVE  /\ NoNode \in CacheNode /\ [NoNode EXCEPT !.here = TRUE, !.count = 1] \in CacheNode
         /\ n.here \in BOOLEAN /\ n.exists \in BOOLEAN /\ n.error \in BOOLEAN
         /\ n.updating \in BOOLEAN /\ n.deleting \in BOOLEAN /\ n.aged \in BOOLEAN
         /\ n.lock \in Nat /\ n.lock + 1 \in Nat /\ n.fs_size \in Nat
         /\ n.count \in Int /\ n.count + 0 \in Int
         /\ n.count + 1 \in Int /\ n.count - 1 \in Int
<1>1. NoNode \in CacheNode
  BY DEF CacheNode, NoNode
<1>4. [NoNode EXCEPT !.here = TRUE, !.count = 1] \in CacheNode
  <2>1. \A k \in CacheNode, i \in Int : [k EXCEPT !.here = TRUE, !.count = i] \in CacheNode
    BY DEF CacheNode
  <2>2. 1 \in Int
    OBVIOUS
  <2> QED
    BY <1>1, <2>1, <2>2, Zenon
<1>2. /\ n.here \in BOOLEAN /\ n.exists \in BOOLEAN /\ n.error \in BOOLEAN
      /\ n.updating \in BOOLEAN /\ n.deleting \in BOOLEAN /\ n.aged \in BOOLEAN
      /\ n.lock \in Nat /\ n.fs_size \in Nat /\ n.count \in Int
  BY DEF CacheNode
<1>3. n.lock + 1 \in Nat /\ n.count + 0 \in Int /\ n.count + 1 \in Int /\ n.count - 1 \in Int
  BY <1>2
<1> QED
  BY <1>1, <1>2, <1>3, <1>4

LEMMA RequestTypes ==
  ASSUME FcTypeOK, NEW r \in Clients
  PROVE  /\ \A st \in CacheLabels : To(r, st) => cl' \in [Clients -> RequestCache]
         /\ Done(r) => cl' \in [Clients -> RequestCache]
         /\ cl[r] \in RequestCache
<1>1. cl[r] \in RequestCache
  BY DEF FcTypeOK
<1>2. ASSUME NEW st \in CacheLabels, To(r, st)
      PROVE  cl' \in [Clients -> RequestCache]
  BY <1>2 DEF FcTypeOK, RequestCache, To
<1>3. [NoCache EXCEPT !.st = "done"] \in RequestCache
  BY DEF RequestCache, CacheLabels, NoCache
<1>4. Done(r) => cl' \in [Clients -> RequestCache]
  BY <1>3 DEF FcTypeOK, Done
<1> QED
  BY <1>1, <1>2, <1>4

LEMMA FcTypeStep ==
  ASSUME FcTypeOK, [FcNext]_fcVars
  PROVE  FcTypeOK'
<1> USE FileCacheAssumption DEF FcTypeOK
<1>0. /\ NoNode \in CacheNode /\ [NoNode EXCEPT !.here = TRUE, !.count = 1] \in CacheNode
      /\ node.lock \in Nat /\ node.lock + 1 \in Nat /\ node.fs_size \in Nat
      /\ node.count + 0 \in Int /\ node.count + 1 \in Int /\ node.count - 1 \in Int
  BY EntryTypes
<1>1. CASE \E r \in Clients : \/ ngx_http_file_cache_open(r)
                              \/ ngx_http_file_cache_create(r)
  <2> PICK r \in Clients : \/ ngx_http_file_cache_open(r)
                          \/ ngx_http_file_cache_create(r)
    BY <1>1
  <2>0. PICK new \in CacheLabels, error \in CacheLabels, old \in CacheLabels :
          ngx_http_file_cache_exists(r, new, error, old)
    BY DEF ngx_http_file_cache_open, ngx_http_file_cache_create, CacheLabels
  <2>1. node' \in CacheNode
    <3>1. \A i \in {0, 1} :
            /\ [node EXCEPT !.count = node.count + i] \in CacheNode
            /\ [[node EXCEPT !.count = node.count + i]
                  EXCEPT !.error = FALSE, !.exists = FALSE, !.fs_size = 0] \in CacheNode
      BY <1>0 DEF CacheNode
    <3> QED
      BY <2>0, <3>1, <1>0 DEF ngx_http_file_cache_exists
  <2>2. cl' \in [Clients -> RequestCache]
    BY <2>0 DEF ngx_http_file_cache_exists, To, RequestCache
  <2>3. raced' \in BOOLEAN
    BY <2>0 DEF ngx_http_file_cache_exists
  <2>4. bypassed' \in BOOLEAN
    BY DEF ngx_http_file_cache_open, ngx_http_file_cache_create
  <2> QED
    BY <2>0, <2>1, <2>2, <2>3, <2>4 DEF ngx_http_file_cache_exists
<1>2. CASE \E r \in Clients : ngx_http_file_cache_read(r)
  <2> PICK r \in Clients : ngx_http_file_cache_read(r)
    BY <1>2
  <2>1. node' \in CacheNode
    BY DEF ngx_http_file_cache_read, CacheNode
  <2>2. cl' \in [Clients -> RequestCache]
    BY <1>0 DEF ngx_http_file_cache_read, To, RequestCache, CacheLabels
  <2> QED
    BY <2>1, <2>2 DEF ngx_http_file_cache_read
<1>3. CASE \E r \in Clients : ngx_http_file_cache_lock(r)
  <2> PICK r \in Clients : ngx_http_file_cache_lock(r)
    BY <1>3
  <2>1. node' \in CacheNode
    BY <1>0 DEF ngx_http_file_cache_lock, CacheNode
  <2>2. cl' \in [Clients -> RequestCache]
    BY <1>0 DEF ngx_http_file_cache_lock, To, RequestCache, CacheLabels
  <2>3. bypassed' \in BOOLEAN
    BY DEF ngx_http_file_cache_lock
  <2> QED
    BY <2>1, <2>2, <2>3 DEF ngx_http_file_cache_lock
<1>4. CASE \E r \in Clients : ngx_http_file_cache_lock_wait(r)
  <2> PICK r \in Clients : ngx_http_file_cache_lock_wait(r)
    BY <1>4
  <2>1. cl' \in [Clients -> RequestCache]
    BY DEF ngx_http_file_cache_lock_wait, To, RequestCache, CacheLabels
  <2> QED
    BY <2>1 DEF ngx_http_file_cache_lock_wait
<1>5. CASE \E r \in Clients : Rename(r)
  <2> PICK r \in Clients : Rename(r)
    BY <1>5
  <2>1. PICK s \in Sizes : /\ file' = s
                           /\ cl' = [cl EXCEPT ![r].st = "renamed", ![r].new = s]
    BY DEF Rename
  <2>3. s \in Nat
    OBVIOUS
  <2>4. cl' \in [Clients -> RequestCache]
    BY <2>1, <2>3 DEF RequestCache, CacheLabels
  <2>2. raced' \in BOOLEAN
    BY DEF Rename
  <2> QED
    BY <2>1, <2>2, <2>3, <2>4 DEF Rename
<1>6. CASE \E r \in Clients : RenameFails(r)
  <2> PICK r \in Clients : RenameFails(r)
    BY <1>6
  <2>1. cl' \in [Clients -> RequestCache]
    BY RequestTypes DEF RenameFails, CacheLabels
  <2>2. file' \in Nat /\ raced' \in BOOLEAN
    BY DEF RenameFails
  <2> QED
    BY <2>1, <2>2 DEF RenameFails
<1>7. CASE \E r \in Clients : ngx_http_file_cache_update(r)
  <2> PICK r \in Clients : ngx_http_file_cache_update(r)
    BY <1>7
  <2>1. node' \in CacheNode
    <3>1. cl[r].new \in Nat
      BY DEF RequestCache
    <3>2. ASSUME NEW b \in BOOLEAN, NEW n \in Nat, NEW i \in Int
          PROVE  [node EXCEPT !.count = i, !.error = FALSE, !.fs_size = n,
                              !.exists = b, !.updating = FALSE] \in CacheNode
      BY DEF CacheNode
    <3>3. CASE cl[r].new # 0
      <4>1. node' = [node EXCEPT !.count = node.count - 1, !.error = FALSE,
                       !.fs_size = cl[r].new, !.exists = TRUE, !.updating = FALSE]
        BY <3>3, Zenon DEF ngx_http_file_cache_update
      <4> QED
        BY <1>0, <3>1, <3>2, <4>1
    <3>4. CASE cl[r].new = 0
      <4>1. node' = [node EXCEPT !.count = node.count - 1, !.error = FALSE,
                       !.fs_size = cl[r].new, !.exists = node.exists, !.updating = FALSE]
        BY <3>4, Zenon DEF ngx_http_file_cache_update
      <4>2. node.exists \in BOOLEAN
        BY EntryTypes
      <4> QED
        BY <1>0, <3>1, <3>2, <4>1, <4>2
    <3> QED
      BY <3>3, <3>4
  <2>2. cl' \in [Clients -> RequestCache]
    BY RequestTypes DEF ngx_http_file_cache_update, Leave
  <2>3. bypassed' \in BOOLEAN
    BY DEF ngx_http_file_cache_update, Leave
  <2>4. size' \in Int
    BY <1>0 DEF ngx_http_file_cache_update, RequestCache
  <2> QED
    BY <2>1, <2>2, <2>3, <2>4 DEF ngx_http_file_cache_update
<1>8. CASE \E r \in Clients : ngx_http_file_cache_free(r)
  <2> PICK r \in Clients : ngx_http_file_cache_free(r)
    BY <1>8
  <2>1. node' \in CacheNode
    <3> DEFINE left == [node EXCEPT !.count = @ - 1,
                 !.updating = @ /\ ~(cl[r].updating /\ node.lock = cl[r].lock)]
    <3>1. left \in CacheNode
      BY <1>0 DEF CacheNode
    <3>2. [left EXCEPT !.error = TRUE] \in CacheNode
      BY <3>1 DEF CacheNode
    <3> QED
      BY <3>1, <3>2, <1>0 DEF ngx_http_file_cache_free
  <2>2. cl' \in [Clients -> RequestCache] /\ bypassed' \in BOOLEAN
    BY RequestTypes DEF ngx_http_file_cache_free, Leave
  <2> QED
    BY <2>1, <2>2 DEF ngx_http_file_cache_free
<1>9. CASE \E r \in Clients : WorkerDies(r)
  <2> PICK r \in Clients : WorkerDies(r)
    BY <1>9
  <2>1. cl' \in [Clients -> RequestCache] /\ leaks + 1 \in Nat /\ bypassed' \in BOOLEAN
    BY RequestTypes DEF WorkerDies, Leave
  <2> QED
    BY <2>1 DEF WorkerDies
<1>10. CASE LockAges
  BY <1>10 DEF LockAges, CacheNode
<1>11. CASE ngx_http_file_cache_expire
  <2>1. node' \in CacheNode
    <3>1. [node EXCEPT !.count = @ + 1, !.deleting = TRUE] \in CacheNode
      BY <1>0 DEF CacheNode
    <3> QED
      BY <3>1, <1>0, <1>11 DEF ngx_http_file_cache_expire
  <2>2. size' \in Int
    BY <1>0, <1>11 DEF ngx_http_file_cache_expire
  <2> QED
    BY <2>1, <2>2, <1>11 DEF ngx_http_file_cache_expire
<1>12. CASE Unlink
  BY <1>12 DEF Unlink
<1>13. CASE ngx_http_file_cache_delete
  <2>1. [node EXCEPT !.count = @ - 1, !.deleting = FALSE] \in CacheNode
    BY <1>0 DEF CacheNode
  <2> QED
    BY <2>1, <1>0, <1>13 DEF ngx_http_file_cache_delete
<1>14. CASE UNCHANGED fcVars
  BY <1>14 DEF fcVars
<1> QED
  BY <1>1, <1>2, <1>3, <1>4, <1>5, <1>6, <1>7, <1>8, <1>9, <1>10, <1>11, <1>12,
     <1>13, <1>14, FcCases

----------------------------------------------------------------------------
(* Those who are at work have the node, and without a mark there are none.  *)
LEMMA WorkingFacts ==
  ASSUME FcInv
  PROVE  /\ \A r \in Clients : cl[r].updating => r \in Working
         /\ Working \subseteq Holders
         /\ ~bypassed /\ ~node.updating => Working = {}
BY DEF FcInv, UpdatingIsFetching, Working, Updaters, Holders, MarkedByOne

(* The mark stays where it is while those at work, their requests and the   *)
(* mark and the lock of the node do.                                        *)
LEMMA StillMarked ==
  ASSUME MarkedByOne,
         ~bypassed' => /\ ~bypassed /\ Working' = Working
                       /\ \A q \in Working : cl'[q] = cl[q]
                       /\ (node'.updating <=> node.updating) /\ node'.lock = node.lock
  PROVE  MarkedByOne'
BY DEF MarkedByOne

LEMMA ExistsStep ==
  ASSUME FcInv, FcTypeOK', NEW r \in Clients,
         ngx_http_file_cache_open(r) \/ ngx_http_file_cache_create(r)
  PROVE  FcInv'
<1> USE DEF FcTypeOK
<1>0. /\ node \in CacheNode /\ node' \in CacheNode
      /\ cl \in [Clients -> RequestCache] /\ cl' \in [Clients -> RequestCache]
  BY DEF FcInv
<1> DEFINE more == IF cl[r].st = "idle" THEN 1 ELSE 0
<1>a. PICK new \in CacheLabels, error \in CacheLabels, old \in CacheLabels :
        /\ ngx_http_file_cache_exists(r, new, error, old)
        /\ {new, error, old} \subseteq {"lock", "open", "served", "fetch"}
        /\ bypassed' \/ (bypassed' = bypassed /\ "fetch" \notin {new, error, old})
  BY DEF ngx_http_file_cache_open, ngx_http_file_cache_create, CacheLabels
<1>1. /\ \A q \in Clients \ {r} : cl'[q] = cl[q]
      /\ cl[r].st \in {"idle", "woken"}
      /\ cl'[r].st \in {"lock", "open", "served", "fetch"}
      /\ bypassed' \/ (bypassed' = bypassed /\ cl'[r].st # "fetch")
      /\ cl'[r].new = cl[r].new /\ cl'[r].updating = cl[r].updating
      /\ ~cl[r].updating
  <2>1. cl[r].st \in {"idle", "woken"}
    BY DEF ngx_http_file_cache_open, ngx_http_file_cache_create
  <2>2. /\ \A q \in Clients \ {r} : cl'[q] = cl[q]
        /\ cl'[r].st \in {new, error, old}
        /\ cl'[r].new = cl[r].new /\ cl'[r].updating = cl[r].updating
    BY <1>a, <1>0 DEF ngx_http_file_cache_exists, To, RequestCache
  <2> QED
    BY <1>a, <2>1, <2>2 DEF FcInv, UpdatingIsFetching
<1>2. /\ node'.here
      /\ ~node.here => node' = [NoNode EXCEPT !.here = TRUE, !.count = 1]
      /\ node.here => /\ node'.count = node.count + more
                      /\ node'.updating = node.updating
                      /\ node'.deleting = node.deleting
                      /\ node'.lock = node.lock
                      /\ \/ UNCHANGED <<node.exists, node.fs_size>>
                         \/ ~node'.exists /\ node'.fs_size = 0 /\ (node.exists => raced')
  BY <1>a, <1>0, EntryTypes DEF ngx_http_file_cache_exists, CacheNode
<1>3. /\ UNCHANGED <<file, size, manager, leaks>>
      /\ ~node.here => UNCHANGED raced
      /\ node.here /\ ~raced' => ~raced /\ ~node.deleting
  BY <1>a DEF ngx_http_file_cache_exists
<1>4. Holders' = Holders \cup {r} /\ (~bypassed' => Working' = Working)
  <2>1. r \notin Working
    BY <1>1 DEF Working, Updaters
  <2>2. Holders' = Holders \cup {r}
    BY <1>1, OneMoves
  <2>3. ASSUME ~bypassed'
        PROVE  Working' = Working \ {r}
    <3>1. ~cl'[r].updating /\ cl'[r].st \notin {"fetch", "renamed"}
      BY <2>3, <1>1
    <3> QED
      BY <3>1, <1>1, OneMoves
  <2> QED
    BY <2>1, <2>2, <2>3
<1>5. NodeAccounted'
  <2>1. CASE cl[r].st = "idle"
    <3>1. Cardinality(Holders') = Cardinality(Holders) + 1
      BY <2>1, <1>4, HoldersCount DEF Holders
    <3>2. CASE ~node.here
      <4>1. node'.count = 1
        BY <3>2, <1>2 DEF NoNode
      <4> QED
        BY <4>1, <3>1, <3>2, <1>2, <1>3, HoldersCount DEF FcInv, NodeAccounted
    <3>3. CASE node.here
      BY <3>1, <3>3, <2>1, <1>2, <1>3, HoldersCount DEF FcInv, NodeAccounted
    <3> QED
      BY <3>2, <3>3
  <2>2. CASE cl[r].st = "woken"
    <3>1. Holders' = Holders /\ node.here
      BY <2>2, <1>4 DEF Holders, FcInv, NodeAccounted
    <3> QED
      BY <3>1, <2>2, <1>0, <1>2, <1>3, EntryTypes DEF FcInv, NodeAccounted
  <2> QED
    BY <2>1, <2>2, <1>1
<1>6. NewIsRenamed' /\ UpdatingIsFetching'
  BY <1>1 DEF FcInv, NewIsRenamed, UpdatingIsFetching
<1>7. DeletingIsManager'
  BY <1>2, <1>3 DEF FcInv, NodeAccounted, DeletingIsManager, NoNode
<1>8. MarkedByOne'
  <2>1. CASE ~node.here
    <3>1. Working = {}
      BY <2>1, WorkingFacts DEF FcInv, NodeAccounted
    <3> QED
      BY <3>1, <1>4 DEF MarkedByOne
  <2>2. CASE node.here
    BY <2>2, <1>1, <1>2, <1>4 DEF FcInv, MarkedByOne, Working, Updaters
  <2> QED
    BY <2>1, <2>2
<1>9. ASSUME ~raced', leaks' = 0
      PROVE  SizeOfNode' /\ FileOfNode'
  <2>1. ~raced /\ leaks = 0 /\ SizeOfNode /\ FileOfNode /\ ~node.deleting
    BY <1>9, <1>3 DEF FcInv, NoNode
  <2>2. /\ node'.fs_size = node.fs_size /\ ~node'.deleting
        /\ ~node'.exists => node'.fs_size = 0
    BY <2>1, <1>2, <1>9 DEF FcInv, NoNode, SizeOfNode
  <2>3. SizeOfNode'
    BY <2>1, <2>2, <1>3 DEF SizeOfNode
  <2>4. FileOfNode'
    BY <2>1, <2>2, <1>1, <1>3 DEF FileOfNode
  <2> QED
    BY <2>3, <2>4
<1> QED
  BY <1>2, <1>5, <1>6, <1>7, <1>8, <1>9 DEF FcInv

(* A request that has the node, and what the count then says                *)
LEMMA UserFacts ==
  ASSUME FcInv, NEW r \in Clients, cl[r].st \notin {"idle", "done"}
  PROVE  /\ r \in Holders /\ node.here
         /\ ~raced /\ leaks = 0 => ~node.deleting /\ manager = "idle"
BY DEF FcInv, NodeAccounted, Holders, SizeOfNode, DeletingIsManager

LEMMA ReadStep ==
  ASSUME FcInv, FcTypeOK', NEW r \in Clients, ngx_http_file_cache_read(r)
  PROVE  FcInv'
<1>0. /\ node \in CacheNode /\ node' \in CacheNode
      /\ cl \in [Clients -> RequestCache] /\ cl' \in [Clients -> RequestCache]
  BY DEF FcInv, FcTypeOK
<1>1. /\ \A q \in Clients \ {r} : cl'[q] = cl[q]
      /\ cl[r].st = "open" /\ cl'[r].st \in {"lock", "served", "fetch"}
      /\ cl'[r].new = cl[r].new
  BY <1>0 DEF ngx_http_file_cache_read, To, RequestCache
<1>2. /\ node'.here = node.here /\ node'.count = node.count
      /\ node'.deleting = node.deleting /\ node'.exists = node.exists
      /\ node'.fs_size = node.fs_size /\ node'.lock = node.lock
      /\ UNCHANGED <<file, size, manager, leaks, raced>>
  BY <1>0 DEF ngx_http_file_cache_read, CacheNode
<1>3. \/ /\ cl'[r].updating = cl[r].updating /\ UNCHANGED node
         /\ bypassed' \/ (UNCHANGED bypassed /\ cl'[r].st # "fetch")
      \/ /\ ~node.updating /\ node'.updating /\ UNCHANGED bypassed
         /\ cl'[r].updating /\ cl'[r].st \in {"fetch", "served"}
         /\ cl'[r].lock = node.lock
  BY <1>0 DEF ngx_http_file_cache_read, To, CacheNode, RequestCache
<1>4. /\ Holders' = Holders /\ node.here
      /\ Working' = IF cl'[r].updating \/ cl'[r].st = "fetch"
                    THEN Working \cup {r} ELSE Working \ {r}
      /\ ~cl[r].updating /\ r \notin Working
  BY <1>1, OneMoves, UserFacts DEF FcInv, UpdatingIsFetching, Working, Updaters
<1>5. NodeAccounted'
  BY <1>2, <1>4 DEF FcInv, NodeAccounted
<1>6. NewIsRenamed' /\ UpdatingIsFetching' /\ DeletingIsManager'
  BY <1>1, <1>2, <1>3, <1>4 DEF FcInv, NewIsRenamed, UpdatingIsFetching, DeletingIsManager
<1>7. MarkedByOne'
  <2>1. CASE /\ cl'[r].updating = cl[r].updating /\ UNCHANGED node
             /\ bypassed' \/ (UNCHANGED bypassed /\ cl'[r].st # "fetch")
    <3>1. ~bypassed' => ~bypassed /\ Working' = Working
      BY <2>1, <1>4
    <3>2. \A q \in Working : cl'[q] = cl[q]
      BY <1>1, <1>4 DEF Working, Updaters
    <3> QED
      BY <3>1, <3>2, <2>1, StillMarked DEF FcInv
  <2>2. CASE /\ ~node.updating /\ node'.updating /\ UNCHANGED bypassed
             /\ cl'[r].updating /\ cl'[r].lock = node.lock
    BY <2>2, <1>2, <1>4, WorkingFacts DEF MarkedByOne
  <2> QED
    BY <2>1, <2>2, <1>3
<1>8. ASSUME ~raced', leaks' = 0
      PROVE  SizeOfNode' /\ FileOfNode'
  BY <1>8, <1>1, <1>2, <1>4 DEF FcInv, SizeOfNode, FileOfNode
<1> QED
  BY <1>2, <1>4, <1>5, <1>6, <1>7, <1>8 DEF FcInv

LEMMA LockStep ==
  ASSUME FcInv, FcTypeOK', NEW r \in Clients, ngx_http_file_cache_lock(r)
  PROVE  FcInv'
<1>0. /\ node \in CacheNode /\ node' \in CacheNode
      /\ cl \in [Clients -> RequestCache] /\ cl' \in [Clients -> RequestCache]
  BY DEF FcInv, FcTypeOK
<1>1. /\ \A q \in Clients \ {r} : cl'[q] = cl[q]
      /\ cl[r].st = "lock" /\ cl'[r].st \in {"wait", "served", "fetch"}
      /\ cl'[r].new = cl[r].new
  BY <1>0 DEF ngx_http_file_cache_lock, To, RequestCache
<1>2. /\ node'.here = node.here /\ node'.count = node.count
      /\ node'.deleting = node.deleting /\ node'.exists = node.exists
      /\ node'.fs_size = node.fs_size
      /\ UNCHANGED <<file, size, manager, leaks, raced>>
  BY <1>0 DEF ngx_http_file_cache_lock, CacheNode
<1>3. \/ /\ cl'[r].updating = cl[r].updating /\ UNCHANGED node
         /\ bypassed' \/ (UNCHANGED bypassed /\ cl'[r].st # "fetch")
      \/ /\ ~bypassed' => ~bypassed /\ ~node.updating
         /\ node'.updating
         /\ cl'[r].updating /\ cl'[r].st = "fetch" /\ cl'[r].lock = node'.lock
  <2>1. CASE /\ node' = [node EXCEPT !.updating = TRUE, !.lock = @ + 1, !.aged = FALSE]
             /\ cl' = [cl EXCEPT ![r].st = "fetch", ![r].updating = TRUE,
                                 ![r].lock = node.lock + 1]
             /\ bypassed' = (bypassed \/ (node.updating /\ node.aged))
             /\ ~node.updating \/ node.aged
    <3>1. PICK n \in Nat : n = node.lock + 1
      BY <1>0, EntryTypes
    <3>2. node'.lock = n /\ node'.updating
      BY <2>1, <3>1, <1>0 DEF CacheNode
    <3>3. cl'[r].updating /\ cl'[r].st = "fetch" /\ cl'[r].lock = n
      BY <2>1, <3>1, <1>0 DEF RequestCache
    <3> QED
      BY <2>1, <3>2, <3>3
  <2>2. CASE /\ node.updating /\ ~node.aged
             /\ To(r, IF cl[r].patient THEN "wait" ELSE "served")
             /\ UNCHANGED <<node, bypassed>>
    BY <2>2, <1>0 DEF To, RequestCache
  <2>3. CASE To(r, "fetch") /\ bypassed' = TRUE /\ UNCHANGED node
    BY <2>3, <1>0 DEF To, RequestCache
  <2> QED
    BY <2>1, <2>2, <2>3, Zenon DEF ngx_http_file_cache_lock
<1>4. /\ Holders' = Holders /\ node.here
      /\ Working' = IF cl'[r].updating \/ cl'[r].st = "fetch"
                    THEN Working \cup {r} ELSE Working \ {r}
      /\ ~cl[r].updating /\ r \notin Working
  BY <1>1, OneMoves, UserFacts DEF FcInv, UpdatingIsFetching, Working, Updaters
<1>5. NodeAccounted'
  BY <1>2, <1>4 DEF FcInv, NodeAccounted
<1>6. NewIsRenamed' /\ UpdatingIsFetching' /\ DeletingIsManager'
  BY <1>1, <1>2, <1>3, <1>4 DEF FcInv, NewIsRenamed, UpdatingIsFetching, DeletingIsManager
<1>7. MarkedByOne'
  <2>1. CASE /\ cl'[r].updating = cl[r].updating /\ UNCHANGED node
             /\ bypassed' \/ (UNCHANGED bypassed /\ cl'[r].st # "fetch")
    <3>1. ~bypassed' => ~bypassed /\ Working' = Working
      BY <2>1, <1>4
    <3>2. \A q \in Working : cl'[q] = cl[q]
      BY <1>1, <1>4 DEF Working, Updaters
    <3> QED
      BY <3>1, <3>2, <2>1, StillMarked DEF FcInv
  <2>2. CASE /\ ~bypassed' => ~bypassed /\ ~node.updating
             /\ node'.updating /\ cl'[r].updating /\ cl'[r].lock = node'.lock
    BY <2>2, <1>4, WorkingFacts DEF MarkedByOne
  <2> QED
    BY <2>1, <2>2, <1>3
<1>8. ASSUME ~raced', leaks' = 0
      PROVE  SizeOfNode' /\ FileOfNode'
  BY <1>8, <1>1, <1>2, <1>4 DEF FcInv, SizeOfNode, FileOfNode
<1> QED
  BY <1>2, <1>4, <1>5, <1>6, <1>7, <1>8 DEF FcInv

LEMMA LockWaitStep ==
  ASSUME FcInv, FcTypeOK', NEW r \in Clients, ngx_http_file_cache_lock_wait(r)
  PROVE  FcInv'
<1>0. cl \in [Clients -> RequestCache] /\ cl' \in [Clients -> RequestCache]
  BY DEF FcInv, FcTypeOK
<1>1. /\ \A q \in Clients \ {r} : cl'[q] = cl[q]
      /\ cl[r].st = "wait" /\ cl'[r].st = "woken"
      /\ cl'[r].new = cl[r].new /\ cl'[r].updating = cl[r].updating
      /\ cl'[r].lock = cl[r].lock
      /\ UNCHANGED <<node, file, size, manager, leaks, bypassed, raced>>
  BY <1>0 DEF ngx_http_file_cache_lock_wait, To, RequestCache
<1>2. Holders' = Holders /\ Working' = Working
  BY <1>1 DEF FcInv, UpdatingIsFetching, Holders, Working, Updaters
<1>3. NodeAccounted'
  BY <1>1, <1>2 DEF FcInv, NodeAccounted
<1>4. NewIsRenamed' /\ UpdatingIsFetching' /\ DeletingIsManager'
  BY <1>1 DEF FcInv, NewIsRenamed, UpdatingIsFetching, DeletingIsManager
<1>5. MarkedByOne'
  BY <1>1, <1>2 DEF FcInv, MarkedByOne, Working, Updaters
<1>6. ASSUME ~raced', leaks' = 0
      PROVE  SizeOfNode' /\ FileOfNode'
  BY <1>6, <1>1, <1>2 DEF FcInv, SizeOfNode, FileOfNode
<1> QED
  BY <1>1, <1>3, <1>4, <1>5, <1>6 DEF FcInv

(* A rename comes between two others only when the entry raced.             *)
LEMMA RenameStep ==
  ASSUME FcInv, FcTypeOK', NEW r \in Clients, Rename(r) \/ RenameFails(r)
  PROVE  FcInv'
<1> USE FileCacheAssumption
<1>0. cl \in [Clients -> RequestCache] /\ cl' \in [Clients -> RequestCache]
  BY DEF FcInv, FcTypeOK
<1>1. /\ \A q \in Clients \ {r} : cl'[q] = cl[q]
      /\ cl[r].st = "fetch" /\ cl'[r].st = "renamed"
      /\ cl'[r].updating = cl[r].updating /\ cl'[r].lock = cl[r].lock
      /\ UNCHANGED <<node, size, manager, leaks, bypassed>>
      /\ ~raced' => ~raced
  <2>1. CASE Rename(r)
    <3>1. PICK s \in Sizes : cl' = [cl EXCEPT ![r].st = "renamed", ![r].new = s]
      BY <2>1 DEF Rename
    <3>2. /\ \A q \in Clients \ {r} : cl'[q] = cl[q]
          /\ cl'[r].st = "renamed"
          /\ cl'[r].updating = cl[r].updating /\ cl'[r].lock = cl[r].lock
      BY <3>1, <1>0 DEF RequestCache
    <3> QED
      BY <2>1, <3>2 DEF Rename
  <2>2. CASE RenameFails(r)
    BY <2>2, <1>0 DEF RenameFails, To, RequestCache
  <2> QED
    BY <2>1, <2>2
<1>2. Holders' = Holders /\ Working' = Working
  BY <1>1 DEF Holders, Working, Updaters
<1>3. NodeAccounted'
  BY <1>1, <1>2 DEF FcInv, NodeAccounted
<1>4. NewIsRenamed' /\ UpdatingIsFetching' /\ DeletingIsManager'
  BY <1>1 DEF FcInv, NewIsRenamed, UpdatingIsFetching, DeletingIsManager
<1>5. MarkedByOne'
  BY <1>1, <1>2 DEF FcInv, MarkedByOne, Working, Updaters
<1>6. ASSUME ~raced', leaks' = 0
      PROVE  SizeOfNode' /\ FileOfNode'
  <2>1. /\ ~raced /\ leaks = 0 /\ SizeOfNode /\ FileOfNode
        /\ ~node.deleting /\ manager = "idle"
    BY <1>6, <1>1, UserFacts DEF FcInv
  <2>2. SizeOfNode'
    BY <2>1, <1>1, <1>2 DEF SizeOfNode
  <2>3. FileOfNode'
    <3>1. CASE Rename(r)
      <4>0. PICK s \in Sizes : /\ file' = s
                               /\ cl' = [cl EXCEPT ![r].st = "renamed", ![r].new = s]
        BY <3>1 DEF Rename
      <4>1. file' = s /\ cl'[r].new = s
        BY <4>0, <1>0 DEF RequestCache
      <4>2. s # 0 /\ \A q \in Clients : cl[q].st # "renamed"
        BY <3>1, <1>6 DEF Rename
      <4> QED
        BY <4>1, <4>2, <2>1, <1>1 DEF FileOfNode
    <3>2. CASE RenameFails(r)
      <4>1. file' = 0 /\ file = 0 /\ cl'[r].new = 0 /\ cl[r].new = 0
        <5>1. file' = 0 /\ file' \in {file} \cup Sizes
          BY <3>2, <1>6 DEF RenameFails
        <5>2. cl'[r].new = cl[r].new
          BY <3>2, <1>0 DEF RenameFails, To, RequestCache
        <5> QED
          BY <5>1, <5>2, <1>1 DEF FcInv, NewIsRenamed
      <4> QED
        BY <4>1, <2>1, <1>1 DEF FileOfNode
    <3> QED
      BY <3>1, <3>2
  <2> QED
    BY <2>2, <2>3
<1> QED
  BY <1>1, <1>3, <1>4, <1>5, <1>6 DEF FcInv

LEMMA UpdateStep ==
  ASSUME FcInv, FcTypeOK', NEW r \in Clients, ngx_http_file_cache_update(r)
  PROVE  FcInv'
<1>0. /\ node \in CacheNode /\ node' \in CacheNode /\ size \in Int
      /\ cl \in [Clients -> RequestCache] /\ cl' \in [Clients -> RequestCache]
  BY DEF FcInv, FcTypeOK
<1>1. /\ \A q \in Clients \ {r} : cl'[q] = cl[q]
      /\ cl[r].st = "renamed" /\ cl'[r].st = "done"
      /\ cl'[r].new = 0 /\ ~cl'[r].updating
  BY <1>0 DEF ngx_http_file_cache_update, Leave, Done, NoCache, RequestCache
<1>2. cl[r].new \in Nat /\ node.count - 1 \in Int
  BY <1>0, EntryTypes DEF RequestCache
<1>3. /\ node'.here = node.here /\ node'.count = node.count - 1
      /\ node'.fs_size = cl[r].new /\ node'.deleting = node.deleting
      /\ ~node'.exists => cl[r].new = 0
      /\ ~node'.updating
  <2>1. /\ node'.here = node.here /\ node'.count = node.count - 1
        /\ node'.fs_size = cl[r].new /\ node'.deleting = node.deleting
    BY <1>0, <1>2 DEF ngx_http_file_cache_update, CacheNode
  <2>2. (~node'.exists => cl[r].new = 0) /\ ~node'.updating
    BY <1>0, <1>2 DEF ngx_http_file_cache_update, CacheNode
  <2> QED
    BY <2>1, <2>2
<1>4. /\ size' = size + cl[r].new - node.fs_size
      /\ bypassed' = (bypassed /\ Working' # {})
      /\ UNCHANGED <<file, manager, leaks, raced>>
  BY DEF ngx_http_file_cache_update, Leave
<1>5. /\ Holders' = Holders \ {r} /\ Working' = Working \ {r}
      /\ r \in Holders /\ node.here
  BY <1>1, OneMoves, UserFacts
<1>6. NodeAccounted'
  <2>1. Cardinality(Holders') = Cardinality(Holders) - 1 /\ Cardinality(Holders) \in Nat
    BY <1>5, HoldersCount
  <2>2. node.count = Cardinality(Holders) + leaks + (IF manager = "idle" THEN 0 ELSE 1)
    BY <1>5 DEF FcInv, NodeAccounted
  <2>3. leaks \in Nat
    BY DEF FcInv, FcTypeOK
  <2> QED
    BY <2>1, <2>2, <2>3, <1>3, <1>4, <1>5 DEF NodeAccounted
<1>7. NewIsRenamed' /\ UpdatingIsFetching' /\ DeletingIsManager'
  BY <1>1, <1>3, <1>4 DEF FcInv, NewIsRenamed, UpdatingIsFetching, DeletingIsManager
<1>8. MarkedByOne'
  <2>1. r \in Working
    BY <1>1 DEF Working, Updaters
  <2>2. ~bypassed' => Working' = {}
    BY <2>1, <1>4, <1>5 DEF FcInv, MarkedByOne
  <2> QED
    BY <2>2 DEF MarkedByOne
<1>9. ASSUME ~raced', leaks' = 0
      PROVE  SizeOfNode' /\ FileOfNode'
  <2>1. /\ ~raced /\ leaks = 0 /\ SizeOfNode /\ FileOfNode
        /\ ~node.deleting /\ manager = "idle"
    BY <1>9, <1>1, <1>4, UserFacts DEF FcInv
  <2>2. size' = cl[r].new
    BY <2>1, <1>0, <1>2, <1>4, EntryTypes DEF SizeOfNode
  <2>3. SizeOfNode'
    BY <2>1, <2>2, <1>3 DEF SizeOfNode
  <2>4. FileOfNode'
    BY <2>1, <1>1, <1>3, <1>4 DEF FileOfNode
  <2> QED
    BY <2>3, <2>4
<1> QED
  BY <1>3, <1>5, <1>6, <1>7, <1>8, <1>9 DEF FcInv

(* The node is freed only by its last user.                                 *)
LEMMA FreeStep ==
  ASSUME FcInv, FcTypeOK', NEW r \in Clients, ngx_http_file_cache_free(r)
  PROVE  FcInv'
<1>0. /\ node \in CacheNode /\ node' \in CacheNode /\ leaks \in Nat
      /\ cl \in [Clients -> RequestCache] /\ cl' \in [Clients -> RequestCache]
  BY DEF FcInv, FcTypeOK
<1>1. /\ \A q \in Clients \ {r} : cl'[q] = cl[q]
      /\ cl[r].st \in {"served", "fetch"} /\ cl'[r].st = "done"
      /\ cl'[r].new = 0 /\ ~cl'[r].updating
      /\ bypassed' = (bypassed /\ Working' # {})
      /\ UNCHANGED <<file, size, manager, leaks, raced>>
  BY <1>0 DEF ngx_http_file_cache_free, Leave, Done, NoCache, RequestCache
<1> DEFINE left == [node EXCEPT !.count = @ - 1,
              !.updating = @ /\ ~(cl[r].updating /\ node.lock = cl[r].lock)]
<1>2. /\ left.here = node.here /\ left.count = node.count - 1
      /\ left.exists = node.exists /\ left.fs_size = node.fs_size
      /\ left.deleting = node.deleting /\ left.lock = node.lock
      /\ ~cl[r].updating => (left.updating <=> node.updating)
      /\ left \in CacheNode
  <2>1. PICK c \in Int : c = node.count - 1
    BY <1>0, EntryTypes
  <2>2. left = [node EXCEPT !.count = c,
              !.updating = @ /\ ~(cl[r].updating /\ node.lock = cl[r].lock)]
    BY <2>1
  <2> QED
    BY <2>1, <2>2, <1>0 DEF CacheNode
<1>3. \/ /\ node'.here = node.here /\ node'.count = node.count - 1
         /\ node'.exists = node.exists /\ node'.fs_size = node.fs_size
         /\ node'.deleting = node.deleting /\ node'.lock = node.lock
         /\ ~cl[r].updating => (node'.updating <=> node.updating)
      \/ node' = NoNode /\ ~node.exists /\ node.count - 1 = 0
  <2>1. \/ node' = [left EXCEPT !.error = TRUE]
        \/ node' = NoNode /\ ~left.exists /\ left.count = 0
        \/ node' = left
    BY Zenon DEF ngx_http_file_cache_free
  <2>2. CASE node' = [left EXCEPT !.error = TRUE]
    <3> HIDE DEF left
    <3>1. /\ node'.here = left.here /\ node'.count = left.count
          /\ node'.exists = left.exists /\ node'.fs_size = left.fs_size
          /\ node'.deleting = left.deleting /\ node'.lock = left.lock
          /\ node'.updating = left.updating
      BY <2>2, <1>2 DEF CacheNode
    <3> QED
      BY <3>1, <1>2
  <2> HIDE DEF left
  <2> QED
    BY <2>1, <2>2, <1>2
<1> HIDE DEF left
<1>4. /\ Holders' = Holders \ {r} /\ Working' = Working \ {r}
      /\ r \in Holders /\ node.here
  BY <1>1, OneMoves, UserFacts
<1>5. /\ Cardinality(Holders') = Cardinality(Holders) - 1 /\ Cardinality(Holders) \in Nat
      /\ Cardinality(Holders') \in Nat
      /\ Cardinality(Holders') = 0 => Holders' = {}
  BY <1>4, HoldersCount, FS_RemoveElement, FS_CardinalityType, FS_EmptySet
<1>6. node.count = Cardinality(Holders) + leaks + (IF manager = "idle" THEN 0 ELSE 1)
  BY <1>4 DEF FcInv, NodeAccounted
<1>7. node' = NoNode /\ node.count - 1 = 0 => Holders' = {} /\ leaks = 0 /\ manager = "idle"
  BY <1>0, <1>5, <1>6
<1>8. NodeAccounted'
  <2>1. CASE node' = NoNode /\ node.count - 1 = 0
    BY <2>1, <1>1, <1>7 DEF NodeAccounted, NoNode
  <2>2. CASE node'.here = node.here /\ node'.count = node.count - 1
    BY <2>2, <1>0, <1>1, <1>4, <1>5, <1>6 DEF NodeAccounted
  <2> QED
    BY <2>1, <2>2, <1>3
<1>9. NewIsRenamed' /\ UpdatingIsFetching'
  BY <1>1 DEF FcInv, NewIsRenamed, UpdatingIsFetching
<1>10. DeletingIsManager'
  BY <1>1, <1>3, <1>7 DEF FcInv, DeletingIsManager, NoNode
<1>11. MarkedByOne'
  <2>1. CASE Working' = {}
    BY <2>1 DEF MarkedByOne
  <2>2. CASE Working' # {} /\ r \in Working
    BY <2>2, <1>1, <1>4 DEF FcInv, MarkedByOne
  <2>3. CASE Working' # {} /\ r \notin Working
    <3>1. ~cl[r].updating /\ Working' = Working
      BY <2>3, <1>4, WorkingFacts
    <3>2. (node'.updating <=> node.updating) /\ node'.lock = node.lock
      BY <2>3, <3>1, <1>3, <1>4, <1>7, WorkingFacts
    <3>3. \A q \in Working : cl'[q] = cl[q]
      BY <2>3, <1>1 DEF Working, Updaters
    <3>4. ~bypassed' => ~bypassed
      BY <2>3, <1>1
    <3> QED
      BY <3>1, <3>2, <3>3, <3>4, StillMarked DEF FcInv
  <2> QED
    BY <2>1, <2>2, <2>3
<1>12. ASSUME ~raced', leaks' = 0
       PROVE  SizeOfNode' /\ FileOfNode'
  <2>1. /\ ~raced /\ leaks = 0 /\ SizeOfNode /\ FileOfNode
        /\ ~node.deleting /\ manager = "idle"
    BY <1>12, <1>1, UserFacts DEF FcInv
  <2>2. /\ node'.fs_size = node.fs_size /\ ~node'.deleting
        /\ ~node'.exists => node'.fs_size = 0
    BY <2>1, <1>3 DEF SizeOfNode, NoNode
  <2>3. SizeOfNode'
    BY <2>1, <2>2, <1>1 DEF SizeOfNode
  <2>4. \A q \in Clients : cl'[q].st = "renamed" => q # r
    BY <1>1
  <2>5. (\A q \in Clients : cl'[q].new = 0) => \A q \in Clients : cl[q].new = 0
    BY <1>1 DEF FcInv, NewIsRenamed
  <2>6. FileOfNode'
    BY <2>1, <2>2, <2>4, <2>5, <1>1 DEF FileOfNode
  <2> QED
    BY <2>3, <2>6
<1>13. ~node'.here => node' = NoNode
  BY <1>3, <1>4 DEF NoNode
<1> QED
  BY <1>8, <1>9, <1>10, <1>11, <1>12, <1>13 DEF FcInv

LEMMA WorkerDiesStep ==
  ASSUME FcInv, FcTypeOK', NEW r \in Clients, WorkerDies(r)
  PROVE  FcInv'
<1>0. /\ leaks \in Nat /\ leaks' = leaks + 1 /\ node.count \in Int
      /\ cl \in [Clients -> RequestCache] /\ cl' \in [Clients -> RequestCache]
      /\ bypassed' = (bypassed /\ Working' # {})
      /\ UNCHANGED <<node, file, size, manager, raced>>
  BY EntryTypes DEF FcInv, FcTypeOK, WorkerDies, Leave
<1>1. /\ \A q \in Clients \ {r} : cl'[q] = cl[q]
      /\ r \in Holders /\ cl'[r].st = "done"
      /\ cl'[r].new = 0 /\ ~cl'[r].updating
  BY <1>0 DEF WorkerDies, Leave, Done, NoCache, RequestCache
<1>2. Holders' = Holders \ {r} /\ Working' = Working \ {r} /\ node.here
  BY <1>1, OneMoves, UserFacts DEF Holders
<1>3. Cardinality(Holders') = Cardinality(Holders) - 1 /\ Cardinality(Holders) \in Nat
  BY <1>1, <1>2, HoldersCount
<1>4. NodeAccounted'
  <2>1. node.count = Cardinality(Holders) + leaks + (IF manager = "idle" THEN 0 ELSE 1)
    BY <1>2 DEF FcInv, NodeAccounted
  <2> QED
    BY <2>1, <1>0, <1>2, <1>3 DEF NodeAccounted
<1>5. NewIsRenamed' /\ UpdatingIsFetching' /\ DeletingIsManager'
  BY <1>0, <1>1 DEF FcInv, NewIsRenamed, UpdatingIsFetching, DeletingIsManager
<1>6. MarkedByOne'
  BY <1>0, <1>1, <1>2 DEF FcInv, MarkedByOne, Working, Updaters
<1>7. leaks' # 0 /\ node'.here
  BY <1>0, <1>2
<1> QED
  BY <1>4, <1>5, <1>6, <1>7 DEF FcInv

(* The steps of the manager and of the clock leave the requests alone.      *)
LEMMA ManagerStep ==
  ASSUME FcInv, FcTypeOK',
         \/ LockAges \/ ngx_http_file_cache_expire
         \/ Unlink   \/ ngx_http_file_cache_delete
  PROVE  FcInv'
<1>0. /\ node \in CacheNode /\ node' \in CacheNode /\ leaks \in Nat /\ size \in Int
      /\ node.count \in Int /\ node.count + 1 \in Int /\ node.count - 1 \in Int
      /\ node.fs_size \in Nat
      /\ cl \in [Clients -> RequestCache]
  BY EntryTypes DEF FcInv, FcTypeOK
<1>1. UNCHANGED <<cl, leaks, bypassed, raced>>
  BY DEF LockAges, ngx_http_file_cache_expire, Unlink, ngx_http_file_cache_delete
<1>2. /\ Holders' = Holders /\ Working' = Working /\ Cardinality(Holders) \in Nat
      /\ Cardinality(Holders) = 0 => Holders = {}
      /\ NewIsRenamed' /\ UpdatingIsFetching'
  BY <1>1, HoldersCount DEF FcInv, Holders, Working, Updaters, NewIsRenamed, UpdatingIsFetching
<1>3. CASE LockAges
  <2>1. /\ node'.here = node.here /\ node'.count = node.count
        /\ node'.exists = node.exists /\ node'.fs_size = node.fs_size
        /\ node'.deleting = node.deleting /\ node'.lock = node.lock
        /\ node'.updating = node.updating
        /\ node.updating /\ UNCHANGED <<file, size, manager>>
    BY <1>3, <1>0 DEF LockAges, CacheNode
  <2>2. NodeAccounted' /\ DeletingIsManager'
    BY <2>1, <1>1, <1>2 DEF FcInv, NodeAccounted, DeletingIsManager
  <2>3. MarkedByOne'
    BY <2>1, <1>1, <1>2 DEF FcInv, MarkedByOne
  <2>4. ~raced' /\ leaks' = 0 => SizeOfNode' /\ FileOfNode'
    BY <2>1, <1>1, <1>2 DEF FcInv, SizeOfNode, FileOfNode
  <2>5. node'.here
    BY <2>1 DEF FcInv, NoNode
  <2> QED
    BY <2>2, <2>3, <2>4, <2>5, <1>2 DEF FcInv
<1>4. CASE ngx_http_file_cache_expire
  <2>1. /\ node.here /\ node.count = 0 /\ manager = "idle"
        /\ Holders = {} /\ leaks = 0 /\ Working = {} /\ ~node.deleting
    BY <1>4, <1>0, <1>2, WorkingFacts
       DEF ngx_http_file_cache_expire, FcInv, NodeAccounted, DeletingIsManager
  <2>2. Cardinality(Holders) = 0
    BY <2>1, FS_EmptySet
  <2>3. CASE node.exists
    <3>1. /\ node' = [node EXCEPT !.count = node.count + 1, !.deleting = TRUE]
          /\ size' = size - node.fs_size /\ manager' = "unlink" /\ UNCHANGED file
      BY <2>3, <1>4 DEF ngx_http_file_cache_expire
    <3>2. /\ node'.here /\ node'.count = 1 /\ node'.deleting
          /\ node'.exists /\ node'.fs_size = node.fs_size
      BY <3>1, <2>1, <2>3, <1>0 DEF CacheNode
    <3>3. NodeAccounted' /\ DeletingIsManager'
      BY <3>1, <3>2, <2>1, <2>2, <1>1, <1>2 DEF NodeAccounted, DeletingIsManager
    <3>4. ~raced' /\ leaks' = 0 => SizeOfNode' /\ FileOfNode'
      BY <3>1, <3>2, <2>1, <1>0, <1>1, <1>2 DEF FcInv, SizeOfNode, FileOfNode
    <3> QED
      BY <3>2, <3>3, <3>4, <2>1, <1>2 DEF FcInv, MarkedByOne
  <2>4. CASE ~node.exists
    <3>1. node' = NoNode /\ UNCHANGED <<size, manager, file>>
      BY <2>4, <1>4 DEF ngx_http_file_cache_expire
    <3>2. NodeAccounted' /\ DeletingIsManager'
      BY <3>1, <2>1, <1>1, <1>2 DEF NodeAccounted, DeletingIsManager, NoNode
    <3>3. ~raced' /\ leaks' = 0 => SizeOfNode' /\ FileOfNode'
      BY <3>1, <2>1, <2>4, <1>1, <1>2 DEF FcInv, SizeOfNode, FileOfNode, NoNode
    <3> QED
      BY <3>1, <3>2, <3>3, <2>1, <1>2 DEF FcInv, MarkedByOne
  <2> QED
    BY <2>3, <2>4
<1>5. CASE Unlink
  <2>1. /\ manager = "unlink" /\ manager' = "relock" /\ file' = 0
        /\ UNCHANGED <<node, size>>
    BY <1>5 DEF Unlink
  <2>2. NodeAccounted' /\ DeletingIsManager' /\ MarkedByOne'
    BY <2>1, <1>1, <1>2 DEF FcInv, NodeAccounted, DeletingIsManager, MarkedByOne
  <2>3. ~raced' /\ leaks' = 0 => SizeOfNode' /\ FileOfNode'
    BY <2>1, <1>1, <1>2
       DEF FcInv, SizeOfNode, FileOfNode, Holders, DeletingIsManager
  <2> QED
    BY <2>1, <2>2, <2>3, <1>2 DEF FcInv
<1>6. CASE ngx_http_file_cache_delete
  <2>1. /\ manager = "relock" /\ manager' = "idle" /\ UNCHANGED <<file, size>>
        /\ node.here /\ node.deleting
        /\ node.count = Cardinality(Holders) + leaks + 1
    BY <1>6 DEF ngx_http_file_cache_delete, FcInv, NodeAccounted, DeletingIsManager
  <2>2. CASE node.count = 1
    <3>1. node' = NoNode /\ Holders = {} /\ leaks = 0 /\ Working = {}
      BY <2>1, <2>2, <1>0, <1>2, <1>6, WorkingFacts DEF ngx_http_file_cache_delete
    <3>2. NodeAccounted' /\ DeletingIsManager'
      BY <3>1, <2>1, <1>1, <1>2 DEF NodeAccounted, DeletingIsManager, NoNode
    <3>3. ~raced' /\ leaks' = 0 => SizeOfNode' /\ FileOfNode'
      BY <3>1, <2>1, <1>1, <1>2 DEF FcInv, SizeOfNode, FileOfNode, NoNode
    <3> QED
      BY <3>1, <3>2, <3>3, <1>2 DEF FcInv, MarkedByOne
  <2>3. CASE node.count # 1
    <3>1. node' = [node EXCEPT !.count = node.count - 1, !.deleting = FALSE]
      BY <2>3, <1>6 DEF ngx_http_file_cache_delete
    <3>2. /\ node'.here /\ node'.count = node.count - 1 /\ ~node'.deleting
          /\ node'.lock = node.lock /\ node'.updating = node.updating
      BY <3>1, <2>1, <1>0 DEF CacheNode
    <3>3. NodeAccounted' /\ DeletingIsManager'
      BY <3>2, <2>1, <1>0, <1>1, <1>2 DEF NodeAccounted, DeletingIsManager
    <3>4. MarkedByOne'
      BY <3>2, <1>1, <1>2 DEF FcInv, MarkedByOne
    <3>5. raced \/ leaks # 0
      <4>1. ~raced /\ leaks = 0 => Cardinality(Holders) = 0
        BY <2>1, FS_EmptySet DEF FcInv, SizeOfNode
      <4> QED
        BY <4>1, <2>1, <2>3
    <3> QED
      BY <3>2, <3>3, <3>4, <3>5, <1>1, <1>2 DEF FcInv
  <2> QED
    BY <2>2, <2>3
<1> QED
  BY <1>3, <1>4, <1>5, <1>6

LEMMA FcInvInit == FcInit => FcInv
<1> SUFFICES ASSUME FcInit PROVE FcInv
  OBVIOUS
<1> USE FileCacheAssumption DEF FcInit
<1>1. Holders = {} /\ Working = {} /\ \A r \in Clients : cl[r] = NoCache
  BY DEF Holders, Working, Updaters, NoCache
<1>2. /\ node \in CacheNode /\ node.fs_size = file /\ ~node.updating /\ ~node.deleting
      /\ node.count = 0 /\ (node.here \/ node = NoNode)
      /\ ~node.exists => node.fs_size = 0
  <2>1. CASE file = 0
    BY <2>1 DEF CacheNode, NoNode
  <2>2. CASE file # 0
    <3>1. node = [NoNode EXCEPT !.here = TRUE, !.exists = TRUE, !.fs_size = file]
      BY <2>2
    <3>2. file \in Nat
      OBVIOUS
    <3>3. node = [here |-> TRUE, count |-> 0, exists |-> TRUE, error |-> FALSE,
                  updating |-> FALSE, deleting |-> FALSE, lock |-> 0, aged |-> TRUE,
                  fs_size |-> file]
      BY <3>1 DEF NoNode
    <3> HIDE DEF FcInit
    <3>4. node \in CacheNode
      BY <3>2, <3>3 DEF CacheNode
    <3>5. /\ node.fs_size = file /\ ~node.updating /\ ~node.deleting
          /\ node.count = 0 /\ node.here /\ node.exists
      BY <3>3
    <3> QED
      BY <3>4, <3>5
  <2> QED
    BY <2>1, <2>2
<1>3. FcTypeOK
  <2>1. cl \in [Clients -> RequestCache]
    BY DEF RequestCache, NoCache, CacheLabels
  <2>2. file \in Nat /\ size \in Int /\ leaks \in Nat
    OBVIOUS
  <2>3. manager \in {"idle", "unlink", "relock"} /\ bypassed \in BOOLEAN /\ raced \in BOOLEAN
    OBVIOUS
  <2> QED
    BY <1>2, <2>1, <2>2, <2>3, Zenon DEF FcTypeOK
<1>4. NodeAccounted /\ DeletingIsManager /\ MarkedByOne
  <2>1. Cardinality(Holders) = 0
    BY <1>1, FS_EmptySet
  <2> QED
    BY <2>1, <1>1, <1>2 DEF NodeAccounted, DeletingIsManager, MarkedByOne
<1>5. NewIsRenamed /\ UpdatingIsFetching
  BY <1>1 DEF NewIsRenamed, UpdatingIsFetching, NoCache
<1>6. SizeOfNode /\ FileOfNode
  BY <1>1, <1>2 DEF SizeOfNode, FileOfNode, NoCache
<1> QED
  BY <1>2, <1>3, <1>4, <1>5, <1>6 DEF FcInv

LEMMA FcInvStep ==
  ASSUME FcInv, [FcNext]_fcVars
  PROVE  FcInv'
<1>1. FcTypeOK'
  BY FcTypeStep DEF FcInv
<1>2. CASE UNCHANGED fcVars
  BY <1>1, <1>2
     DEF fcVars, FcInv, NodeAccounted, Holders, Working, Updaters, NewIsRenamed, UpdatingIsFetching,
         DeletingIsManager, MarkedByOne, SizeOfNode, FileOfNode
<1> QED
  BY <1>1, <1>2, FcCases, ExistsStep, ReadStep, LockStep, LockWaitStep, RenameStep,
     UpdateStep, FreeStep, WorkerDiesStep, ManagerStep

(* The variables of the file cache keep their types.                        *)
THEOREM FileCacheTypes == FcSpec => []FcTypeOK
<1>1. FcInit => FcTypeOK
  BY FcInvInit DEF FcInv
<1>2. FcTypeOK /\ [FcNext]_fcVars => FcTypeOK'
  BY FcTypeStep
<1> QED
  BY <1>1, <1>2, PTL DEF FcSpec

LEMMA FileCacheInvariant == FcSpec => []FcInv
<1>1. FcInv /\ [FcNext]_fcVars => FcInv'
  BY FcInvStep
<1> QED
  BY <1>1, FcInvInit, PTL DEF FcSpec

(* Of all requests that may rename a file into the place of the entry and   *)
(* update its node, marked or not, there is one at a time, unless one of    *)
(* those at work on the entry has gone past the mark.                       *)
THEOREM OneUpdaterUnlessBypassed == FcSpec => []SingleUpdater
<1>1. FcInv => SingleUpdater
  <2> SUFFICES ASSUME FcInv, ~bypassed PROVE Cardinality(Updaters) <= 1
    BY DEF SingleUpdater
  <2>1. CASE Updaters = {}
    BY <2>1, FS_EmptySet
  <2>2. CASE Updaters # {}
    <3>1. PICK r \in Updaters : Updaters = {r}
      BY <2>2 DEF FcInv, MarkedByOne, Working
    <3>2. Cardinality(Updaters) = 1
      BY <3>1, FS_Singleton, Zenon
    <3> QED
      BY <3>2
  <2> QED
    BY <2>1, <2>2
<1> QED
  BY <1>1, FileCacheInvariant, PTL

(* Whatever the requests, their deaths and the manager do, in any order,    *)
(* with the lock of new entries on or off, the count of the node is the     *)
(* number of its users, so that it is never freed under one of them; the    *)
(* size of the cache is that of its file unless the entry raced; and one    *)
(* request at a time may replace it unless one has gone past the mark.      *)
THEOREM CacheIsAccounted == FcSpec => []CacheAccounted
<1>1. FcInv => NodeAccounted /\ SizeAccounted
  <2> SUFFICES ASSUME FcInv PROVE NodeAccounted /\ SizeAccounted
    OBVIOUS
  <2>1. NodeAccounted
    BY DEF FcInv
  <2>2. SizeAccounted
    <3> SUFFICES ASSUME ~raced, Holders = {}, manager = "idle", leaks = 0
                 PROVE  size = file
      BY DEF SizeAccounted
    <3>1. SizeOfNode /\ FileOfNode /\ ~node.deleting
      BY DEF FcInv, DeletingIsManager
    <3>2. \A r \in Clients : cl[r].new = 0
      BY DEF FcInv, NewIsRenamed, Holders
    <3> QED
      BY <3>1, <3>2 DEF SizeOfNode, FileOfNode
  <2> QED
    BY <2>1, <2>2
<1>2. NodeAccounted /\ SingleUpdater /\ SizeAccounted => CacheAccounted
  BY DEF CacheAccounted
<1> QED
  BY <1>1, <1>2, FileCacheInvariant, OneUpdaterUnlessBypassed, PTL
=============================================================================
