---------------------------- MODULE HttpRequest -----------------------------
(***************************************************************************)
(* The life of one HTTP request with its subrequests: finalization and the  *)
(* counts of ngx_http_request.c, ngx_http_subrequest, the posted requests,  *)
(* the postpone filter that puts the output of a tree of requests in order, *)
(* and file reads in thread pools, which block the release of the memory.   *)
(*                                                                          *)
(* What a request's handler does is left open: it outputs a piece, starts a *)
(* subrequest, waits for an event of its own, or finalizes.  A piece is     *)
(* named by its place in the document: the path of the request and the      *)
(* number of the item in it.  An event handler with the loop over posted    *)
(* requests that ends it is several steps, during which nothing else runs   *)
(* (AtRest).                                                                *)
(***************************************************************************)
EXTENDS Integers, Sequences, FiniteSets

CONSTANTS
  Main,        \* the main request
  Subs,        \* bound: the subrequests
  MaxItems,    \* bound: the pieces and subrequests of one request
  Nobody       \* no request

ASSUME HttpRequestAssumption ==
  /\ IsFiniteSet(Subs)
  /\ Main \notin Subs
  /\ Nobody \notin Subs \cup {Main}
  /\ MaxItems \in Nat

VARIABLES
  hreq,        \* the requests of the tree
  hcon         \* the connection and the shared fields of the main request

hrVars == <<hreq, hcon>>

Tree == {Main} \cup Subs

HrInit ==
  /\ hreq = [r \in Tree |->
       [st |-> "none",         \* what its write_event_handler is
        parent |-> Nobody, path |-> <<>>,
        items |-> 0,           \* the items it has output, for paths
        asked |-> FALSE,       \* it has waited for a server
        postponed |-> <<>>,    \* r->postponed
        aio |-> FALSE,         \* r->aio, with r->buffered
        read |-> <<>>,         \* the piece being read
        bg |-> FALSE, waited |-> FALSE, done |-> FALSE, logged |-> FALSE]]
  /\ hcon = [active |-> Main,  \* c->data
             posted |-> <<>>,  \* r->main->posted_requests
             count |-> 0, blocked |-> 0,
             error |-> FALSE,  \* c->error
             buffered |-> FALSE,  \* c->buffered
             wtimer |-> FALSE,    \* c->write->timer_set
             freed |-> FALSE,
             stranded |-> FALSE,  \* it was terminated while a file was read, by
                                  \* a request that does not have the turn
             out |-> <<>>,     \* the pieces passed on, in order
             cur |-> Nobody,   \* whose handler is being run, if any
             loop |-> FALSE,   \* within ngx_http_run_posted_requests
             alerts |-> {}]    \* the "alert" messages logged

SetHr(bundle) == \E b \in {bundle} : hreq' = b.q /\ hcon' = b.c

Hr == [q |-> hreq, c |-> hcon]

AtRest == hcon.cur = Nobody /\ ~hcon.loop /\ ~hcon.freed

Item(r, piece) == [req |-> r, out |-> piece]

(* ngx_http_post_request                                                    *)
Post(b, r) == [b EXCEPT !.c.posted = Append(@, r)]

(* ngx_http_free_request and, but for keepalive, ngx_http_close_connection  *)
Free(b) == [b EXCEPT !.c.freed = TRUE, !.c.posted = <<>>, !.c.wtimer = FALSE,
                     !.c.cur = Nobody, !.c.loop = FALSE]

ngx_http_close_request(b) ==
  LET z == IF b.c.count = 0 THEN {"http request count is zero"} ELSE {}
      d == [b EXCEPT !.c.count = @ - 1, !.c.alerts = @ \cup z]
  IN  IF d.c.count # 0 \/ d.c.blocked # 0 THEN d ELSE Free(d)

(* ngx_http_finalize_connection: keepalive and lingering close also free    *)
(* the request.                                                             *)
ngx_http_finalize_connection(b) ==
  IF b.c.count # 1 THEN ngx_http_close_request(b) ELSE Free(b)

(* ngx_http_set_write_handler                                               *)
SetWriter(b, r) == [b EXCEPT !.q[r].st = "writer", !.c.wtimer = TRUE]

(* ngx_http_terminate_request: the cleanup handlers finalize the requests   *)
(* that wait for a server; unless a file is being read, the end of it all   *)
(* is posted.                                                               *)
Waiting(b) == {r \in Tree : b.q[r].st = "wait"}

(* Mutant: the end is posted although a file is being read.                 *)
TerminateBlocked(b, r) ==
  [b EXCEPT !.c.count = @ - Cardinality(Waiting(b)),
            !.q = [x \in Tree |-> IF x \in Waiting(b)
                                  THEN [b.q[x] EXCEPT !.st = "broken"]
                                  ELSE b.q[x]],
            !.c.posted = <<Main>>, !.q[Main].st = "terminate"]

ngx_http_terminate_request(b, r) ==
  LET n == Cardinality(Waiting(b))
      k == [b EXCEPT
             !.c.count = @ - n,
             !.q = [x \in Tree |-> IF x \in Waiting(b)
                                   THEN [b.q[x] EXCEPT !.st = "broken"] ELSE b.q[x]],
             !.c.alerts = @ \cup (IF n > 0 /\ b.c.count <= n
                                  THEN {"freed while it is terminated"} ELSE {})]
  IN  IF k.c.blocked # 0
      THEN [k EXCEPT !.c.error = TRUE, !.q[r].st = "finalizer",
                     !.c.stranded = @ \/ r # b.c.active]
      ELSE [k EXCEPT !.c.posted = <<Main>>, !.q[Main].st = "terminate"]

(* Mutant: the parent is not told that a subrequest out of turn has ended.  *)
FinalizeSubQuietly(b, r) ==
  IF b.q[r].aio \/ b.q[r].read # <<>> \/ b.q[r].postponed # <<>>
  THEN SetWriter(b, r)
  ELSE [b EXCEPT !.c.count = @ - 1, !.q[r].st = "empty",
                 !.q[r].logged = TRUE, !.q[r].done = TRUE]

(* ngx_http_finalize_request for a subrequest that is not in background.    *)
(* One whose turn to output has not come waits for the finalizer.           *)
FinalizeSub(b, r) ==
  LET p == b.q[r].parent
      head == b.q[p].postponed
  IN  IF b.q[r].aio \/ b.q[r].read # <<>> \/ b.q[r].postponed # <<>>
      THEN SetWriter(b, r)
      ELSE IF r = b.c.active
      THEN Post([b EXCEPT
             !.c.count = @ - 1, !.c.active = p,
             !.c.alerts = @ \cup (IF b.q[r].logged THEN {"logged again"} ELSE {}),
             !.q[r].st = "empty", !.q[r].logged = TRUE, !.q[r].done = TRUE,
             !.q[p].postponed = IF head # <<>> /\ head[1].req = r
                                THEN Tail(@) ELSE @], p)
      ELSE Post([b EXCEPT !.q[r].st = "finalizer",
                          !.q[r].done = b.q[r].waited], p)

FinalizeMain(b) ==
  IF \/ b.q[Main].aio \/ b.q[Main].read # <<>>
     \/ b.c.buffered \/ b.q[Main].postponed # <<>>
  THEN SetWriter(b, Main)
  ELSE IF b.c.active # Main
  THEN [b EXCEPT !.c.alerts = @ \cup {"http finalize non-active request"}]
  ELSE ngx_http_finalize_connection(
         [b EXCEPT !.q[Main].done = TRUE, !.q[Main].st = "empty",
                   !.c.wtimer = FALSE])

(* ngx_http_finalize_request(r, rc), rc NGX_OK or NGX_ERROR                  *)
ngx_http_finalize_request(b, r, failed) ==
  CASE failed \/ b.c.error -> ngx_http_terminate_request(b, r)
    [] ~failed /\ ~b.c.error /\ b.q[r].bg ->
         ngx_http_finalize_connection(
           [b EXCEPT !.q[r].logged = TRUE, !.q[r].done = TRUE, !.q[r].st = "empty"])
    [] ~failed /\ ~b.c.error /\ ~b.q[r].bg /\ r # Main -> FinalizeSub(b, r)
    [] OTHER -> FinalizeMain(b)

----------------------------------------------------------------------------
(* ngx_http_postpone_filter_add                                             *)
Add(items, piece) ==
  IF piece = <<>> THEN items
  ELSE IF items # <<>> /\ items[Len(items)].req = Nobody
  THEN [items EXCEPT ![Len(items)].out = Append(@, piece)]
  ELSE Append(items, Item(Nobody, <<piece>>))

(* The pieces the loop of the filter passes on, before the first            *)
(* subrequest.                                                              *)
FirstReq(items) ==
  IF \E i \in 1..Len(items) : items[i].req # Nobody
  THEN CHOOSE i \in 1..Len(items) : /\ items[i].req # Nobody
                                    /\ \A j \in 1..(i - 1) : items[j].req = Nobody
  ELSE Len(items) + 1

(* Two runs of pieces without a subrequest between them are one item.       *)
Pieces(items, k) == IF k > 1 THEN items[1].out ELSE <<>>

Pass(b, pieces) ==
  [b EXCEPT !.c.out = @ \o pieces]

(* Mutant: in turn a new piece goes out before those that were kept.        *)
PostponeNewFirst(b, r, piece) ==
  LET items == b.q[r].postponed
      k == FirstReq(items)
      new == IF piece = <<>> THEN <<>> ELSE <<piece>>
      passed == [Pass(b, new \o Pieces(items, k)) EXCEPT
                  !.q[r].postponed = SubSeq(items, k + 1, Len(items))]
  IN  CASE r # b.c.active -> [b EXCEPT !.q[r].postponed = Add(items, piece)]
        [] r = b.c.active /\ k <= Len(items) ->
             Post([passed EXCEPT !.c.active = items[k].req], items[k].req)
        [] OTHER -> passed

(* ngx_http_postpone_filter: out of turn everything is kept; in turn what   *)
(* was kept goes first, up to a subrequest, which gets the turn.            *)
ngx_http_postpone_filter(b, r, piece) ==
  LET items == Add(b.q[r].postponed, piece)
      k == FirstReq(items)
      passed == [Pass(b, Pieces(items, k)) EXCEPT
                  !.q[r].postponed = SubSeq(items, k + 1, Len(items))]
  IN  CASE r # b.c.active -> [b EXCEPT !.q[r].postponed = items]
        [] r = b.c.active /\ k <= Len(items) ->
             Post([passed EXCEPT !.c.active = items[k].req], items[k].req)
        [] OTHER -> passed

(* ngx_http_writer.  The write filter fails when the connection has.        *)
ngx_http_writer(b, r) ==
  LET w == ngx_http_postpone_filter([b EXCEPT !.q[r].read = <<>>], r, b.q[r].read)
  IN  IF b.q[r].aio THEN [b EXCEPT !.c.wtimer = TRUE]
      ELSE IF b.c.error /\ r = b.c.active
      THEN ngx_http_finalize_request(w, r, TRUE)
      ELSE IF w.q[r].postponed # <<>> \/ (r = Main /\ w.c.buffered)
      THEN [w EXCEPT !.c.wtimer = TRUE]
      ELSE ngx_http_finalize_request([w EXCEPT !.q[r].st = "empty"], r, FALSE)

(* r->write_event_handler(r).  After its cleanup a request that waited for  *)
(* a server still has ngx_http_upstream_wr_check_broken_connection, which   *)
(* finalizes with NGX_DONE.                                                 *)
RunHandler(b, r) ==
  CASE b.q[r].st = "run" -> [b EXCEPT !.c.cur = r]
    [] b.q[r].st = "writer" -> ngx_http_writer(b, r)
    [] b.q[r].st = "finalizer" -> ngx_http_finalize_request(b, r, FALSE)
    [] b.q[r].st = "terminate" ->
         ngx_http_close_request([b EXCEPT !.c.count = 1])
    [] b.q[r].st = "broken" -> ngx_http_finalize_connection(b)
    [] OTHER -> b

(* One round of ngx_http_run_posted_requests, which ends event handlers.    *)
ngx_http_run_posted_requests ==
  /\ hcon.cur = Nobody /\ hcon.loop /\ ~hcon.freed
  /\ IF hcon.posted = <<>>
     THEN SetHr([Hr EXCEPT !.c.loop = FALSE])
     ELSE SetHr(RunHandler([Hr EXCEPT !.c.posted = Tail(@)], Head(hcon.posted)))

----------------------------------------------------------------------------
(* ngx_http_process_request, the header has been read                       *)
ngx_http_process_request ==
  /\ hreq[Main].st = "none"
  /\ hreq' = [hreq EXCEPT ![Main].st = "run"]
  /\ hcon' = [hcon EXCEPT !.count = 1, !.cur = Main, !.loop = TRUE]

(* The handler being run outputs a piece ...                                *)
Output(r) ==
  /\ hcon.cur = r /\ hreq[r].items < MaxItems
  /\ ~hreq[r].bg /\ ~hreq[r].aio
  /\ LET n == hreq[r].items + 1
     IN  SetHr(ngx_http_postpone_filter([Hr EXCEPT !.q[r].items = n],
                                        r, Append(hreq[r].path, n)))

(* ... which the client's socket may not take at once ...                   *)
SocketFull ==
  /\ hcon.cur = hcon.active /\ hcon.out # <<>> /\ ~hcon.buffered
  /\ hcon' = [hcon EXCEPT !.buffered = TRUE]
  /\ UNCHANGED hreq

(* ... or a piece that a thread has to read first:                          *)
(* ngx_http_copy_thread_handler                                             *)
ngx_http_copy_thread_handler(r) ==
  /\ hcon.cur = r /\ hreq[r].items < MaxItems
  /\ ~hreq[r].bg /\ ~hreq[r].aio
  /\ LET n == hreq[r].items + 1
     IN  SetHr([Hr EXCEPT !.q[r].items = n, !.q[r].aio = TRUE,
                          !.q[r].read = Append(hreq[r].path, n),
                          !.c.blocked = @ + 1])

(* ngx_http_subrequest                                                      *)
ngx_http_subrequest(r) ==
  /\ hcon.cur = r /\ hreq[r].items < MaxItems
  /\ ~hreq[r].bg /\ ~hreq[r].aio
  /\ \E s \in Subs, bg, waited \in BOOLEAN :
       /\ hreq[s].st = "none"
       /\ bg => ~waited
       /\ LET n == hreq[r].items + 1
              b == [Hr EXCEPT
                     !.q[r].items = n,
                     !.q[s].st = "run", !.q[s].parent = r, !.q[s].bg = bg,
                     !.q[s].waited = waited,
                     !.q[s].path = Append(hreq[r].path, n), !.c.count = @ + 1]
              here == hcon.active = r /\ hreq[r].postponed = <<>>
          IN  SetHr(Post(IF bg THEN b
                         ELSE [b EXCEPT !.q[r].postponed = Append(@, Item(s, <<>>)),
                                        !.c.active = IF here THEN s ELSE @], s))

(* The handler returns to wait for its server, once ...                     *)
Suspend(r) ==
  /\ hcon.cur = r /\ ~hreq[r].asked /\ ~hreq[r].aio
  /\ SetHr([Hr EXCEPT !.q[r].st = "wait", !.q[r].asked = TRUE, !.c.cur = Nobody])

(* ... or finalizes the request, after its last buffer, which a request    *)
(* with subrequests always sends (ngx_http_send_special).                   *)
Finish(r) ==
  /\ hcon.cur = r
  /\ LET n == hreq[r].items + 1
         b == [Hr EXCEPT !.c.cur = Nobody, !.q[r].st = "empty"]
         last == ngx_http_postpone_filter([b EXCEPT !.q[r].items = n],
                                          r, Append(hreq[r].path, n))
     IN  \/ SetHr(ngx_http_finalize_request(b, r, TRUE))
         \/ /\ hreq[r].postponed = <<>>
            /\ SetHr(ngx_http_finalize_request(b, r, FALSE))
         \/ /\ ~hreq[r].bg /\ ~hreq[r].aio
            /\ SetHr(ngx_http_finalize_request(last, r, FALSE))

----------------------------------------------------------------------------
(* The server's answer lets a request go on.                                *)
ServerEvent(r) ==
  /\ AtRest /\ hreq[r].st = "wait"
  /\ hcon' = [hcon EXCEPT !.cur = r, !.loop = TRUE]
  /\ hreq' = [hreq EXCEPT ![r].st = "run"]

(* ngx_http_copy_thread_event_handler                                       *)
ngx_http_copy_thread_event_handler(r) ==
  /\ AtRest /\ hreq[r].aio
  /\ SetHr(RunHandler([Hr EXCEPT !.c.blocked = @ - 1, !.q[r].aio = FALSE,
                                 !.c.loop = TRUE], r))

(* ngx_http_request_handler for a write event or for the write timer        *)
ngx_http_request_handler ==
  /\ AtRest
  /\ \/ /\ hcon.buffered
        /\ SetHr(RunHandler([Hr EXCEPT !.c.buffered = FALSE, !.c.loop = TRUE],
                            hcon.active))
     \/ /\ hcon.wtimer
        /\ LET b == [Hr EXCEPT !.c.wtimer = FALSE, !.c.loop = TRUE]
           IN  SetHr(IF hreq[hcon.active].st = "writer"
                     THEN ngx_http_finalize_request(b, hcon.active, TRUE)
                     ELSE RunHandler(b, hcon.active))

(* The client closes: ngx_http_test_reading or the upstream's check.        *)
ngx_http_test_reading ==
  /\ AtRest /\ ~hcon.error
  /\ hreq[hcon.active].st \in {"writer", "wait"}
  /\ SetHr(ngx_http_finalize_request(
             [Hr EXCEPT !.c.error = TRUE, !.c.loop = TRUE,
                        !.q[hcon.active].st = "empty"], hcon.active, FALSE))

(* c->close: the worker shuts down and closes its connections.              *)
Shutdown ==
  /\ AtRest /\ ~hcon.error /\ hcon.count > 0
  /\ SetHr(ngx_http_terminate_request(
             [Hr EXCEPT !.c.error = TRUE, !.c.loop = TRUE, !.c.count = @ + 1],
             hcon.active))

(* What comes about by itself: the steps of a handler, the answers of       *)
(* servers, the reads of files and the timer.                               *)
HrProgress ==
  \/ ngx_http_run_posted_requests
  \/ \E r \in Tree :
       \/ Finish(r)
       \/ ServerEvent(r)
       \/ ngx_http_copy_thread_event_handler(r)
  \/ ngx_http_request_handler

HrNext ==
  \/ ngx_http_process_request
  \/ HrProgress
  \/ \E r \in Tree :
       \/ Output(r)
       \/ ngx_http_copy_thread_handler(r)
       \/ ngx_http_subrequest(r)
       \/ Suspend(r)
  \/ SocketFull
  \/ ngx_http_test_reading
  \/ Shutdown

HrSpec == HrInit /\ [][HrNext]_hrVars

----------------------------------------------------------------------------
(* The count of the main request is the number of requests of the tree that *)
(* have not been counted off, until the request is terminated: none is      *)
(* counted off twice, although a subrequest may finalize twice, before its  *)
(* turn to output and in it.  The messages of level "alert" that guard the  *)
(* finalization are never logged, and the memory is not freed while a       *)
(* thread reads into it, unless the request is stranded.                    *)
CountAccounted ==
  /\ ~hcon.error /\ ~hcon.freed /\ hreq[Main].st \notin {"none", "terminate"} =>
       hcon.count =
         Cardinality({s \in Subs : hreq[s].st # "none" /\ ~hreq[s].logged})
         + (IF hreq[Main].done THEN 0 ELSE 1)
  /\ ~hcon.stranded => hcon.alerts = {} /\ (hcon.freed => hcon.blocked = 0)

Before(x, y) ==
  \E i \in 1..Len(x) : /\ i <= Len(y) /\ x[i] < y[i]
                       /\ \A j \in 1..(i - 1) : x[j] = y[j]

(* Whatever order the subrequests answer in, the client gets the pieces in  *)
(* the order of the document, and all of them when the request ends well.   *)
OutputInOrder ==
  /\ \A i \in 1..(Len(hcon.out) - 1) : Before(hcon.out[i], hcon.out[i + 1])
  /\ hreq[Main].done =>
       \A r \in Tree, n \in 1..(MaxItems + 1) :
         /\ n <= hreq[r].items
         /\ \A s \in Subs : hreq[s].path # Append(hreq[r].path, n)
         => Append(hreq[r].path, n) \in {hcon.out[i] : i \in 1..Len(hcon.out)}

(* Every request ends and is freed: no subrequest waits for ever for its    *)
(* turn, nor does a terminated request for a file that was being read, but  *)
(* for a stranded one.                                                      *)
RequestEnds == hreq[Main].st = "run" ~> hcon.freed \/ hcon.stranded
=============================================================================
