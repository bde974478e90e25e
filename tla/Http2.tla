-------------------------------- MODULE Http2 -------------------------------
(***************************************************************************)
(* The output side of an HTTP/2 connection: ngx_http_v2.c and               *)
(* ngx_http_v2_filter_module.c.  The streams of a connection share a queue  *)
(* of frames, the socket and the connection's window, and each has a window *)
(* of its own.  A stream that can send no more is woken when its frames are *)
(* gone, when its window opens, or when the connection's does.              *)
(*                                                                          *)
(* Windows count units of the body.  Parsing, the reading of request        *)
(* bodies, pushes, changes of priority, the limits on frames and requests,  *)
(* rate limits and failing allocations are left out.  The request of a      *)
(* stream is the part of HttpRequest that matters here: it answers, or      *)
(* fails, and then waits in ngx_http_writer for its output to go.           *)
(***************************************************************************)
EXTENDS Integers, Sequences, FiniteSets, SequencesExt, FiniteSetsExt

CONSTANTS
  Streams,
  NoStream,       \* the stream of a control frame
  Prio,           \* rank and rel_weight of a stream's node: lower goes first
  FrameSize,      \* min(chunk_size, frame_size)
  MaxWindow,      \* NGX_HTTP_V2_MAX_WINDOW
  InitWindow,     \* NGX_HTTP_V2_DEFAULT_WINDOW, of the connection
  FirstWindows,   \* INITIAL_WINDOW_SIZE in the client's first SETTINGS frame
  Answers,        \* the responses of a stream's request: units, header_only, trailers
  Uploads,        \* the streams whose client does not end its side
  MaxFrames       \* bound: frames of the client but HEADERS

ASSUME Http2Assumption ==
  /\ Prio \in [Streams -> Nat]
  /\ NoStream \notin Streams
  /\ Answers \in [Streams -> SUBSET [units : Nat, only : BOOLEAN, trailers : BOOLEAN]]
  /\ \A s \in Streams : \A a \in Answers[s] : a.only => a.units = 0 /\ ~a.trailers
  /\ Uploads \subseteq Streams
  /\ {FrameSize, MaxWindow, InitWindow} \subseteq Nat \ {0}
  /\ InitWindow <= MaxWindow
  /\ FirstWindows \subseteq 0..MaxWindow
  /\ MaxFrames \in Nat

VARIABLE h2        \* ngx_http_v2_connection_t, with its connection and streams

----------------------------------------------------------------------------
(* A stream: none before its HEADERS came, open while its request works,    *)
(* sent when the response header is queued, writing in ngx_http_writer,     *)
(* closing in ngx_http_v2_close_stream_handler, closed.                     *)
Stream0 ==
  [st |-> "none",
   left |-> 0, more |-> FALSE,        \* r->out: units, and whether last_buf is in it
   trailers |-> FALSE,
   win |-> 0,                         \* send_window
   queued |-> 0,
   exhausted |-> FALSE,
   inClosed |-> FALSE, outClosed |-> FALSE, rst |-> FALSE,
   err |-> FALSE,                     \* fc->error
   posted |-> FALSE]                  \* fc->write is in ngx_posted_events

(* A frame of a stream or of the connection, in the order of sending.       *)
Frames ==
  [stream : Streams \cup {NoStream}, resets : Streams \cup {NoStream},
   kind : {"control", "headers", "data"}, len : Nat,
   blocked : BOOLEAN, begun : BOOLEAN, fin : BOOLEAN]
OfStream(s) == {f \in Frames : f.stream = s}

Control == [stream |-> NoStream, resets |-> NoStream, kind |-> "control", len |-> 0,
            blocked |-> FALSE, begun |-> FALSE, fin |-> FALSE]
Reset(s) == [Control EXCEPT !.resets = s]
HeadersFrame(s, fin) ==
  [Control EXCEPT !.stream = s, !.kind = "headers", !.blocked = TRUE, !.fin = fin]
DataFrame(s, n, fin) ==
  [Control EXCEPT !.stream = s, !.kind = "data", !.len = n, !.fin = fin]

(* ngx_http_v2_init and the client's first frame, which is SETTINGS: it is  *)
(* answered behind the SETTINGS and WINDOW_UPDATE of the server.            *)
HtInit ==
  \E first \in FirstWindows :
  h2 = [st |-> "open",                \* idle, ending (finalized), closed
        win |-> InitWindow, init |-> first,
        ready |-> TRUE,               \* c->write->ready
        error |-> FALSE, goaway |-> FALSE,
        out |-> <<Control, Control, Control>>, \* last_out, in the order of sending
        wait |-> <<>>,                \* waiting; stream->waiting is being in it
        str |-> [s \in Streams |-> Stream0],
        phase |-> "reading",          \* "" when no handler of the connection runs
        todo |-> {}, delta |-> 0,     \* of the loops over the streams
        rev |-> FALSE, wev |-> FALSE, \* the connection's events, posted
        credit |-> InitWindow,        \* the client's: what it has granted and not yet got
        frames |-> 0]

Processing(h) == {s \in Streams : h.str[s].st \notin {"none", "closed"}}

Lens(frames) == FoldSeq(LAMBDA f, n : f.len + n, 0, frames)

(* The elements of q that are in A, in their order.                         *)
Chosen(q, A) ==
  LET kept[i \in 0..Len(q)] ==
        IF i = 0 THEN <<>>
        ELSE IF q[i] \in A THEN Append(kept[i - 1], q[i]) ELSE kept[i - 1]
  IN kept[Len(q)]

InsertAfter(seq, i, new) == SubSeq(seq, 1, i) \o new \o SubSeq(seq, i + 1, Len(seq))

(* Frames that must follow what cannot be dropped or is half sent.          *)
ngx_http_v2_queue_blocked_frame(h, f) ==
  [h EXCEPT !.out = InsertAfter(@, SelectLastInSeq(@, LAMBDA o :
                                     o.blocked \/ o.stream = NoStream), <<f>>)]

(* Mutant: the walk does not stop at a frame that is half sent.             *)
QueuePastBlocked(h, s, new) ==
  [h EXCEPT !.out = InsertAfter(@, SelectLastInSeq(@, LAMBDA o :
                                     o.stream = NoStream \/ Prio[o.stream] <= Prio[s]), new),
            !.str[s].queued = @ + Len(new)]

(* Frames of stream s, by priority.  Those of one call follow one another,  *)
(* as a stream's own frame ends the walk.                                   *)
ngx_http_v2_queue_frame(h, s, new) ==
  [h EXCEPT !.out = InsertAfter(@, SelectLastInSeq(@, LAMBDA o :
                                     \/ o.blocked
                                     \/ o.stream = NoStream
                                     \/ Prio[o.stream] <= Prio[s]), new),
            !.str[s].queued = @ + Len(new)]

----------------------------------------------------------------------------
(* ngx_http_v2_send_output_queue: the socket takes k frames and perhaps a   *)
(* part of the next, its frame header with it or not (begun).  cur is the   *)
(* stream in whose ngx_http_v2_filter_send this happens.                    *)
Unwoken(h, cur, s) ==
  \/ s \in ToSet(h.wait)
  \/ s = cur
  \/ (h.str[s].exhausted /\ ~h.str[s].err)

(* The frame handlers of the frames that went, and ngx_http_v2_handle_frame *)
(* and _handle_stream.                                                      *)
FramesTaken(h, cur, k, begun) ==
  LET gone == SubSeq(h.out, 1, k)
      Gone(s) == Chosen(gone, OfStream(s))
      Touched(s) == Gone(s) # <<>> \/ (begun /\ h.out[k + 1].stream = s)
      After(s) ==
        [h.str[s] EXCEPT
           !.queued = @ - Len(Gone(s)),
           !.outClosed = @ \/ \E f \in ToSet(Gone(s)) : f.fin,
           !.posted = @ \/ (Touched(s) /\ ~Unwoken(h, cur, s))]
      rest == SubSeq(h.out, k + 1, Len(h.out))
  IN [h EXCEPT
        !.out = IF rest = <<>> THEN <<>>
                ELSE <<[Head(rest) EXCEPT !.blocked = TRUE, !.begun = @ \/ begun]>> \o Tail(rest),
        !.ready = (rest = <<>>),
        !.credit = @ - Lens(gone),
        !.str = [s \in Streams |-> After(s)]]

(* The send fails.  The loop has already reversed the links of the frames,  *)
(* and last_out is alone.                                                   *)
SendFailed(h) ==
  [h EXCEPT !.error = TRUE, !.out = <<Last(@)>>, !.wev = @ \/ (h.phase = "")]

(* What can come of it: NGX_ERROR is error, NGX_AGAIN is ~ready.            *)
ngx_http_v2_send_output_queue(h, cur) ==
  IF h.error \/ ~h.ready \/ h.out = <<>> THEN {h}
  ELSE {FramesTaken(h, cur, k, FALSE) : k \in 0..Len(h.out)}
       \cup {FramesTaken(h, cur, k, TRUE) :
               k \in {i \in 0..(Len(h.out) - 1) : h.out[i + 1].len > 0 /\ ~h.out[i + 1].begun}}
       \cup {SendFailed(h)}

----------------------------------------------------------------------------
(* Closing.                                                                 *)
----------------------------------------------------------------------------
(* Mutant: a stream waits for its frames to go although it has none.        *)
CloseAlwaysLater(h, s) == [h EXCEPT !.str[s].st = "closing"]

(* ngx_http_v2_close_stream.  A stream with frames in the queue goes on as  *)
(* close_stream_handler.  One whose output has not ended is reset; for one  *)
(* whose input has not, a WINDOW_UPDATE is queued.                          *)
ngx_http_v2_close_stream(h, s) ==
  LET x == h.str[s]
      told == IF x.rst \/ h.error \/ (x.outClosed /\ x.inClosed) THEN h
              ELSE ngx_http_v2_queue_blocked_frame(h, IF x.outClosed THEN Control ELSE Reset(s))
      g == [told EXCEPT !.str[s] = [Stream0 EXCEPT !.st = "closed"],
                        !.wait = Chosen(@, Streams \ {s})]
  IN IF x.queued > 0 THEN [h EXCEPT !.str[s].st = "closing"]
     ELSE [g EXCEPT !.rev = @ \/ (Processing(g) = {} /\ h.phase = "")]

(* Frames of a stream that nothing hinders from being dropped.              *)
Droppable(s) == {f \in OfStream(s) : ~f.blocked}

(* Mutant: the streams that wait for the window it gives back are not       *)
(* woken.                                                                   *)
CleanupWakesNone(h, s) ==
  LET dropped == Chosen(h.out, Droppable(s))
  IN [h EXCEPT !.out = Chosen(@, Frames \ Droppable(s)),
               !.win = @ + Lens(dropped),
               !.wait = Chosen(@, Streams \ {s}),
               !.str[s].queued = @ - Len(dropped)]

(* ngx_http_v2_filter_cleanup: the frames that have not begun to go are     *)
(* dropped, and their share of the connection's window is given back.       *)
ngx_http_v2_filter_cleanup(h, s) ==
  LET dropped == Chosen(h.out, Droppable(s))
      waiting == Chosen(h.wait, Streams \ {s})
      wake == h.win = 0 /\ Lens(dropped) > 0
  IN [h EXCEPT
        !.out = Chosen(@, Frames \ Droppable(s)),
        !.win = @ + Lens(dropped),
        !.wait = IF wake THEN <<>> ELSE waiting,
        !.str = [t \in Streams |->
                   [h.str[t] EXCEPT
                      !.queued = IF t = s THEN @ - Len(dropped) ELSE @,
                      !.posted = @ \/ (wake /\ t \in ToSet(waiting))]]]

(* ngx_http_terminate_request, for the request of a stream.                 *)
Terminate(h, s) == ngx_http_v2_close_stream(ngx_http_v2_filter_cleanup(h, s), s)

(* The read handler of a stream that has an error: ngx_http_test_reading    *)
(* for one that is being written, nothing for one that is being closed; a   *)
(* request at work may look at it or not (ngx_http_block_reading).          *)
Noticed(h, s) ==
  CASE h.str[s].st = "writing" -> {Terminate(h, s)}
    [] h.str[s].st = "closing" -> {h}
    [] h.str[s].st \in {"open", "sent"} -> {h, Terminate(h, s)}

(* ngx_http_v2_terminate_stream                                             *)
ngx_http_v2_terminate_stream(h, s) ==
  IF h.str[s].rst THEN {h}
  ELSE Noticed([ngx_http_v2_queue_blocked_frame(h, Reset(s)) EXCEPT
                  !.str[s].rst = TRUE, !.str[s].err = TRUE], s)

(* ngx_http_close_connection                                                *)
H2Closed(h) == [h EXCEPT !.st = "closed", !.out = <<>>, !.rev = FALSE, !.wev = FALSE,
                       !.phase = "", !.error = TRUE]

(* ngx_http_v2_finalize_connection, up to its loop.                         *)
ngx_http_v2_finalize_connection(h) ==
  LET last == IF h.error \/ h.goaway THEN {h}
              ELSE ngx_http_v2_send_output_queue(
                     [ngx_http_v2_queue_blocked_frame(h, Control) EXCEPT !.phase = "final"],
                     NoStream)
  IN {IF Processing(g) = {} THEN H2Closed(g)
      ELSE [g EXCEPT !.st = "ending", !.error = TRUE, !.out = <<>>, !.wait = <<>>,
                     !.rev = FALSE, !.wev = FALSE,
                     !.phase = "final", !.todo = Processing(g)] : g \in last}

(* ngx_http_v2_handle_connection                                            *)
ngx_http_v2_handle_connection(h) ==
  IF h.out # <<>> \/ Processing(h) # {} THEN h
  ELSE IF h.error \/ h.goaway THEN H2Closed(h)
  ELSE [h EXCEPT !.st = "idle"]

----------------------------------------------------------------------------
(* Sending.                                                                 *)
----------------------------------------------------------------------------
(* ngx_http_v2_flow_control, with ngx_http_v2_waiting_queue.                *)
Declined(h, s) == h.str[s].win <= 0 \/ h.win = 0

ngx_http_v2_flow_control(h, s) ==
  IF h.str[s].win <= 0 THEN [h EXCEPT !.str[s].exhausted = TRUE]
  ELSE IF h.win = 0 /\ s \notin ToSet(h.wait)
  THEN [h EXCEPT !.wait = InsertAfter(@, SelectLastInSeq(@, LAMBDA w : Prio[w] <= Prio[s]), <<s>>)]
  ELSE h

(* n units as DATA frames of stream s, the last with END_STREAM or followed *)
(* by trailers if that is all.                                              *)
DataFrames(s, n, all, trailers) ==
  LET k == IF n = 0 THEN 1 ELSE (n + FrameSize - 1) \div FrameSize
  IN [i \in 1..k |-> DataFrame(s, IF i < k THEN FrameSize ELSE n - (k - 1) * FrameSize,
                               all /\ i = k /\ ~trailers)]
     \o IF all /\ trailers THEN <<HeadersFrame(s, TRUE)>> ELSE <<>>

(* ngx_http_v2_send_chain, with ngx_http_v2_filter_send.                    *)
ngx_http_v2_send_chain(h, s) ==
  LET x == h.str[s]
      n == Min({x.left, h.win, Max({x.win, 0})})
      q == ngx_http_v2_queue_frame(h, s, DataFrames(s, n, n = x.left, x.trailers))
      rest == [q.str[s] EXCEPT !.win = @ - n, !.left = @ - n, !.more = n < x.left]
      g == [q EXCEPT !.win = @ - n, !.str[s] = rest]
  IN IF ~x.more \/ x.outClosed THEN {h}
     ELSE IF x.left > 0 /\ Declined(h, s) THEN {ngx_http_v2_flow_control(h, s)}
     ELSE {IF r.error THEN [r EXCEPT !.str[s].err = TRUE]
           ELSE IF n < x.left THEN ngx_http_v2_flow_control(r, s) ELSE r :
             r \in ngx_http_v2_send_output_queue(g, s)}

(* ngx_http_writer, and a first call of the output filters that ends in     *)
(* ngx_http_set_write_handler.                                              *)
StreamWriter(h, s) ==
  IF h.str[s].err THEN {Terminate(h, s)}
  ELSE {LET x == r.str[s] IN
        IF x.err THEN Terminate(r, s)
        ELSE IF x.more \/ x.queued > 0 THEN [r EXCEPT !.str[s].st = "writing"]
        ELSE ngx_http_v2_close_stream(r, s) : r \in ngx_http_v2_send_chain(h, s)}

(* The write handler of a stream.                                           *)
WriteHandler(h, s) ==
  CASE h.str[s].st = "writing" -> StreamWriter(h, s)
    [] h.str[s].st = "closing" -> {ngx_http_v2_close_stream(h, s)}
    [] OTHER -> {h}

----------------------------------------------------------------------------
(* What the request of a stream does, and its events.                       *)
----------------------------------------------------------------------------
(* ngx_http_v2_header_filter                                                *)
ngx_http_v2_header_filter(s) ==
  /\ h2.phase = "" /\ h2.str[s].st = "open"
  /\ IF h2.str[s].err THEN h2' = Terminate(h2, s)
     ELSE \E a \in Answers[s] :
          \E g \in ngx_http_v2_send_output_queue(
                     [ngx_http_v2_queue_blocked_frame(h2, HeadersFrame(s, a.only)) EXCEPT
                        !.str[s].queued = @ + 1], s) :
            h2' = IF g.error THEN Terminate([g EXCEPT !.str[s].err = TRUE], s)
                  ELSE [g EXCEPT !.str[s].st = "sent", !.str[s].left = a.units,
                                 !.str[s].more = ~a.only, !.str[s].trailers = a.trailers]

(* The body, all of it, goes to the output filters.                         *)
Body(s) ==
  /\ h2.phase = "" /\ h2.str[s].st = "sent"
  /\ h2' \in StreamWriter(h2, s)

(* ngx_http_finalize_request with an error: the upstream failed.            *)
Fail(s) ==
  /\ h2.phase = "" /\ h2.str[s].st \in {"open", "sent"}
  /\ h2' = Terminate(h2, s)

(* send_timeout expires in ngx_http_writer.                                 *)
SendTimeout(s) ==
  /\ h2.phase = "" /\ h2.str[s].st = "writing"
  /\ h2' = Terminate(h2, s)

(* The stream's write event, posted.                                        *)
PostedWrite(s) ==
  /\ h2.phase = "" /\ h2.str[s].posted
  /\ h2' \in WriteHandler([h2 EXCEPT !.str[s].posted = FALSE], s)

----------------------------------------------------------------------------
(* What the client sends.  Several frames may come in one read.             *)
----------------------------------------------------------------------------
CanRead == h2.st \in {"open", "idle"} /\ h2.phase \in {"", "reading"}
Read(h) == [h EXCEPT !.st = "open", !.phase = "reading"]
Counted == h2.frames < MaxFrames
Again(h) == [Read(h) EXCEPT !.frames = @ + 1]

(* ngx_http_v2_state_headers and ngx_http_v2_create_stream.                 *)
ngx_http_v2_create_stream(s) ==
  /\ CanRead /\ ~h2.goaway /\ h2.str[s].st = "none"
  /\ h2' = [Read(h2) EXCEPT !.str[s].st = "open", !.str[s].win = h2.init,
                            !.str[s].inClosed = s \notin Uploads]

(* ngx_http_v2_state_rst_stream                                             *)
ngx_http_v2_state_rst_stream(s) ==
  /\ CanRead /\ Counted /\ s \in Processing(h2)
  /\ h2' \in Noticed([Again(h2) EXCEPT !.str[s].inClosed = TRUE, !.str[s].outClosed = TRUE,
                                       !.str[s].err = TRUE], s)

(* ngx_http_v2_state_window_update for a stream, an increment of 0 too.     *)
StreamWindow(s) ==
  /\ CanRead /\ Counted /\ s \in Processing(h2)
  /\ \E n \in 0..MaxWindow :
       LET h == Again(h2)
           x == h.str[s]
           g == [h EXCEPT !.str[s].win = @ + n, !.str[s].exhausted = FALSE]
       IN h2' \in IF n = 0 \/ n > MaxWindow - x.win THEN ngx_http_v2_terminate_stream(h, s)
                  ELSE IF x.exhausted THEN WriteHandler(g, s) ELSE {g}

(* The same for the connection, up to its loop.                             *)
ConnWindow ==
  /\ CanRead /\ Counted
  /\ \E n \in 0..MaxWindow :
       LET h == Again(h2)
       IN h2' \in IF n = 0 \/ n > MaxWindow - h.win
                  THEN ngx_http_v2_finalize_connection(h)
                  ELSE {[h EXCEPT !.win = @ + n, !.credit = @ + n,
                                  !.phase = IF h.wait = <<>> THEN "reading" ELSE "waking"]}

(* The loop of ngx_http_v2_state_window_update: one turn.                   *)
WakeNext ==
  /\ h2.phase = "waking"
  /\ LET s == Head(h2.wait)
     IN \E g \in WriteHandler([h2 EXCEPT !.wait = Tail(@)], s) :
          h2' = [g EXCEPT !.phase = IF g.win = 0 \/ g.wait = <<>> THEN "reading" ELSE "waking"]

(* ngx_http_v2_state_settings_params with INITIAL_WINDOW_SIZE: the answer   *)
(* is queued behind everything.                                             *)
Settings ==
  /\ CanRead /\ Counted
  /\ \E v \in 0..MaxWindow :
       /\ v # h2.init
       /\ h2' = [Again(h2) EXCEPT !.out = Append(@, Control), !.init = v, !.delta = v - h2.init,
                                  !.phase = "adjusting", !.todo = Processing(h2)]

(* ngx_http_v2_adjust_windows: one turn of the loop, and its end.           *)
AdjustNext ==
  /\ h2.phase = "adjusting"
  /\ IF h2.todo = {} THEN h2' = [h2 EXCEPT !.phase = "reading", !.delta = 0]
     ELSE \E s \in h2.todo :
            LET h == [h2 EXCEPT !.todo = @ \ {s}]
                win == h.str[s].win + h.delta
                g == [h EXCEPT !.str[s].win = win, !.str[s].exhausted = @ /\ win <= 0]
            IN h2' \in IF win > MaxWindow THEN ngx_http_v2_terminate_stream(h, s)
                       ELSE IF win > 0 /\ h.str[s].exhausted THEN WriteHandler(g, s)
                       ELSE {g}

----------------------------------------------------------------------------
(* The events of the connection.                                            *)
----------------------------------------------------------------------------
(* ngx_http_v2_read_handler: nothing more to read.                          *)
ReadEnd ==
  /\ h2.phase = "reading"
  /\ \E g \in ngx_http_v2_send_output_queue(h2, NoStream) :
       IF g.error /\ g.out # <<>> THEN h2' \in ngx_http_v2_finalize_connection(g)
       ELSE h2' = ngx_http_v2_handle_connection([g EXCEPT !.phase = ""])

(* It, or ngx_http_v2_idle_handler, when the worker is to end.              *)
ReadClose ==
  /\ h2.phase = "" /\ h2.st \in {"open", "idle"} /\ ~h2.goaway
  /\ IF h2.st = "idle" THEN h2' \in ngx_http_v2_finalize_connection(h2)
     ELSE \E g \in ngx_http_v2_send_output_queue(
                     [ngx_http_v2_queue_blocked_frame(h2, Control) EXCEPT
                        !.goaway = TRUE, !.phase = "reading"], NoStream) :
            IF g.error THEN h2' \in ngx_http_v2_finalize_connection(g)
            ELSE h2' = [g EXCEPT !.phase = ""]

(* It, when the client has closed its side or the socket has failed.        *)
ReadEof ==
  /\ CanRead
  /\ h2' \in ngx_http_v2_finalize_connection([Read(h2) EXCEPT !.error = TRUE])

(* ngx_http_v2_write_handler: the socket takes data again.                  *)
ngx_http_v2_write_handler ==
  /\ h2.phase = "" /\ h2.st = "open"
  /\ ~h2.ready \/ h2.wev
  /\ LET h == [h2 EXCEPT !.ready = TRUE, !.wev = FALSE]
     IN IF h.out = <<>> THEN h2' = ngx_http_v2_handle_connection(h)
        ELSE \E r \in ngx_http_v2_send_output_queue([h EXCEPT !.phase = "writing"], NoStream) :
               LET g == [r EXCEPT !.phase = ""]
               IN IF g.error THEN h2' \in ngx_http_v2_finalize_connection(g)
                  ELSE h2' = IF g.ready THEN ngx_http_v2_handle_connection(g) ELSE g

(* It, when the send_timeout of the connection has expired.                 *)
H2WriteTimeout ==
  /\ h2.phase = "" /\ h2.st = "open" /\ ~h2.ready
  /\ h2' \in ngx_http_v2_finalize_connection([h2 EXCEPT !.error = TRUE])

(* ngx_http_v2_handle_connection_handler, posted by the last stream; with   *)
(* no error it goes on as a read.                                           *)
ngx_http_v2_handle_connection_handler ==
  /\ h2.phase = "" /\ h2.rev
  /\ LET h == [h2 EXCEPT !.rev = FALSE]
     IN IF h.error THEN h2' \in ngx_http_v2_finalize_connection(h)
        ELSE h2' = Read(h)

(* The loop of ngx_http_v2_finalize_connection: one turn, and its end.      *)
FinalNext ==
  /\ h2.phase = "final"
  /\ IF h2.todo = {}
     THEN h2' = IF Processing(h2) = {} THEN H2Closed(h2) ELSE [h2 EXCEPT !.phase = ""]
     ELSE \E s \in h2.todo :
            LET h == [h2 EXCEPT !.todo = @ \ {s}, !.str[s].err = TRUE, !.str[s].queued = 0]
            IN h2' \in IF h2.str[s].queued > 0 /\ h2.str[s].st = "closing"
                       THEN {ngx_http_v2_close_stream(h, s)}
                       ELSE Noticed(h, s)

----------------------------------------------------------------------------
(* What comes about by itself: handlers go on, requests are answered,       *)
(* timers expire, the socket becomes writable, and a socket that has        *)
(* failed is reported to the read handler too.                              *)
HtProgress ==
  \/ \E s \in Streams :
       ngx_http_v2_header_filter(s) \/ Body(s) \/ SendTimeout(s) \/ PostedWrite(s)
  \/ WakeNext \/ AdjustNext \/ FinalNext
  \/ ReadEnd
  \/ (h2.error /\ ReadEof)
  \/ ngx_http_v2_write_handler \/ H2WriteTimeout
  \/ ngx_http_v2_handle_connection_handler

HtNext ==
  \/ HtProgress
  \/ \E s \in Streams :
       \/ Fail(s)
       \/ ngx_http_v2_create_stream(s) \/ ngx_http_v2_state_rst_stream(s) \/ StreamWindow(s)
  \/ ConnWindow \/ Settings
  \/ ReadClose \/ ReadEof

HtSpec == HtInit /\ [][HtNext]_h2

----------------------------------------------------------------------------
FramesOf(s) == Chosen(h2.out, OfStream(s))

(* A frame that is half sent stays the next to go.  queued counts a         *)
(* stream's frames, and only a stream that still exists has any; its        *)
(* header comes first and what ends it last; nothing of it follows its      *)
(* reset, once its request knows.                                           *)
QueueAccounted ==
  /\ \A i \in 2..Len(h2.out) : ~h2.out[i].begun
  /\ \A s \in Streams :
       LET q == FramesOf(s)
       IN /\ Len(q) = h2.str[s].queued
          /\ q # <<>> => s \in Processing(h2)
          /\ \A i \in 1..Len(q) :
               /\ q[i].kind = "headers" /\ ~q[i].fin => i = 1
               /\ q[i].fin => i = Len(q)
          /\ \A i, j \in 1..Len(h2.out) :
               i < j /\ h2.out[i].resets = s /\ h2.out[j].stream = s =>
                 h2.str[s].st \in {"open", "sent"}

(* On a connection that has not failed, the queue of frames is in order,    *)
(* and what may still be queued is what the client has granted, less what   *)
(* it has got and what is queued: frames that are dropped give theirs back. *)
OutputAccounted ==
  /\ h2.win >= 0 /\ h2.credit >= 0
  /\ ~h2.error => QueueAccounted /\ h2.win + Lens(h2.out) = h2.credit

(* A stream that is being closed, has no frames left and gets no event: its *)
(* last frame went while it was exhausted and its connection had no error   *)
(* (ngx_http_v2_handle_stream returns), as when it ended by a timeout.      *)
Stranded(s) ==
  LET x == h2.str[s] IN x.st = "closing" /\ x.queued = 0 /\ x.exhausted /\ ~x.posted

(* A stream that has not sent all it has, or is not yet closed, has         *)
(* somebody to wake it: a posted event, its own frames, its window or the   *)
(* connection's, if that is what it lacks.                                  *)
StreamWoken ==
  h2.phase = "" /\ ~h2.error =>
    \A s \in Streams :
      LET x == h2.str[s]
      IN x.st \in {"writing", "closing"} =>
           \/ x.posted
           \/ x.queued > 0
           \/ x.st = "writing" /\ x.exhausted /\ x.win <= 0
           \/ x.st = "writing" /\ s \in ToSet(h2.wait) /\ h2.win = 0
           \/ Stranded(s)

(* Every stream ends, whatever the client does with the windows and         *)
(* wherever the socket stops, unless it is stranded.                        *)
StreamEnds ==
  \A s \in Streams : h2.str[s].st = "open" ~> h2.str[s].st = "closed" \/ Stranded(s)
=============================================================================
