----------------------------- MODULE EventPipe ------------------------------
(***************************************************************************)
(* The pipe that passes the response of a server on to a client,            *)
(* ngx_event_pipe.c, with the handlers of ngx_http_upstream.c that run it.  *)
(* The response is read into a few buffers.  A full buffer is handed to the *)
(* client and is busy until it is sent, or is saved to a temporary file,    *)
(* perhaps by a thread, and sent from there; a response that is cached      *)
(* always goes through the file.                                            *)
(*                                                                          *)
(* The response is the units 1, 2, ... .  A buffer that is read into again  *)
(* while its contents are still to be sent shows in what the client gets.   *)
(* A call of ngx_event_pipe is several steps, between which only the thread *)
(* and the client's socket move.  Rate limits, the header that precedes the *)
(* body in a cache file (buf_to_file) and failing allocations are left out; *)
(* single_buf and cyclic_temp_file are 0, as on every Unix.                 *)
(***************************************************************************)
EXTENDS Integers, Sequences, FiniteSets, SequencesExt, FiniteSetsExt

CONSTANTS
  Num,         \* p->bufs.num
  Size,        \* p->bufs.size, in units
  BusySize,    \* p->busy_size, in buffers
  WriteSize,   \* p->temp_file_write_size
  MaxTemp,     \* p->max_temp_file_size
  MaxFlushed,  \* bound: the 10 of "a workaround for AIO"
  Total        \* bound: the units of a response

(* ngx_http_proxy_merge_loc_conf refuses other sizes.                       *)
ASSUME EventPipeAssumption ==
  /\ {Num, Size, BusySize, WriteSize, Total} \subseteq Nat \ {0}
  /\ {MaxTemp, MaxFlushed} \subseteq Nat
  /\ BusySize < Num
  /\ WriteSize >= 2 * Size
  /\ MaxTemp = 0 \/ MaxTemp >= 2 * Size

VARIABLES
  p,       \* ngx_event_pipe_t
  mem,     \* the contents of each buffer, 0 being u->buffer
  temp,    \* the contents of the temporary file
  sent,    \* what the client got
  ends,    \* the sockets and the thread: their state in the kernel
  ppc      \* where ngx_event_pipe is

epVars == <<p, mem, temp, sent, ends, ppc>>

Raws == 0..Num

Buf(b) == [raw |-> TRUE, b |-> b]
Saved(from, to) == [raw |-> FALSE, from |-> from, to |-> to]

Created(cacheable, thread, known) ==
  [cacheable |-> cacheable,
   thread |-> thread,      \* aio threads and aio_write
   length |-> IF known THEN Total ELSE -1,
   preread |-> TRUE,       \* preread_bufs
   free |-> <<>>,          \* free_raw_bufs, the first perhaps in part filled
   in |-> <<>>, out |-> <<>>, busy |-> <<>>,
   writing |-> <<>>,
   allocated |-> 0, flushed |-> 0,
   read |-> FALSE, blocked |-> FALSE,
   eof |-> FALSE, error |-> FALSE, done |-> FALSE,
   derror |-> FALSE, ddone |-> FALSE,
   timedout |-> FALSE,     \* downstream->write->timedout
   saved |-> "no"]         \* what became of the cache entry

EpInit ==
  /\ p = Created(FALSE, FALSE, FALSE)
  /\ mem = [b \in Raws |-> <<>>]
  /\ temp = <<>>
  /\ sent = <<>>
  /\ ends = [got |-> 0,            \* what was read of the response
             src |-> 0,            \* what the server sends of it
             rready |-> TRUE,      \* upstream->read->ready
             wready |-> TRUE,      \* downstream->write->ready
             aio |-> FALSE,        \* r->aio: a thread is at the file
             loaded |-> FALSE]     \* it has read what is to be sent next
  /\ ppc = "none"

(* The end of ngx_http_upstream_send_response, for some response; its       *)
(* header may have filled the client's socket.                              *)
CreatePipe ==
  /\ ppc = "none"
  /\ \E cacheable, thread, known \in BOOLEAN : p' = Created(cacheable, thread, known)
  /\ \E src \in {0, Total}, ready \in BOOLEAN :
       ends' = [ends EXCEPT !.src = src, !.wready = ready]
  /\ ppc' = "read"
  /\ UNCHANGED <<mem, temp, sent>>

Finished == p.eof \/ p.error \/ p.done

Contents(bufs, m) == FlattenSeq([i \in 1..Len(bufs) |-> m[bufs[i]]])

----------------------------------------------------------------------------
(* ngx_event_pipe_write_chain_to_temp_file, from label done on, for the     *)
(* buffers out: they are in the file, as the last part of p->out, and free. *)
WriteDone(q, out) ==
  LET units == Contents(out, mem)
      n == Len(units)
      last == Len(q.out)
  IN  /\ temp' = temp \o units
      /\ p' = [q EXCEPT
                !.out = IF n = 0 THEN @
                        ELSE IF last > 0
                             THEN [@ EXCEPT ![last].to = Len(temp) + n]
                             ELSE <<Saved(Len(temp) + 1, Len(temp) + n)>>,
                !.free = @ \o out,
                !.writing = <<>>]
      /\ mem' = [b \in Raws |-> IF b \in ToSet(out) THEN <<>> ELSE mem[b]]
      /\ UNCHANGED ends

(* How many buffers of p->in are written at a time.                         *)
Portion(q) ==
  IF q.cacheable THEN Len(q.in)
  ELSE Max({0} \cup {k \in 1..Len(q.in) :
         LET n == Len(Contents(SubSeq(q.in, 1, k), mem))
         IN  n <= WriteSize /\ Len(temp) + n <= MaxTemp})

(* The same from its start, for what is in p->in: it is done, or left to a  *)
(* thread.                                                                  *)
WriteChain(q) ==
  LET k == Portion(q)
      out == SubSeq(q.in, 1, k)
      rest == [q EXCEPT !.in = SubSeq(q.in, k + 1, Len(q.in))]
  IN  IF q.thread /\ out # <<>>
      THEN /\ p' = [rest EXCEPT !.writing = out]
           /\ ends' = [ends EXCEPT !.aio = TRUE]
           /\ UNCHANGED <<mem, temp>>
      ELSE WriteDone(rest, out)

(* ngx_event_pipe_add_free_buf: not before a buffer that is filled in part. *)
AddFree(free, b, m) ==
  IF free # <<>> /\ m[Head(free)] # <<>>
  THEN <<Head(free), b>> \o Tail(free)
  ELSE <<b>> \o free

(* The same for several buffers.                                            *)
AddAllFree(free, bs, m) ==
  FoldLeft(LAMBDA f, b : AddFree(f, b, m), free, bs)

RawsOf(entries) ==
  [i \in 1..Len(SelectSeq(entries, LAMBDA e : e.raw)) |->
     SelectSeq(entries, LAMBDA e : e.raw)[i].b]

(* ngx_event_pipe_drain_chains                                              *)
Drain(q) ==
  LET bs == RawsOf(q.busy) \o q.in
  IN  /\ p' = [q EXCEPT !.busy = <<>>, !.out = <<>>, !.in = <<>>,
                        !.free = AddAllFree(@, bs, mem)]
      /\ mem' = [b \in Raws |-> IF b \in ToSet(bs) THEN <<>> ELSE mem[b]]

(* What the client gets when entries of the output are sent.                *)
Unit(e) == IF e.raw THEN mem[e.b] ELSE SubSeq(temp, e.from, e.to)
Units(entries) == FlattenSeq([i \in 1..Len(entries) |-> Unit(entries[i])])

(* p->output_filter after entries have joined the busy ones.  Unless the    *)
(* client is not ready, or a thread is at work for the request, some of     *)
(* these are sent; the rest waits for the client, or for a thread that      *)
(* reads the file.  free says whether the buffers of what was sent are      *)
(* given back.                                                              *)
OutputFilter(q, free) ==
  \/ /\ q.busy = <<>> \/ ends.aio \/ ~ends.wready
     /\ p' = q
     /\ UNCHANGED <<mem, sent, ends>>
  \/ /\ ~ends.aio /\ ends.wready
     /\ \E k \in 0..Len(q.busy) :
          LET gone == SubSeq(q.busy, 1, k)
              rest == SubSeq(q.busy, k + 1, Len(q.busy))
              bs == IF free THEN RawsOf(gone) ELSE <<>>
              file == rest # <<>> /\ ~Head(rest).raw /\ q.thread
          IN  /\ sent' = sent \o Units(gone)
              /\ p' = [q EXCEPT !.busy = rest, !.free = AddAllFree(@, bs, mem)]
              /\ mem' = [b \in Raws |-> IF b \in ToSet(bs) THEN <<>> ELSE mem[b]]
              /\ \/ /\ k > 0
                    /\ ends' = [ends EXCEPT !.wready = (rest = <<>>), !.loaded = FALSE]
                 \/ /\ file /\ (k > 0 \/ ~ends.loaded)
                    /\ ends' = [ends EXCEPT !.aio = TRUE, !.loaded = TRUE]

----------------------------------------------------------------------------
(* ngx_event_pipe goes on to read.                                          *)
ToRead(q) == [q EXCEPT !.read = FALSE, !.blocked = FALSE]

(* The part of ngx_event_pipe_write_to_downstream before its loop: a write  *)
(* that a thread has done is taken notice of.                               *)
WriteBegin ==
  /\ ppc = "write"
  /\ IF p.writing # <<>> /\ ~ends.aio
     THEN WriteDone([p EXCEPT !.flushed = 0], p.writing)
     ELSE p' = [p EXCEPT !.flushed = 0] /\ UNCHANGED <<mem, temp, ends>>
  /\ ppc' = "send"
  /\ UNCHANGED sent

BusyBufs(q) == Cardinality({i \in 1..Len(q.busy) : q.busy[i].raw})

(* How many buffers of p->in may join the busy ones.                        *)
Joining(q) ==
  IF q.cacheable \/ q.writing # <<>> THEN 0
  ELSE Min({Len(q.in), BusySize - BusyBufs(q)})

(* One turn of that loop: the client is gone, or the response is complete,  *)
(* or what is ready and fits goes out.                                      *)
ngx_event_pipe_write_to_downstream ==
  /\ ppc = "send"
  /\ CASE p.derror ->
            /\ Drain(ToRead(p))
            /\ ppc' = "read"
            /\ UNCHANGED <<temp, sent, ends>>
       [] ~p.derror /\ Finished ->
            LET all == IF p.writing # <<>> THEN <<>> ELSE p.in
                q == [ToRead(p) EXCEPT
                       !.busy = @ \o p.out \o [i \in 1..Len(all) |-> Buf(all[i])],
                       !.out = <<>>,
                       !.in = IF p.writing # <<>> THEN @ ELSE <<>>,
                       !.ddone = p.writing = <<>>]
            IN  \/ /\ OutputFilter(q, FALSE)
                   /\ ppc' = "read"
                   /\ UNCHANGED temp
                \/ /\ Drain([ToRead(p) EXCEPT !.derror = TRUE])
                   /\ ppc' = "read"
                   /\ UNCHANGED <<temp, sent, ends>>
       [] ~p.derror /\ ~Finished /\ ~ends.wready ->
            /\ p' = ToRead(p)
            /\ ppc' = "read"
            /\ UNCHANGED <<mem, temp, sent, ends>>
       [] OTHER ->
            LET flush == BusyBufs(p) >= BusySize
                k == IF flush THEN 0 ELSE Joining(p)
                out == IF flush THEN <<>>
                       ELSE p.out \o [i \in 1..k |-> Buf(p.in[i])]
                more == flush \/ (k < Len(p.in) /\ ~p.cacheable /\ p.writing = <<>>)
                q == [p EXCEPT !.busy = @ \o out,
                               !.out = IF flush THEN @ ELSE <<>>,
                               !.in = SubSeq(@, k + 1, Len(@)),
                               !.flushed = IF out = <<>> THEN @ + 1 ELSE @]
            IN  CASE out = <<>> /\ ~more ->
                       /\ p' = ToRead(p)
                       /\ ppc' = "read"
                       /\ UNCHANGED <<mem, temp, sent, ends>>
                  [] out = <<>> /\ more /\ p.flushed > MaxFlushed ->
                       /\ ppc' = "request"      \* NGX_BUSY
                       /\ UNCHANGED <<p, mem, temp, sent, ends>>
                  [] OTHER ->
                       \/ /\ OutputFilter(q, TRUE)
                          /\ UNCHANGED <<ppc, temp>>
                       \/ /\ Drain([ToRead(q) EXCEPT !.derror = TRUE])
                          /\ ppc' = "read"
                          /\ UNCHANGED <<temp, sent, ends>>

(* ngx_event_pipe_read_upstream before its loop                             *)
ReadBegin ==
  /\ ppc = "read"
  /\ CASE Finished \/ ends.aio ->
            /\ ppc' = "turn"
            /\ UNCHANGED <<p, mem, temp, ends>>
       [] ~Finished /\ ~ends.aio /\ p.writing # <<>> ->
            /\ WriteDone(p, p.writing)
            /\ ppc' = "recv"
       [] OTHER ->
            /\ ppc' = "recv"
            /\ UNCHANGED <<p, mem, temp, ends>>
  /\ UNCHANGED sent

(* Mutant: all buffers of the chain stay free, the full ones too.           *)
ReceivedKeepsAll(q, chain, n) ==
  LET upto(k) == k * Size - Len(mem[Head(chain)])
      full == Max({0} \cup {k \in 1..Len(chain) : upto(k) <= n})
      from(k) == IF k = 1 THEN 0 ELSE upto(k - 1)
      part(k) == [i \in 1..Min({n, upto(k)}) - from(k) |-> ends.got + from(k) + i]
      filled(b) == IF \E k \in 1..Len(chain) : chain[k] = b /\ from(k) < n
                   THEN mem[b] \o part(CHOOSE k \in 1..Len(chain) : chain[k] = b)
                   ELSE mem[b]
      taken == Len(FlattenSeq([i \in 1..full |-> filled(chain[i])]))
  IN  /\ mem' = [b \in Raws |-> filled(b)]
      /\ p' = [q EXCEPT
                !.read = @ \/ n > 0,
                !.in = @ \o SubSeq(chain, 1, full),
                !.free = chain,
                !.length = IF @ = -1 THEN @ ELSE @ - taken]

(* recv_chain put n units into the buffers chain: the full ones go through  *)
(* the input filter.                                                        *)
Received(q, chain, n) ==
  LET upto(k) == k * Size - Len(mem[Head(chain)])
      full == Max({0} \cup {k \in 1..Len(chain) : upto(k) <= n})
      from(k) == IF k = 1 THEN 0 ELSE upto(k - 1)
      part(k) == [i \in 1..Min({n, upto(k)}) - from(k) |-> ends.got + from(k) + i]
      filled(b) == IF \E k \in 1..Len(chain) : chain[k] = b /\ from(k) < n
                   THEN mem[b] \o part(CHOOSE k \in 1..Len(chain) : chain[k] = b)
                   ELSE mem[b]
      taken == Len(FlattenSeq([i \in 1..full |-> filled(chain[i])]))
  IN  /\ mem' = [b \in Raws |-> filled(b)]
      /\ p' = [q EXCEPT
                !.read = @ \/ n > 0,
                !.in = @ \o SubSeq(chain, 1, full),
                !.free = SubSeq(chain, full + 1, Len(chain)),
                !.length = IF @ = -1 THEN @ ELSE @ - taken]

(* One turn of its loop: a buffer is found and read into, or the loop ends. *)
Recv(q, chain) ==
  LET space == Len(chain) * Size - Len(mem[Head(chain)])
  IN  \/ \E n \in 1..Min({space, ends.src - ends.got}) :
           /\ Received(q, chain, n)
           /\ ends' \in {[ends EXCEPT !.got = @ + n, !.rready = r] : r \in BOOLEAN}
           /\ UNCHANGED <<temp, ppc>>
      \/ /\ \/ /\ ends.got = ends.src
               /\ p' = [q EXCEPT !.free = chain, !.eof = TRUE, !.read = TRUE]
            \/ p' = [q EXCEPT !.free = chain, !.error = TRUE]
         /\ ppc' = "tail"
         /\ UNCHANGED <<mem, temp, ends>>

Stop(q) ==
  /\ p' = q
  /\ ppc' = "tail"
  /\ UNCHANGED <<mem, temp, ends>>

ngx_event_pipe_read_upstream ==
  /\ ppc = "recv"
  /\ CASE p.preread ->
            \E n \in 0..Min({Size, ends.src}) :
              /\ Received([p EXCEPT !.preread = FALSE], <<0>>, n)
              /\ ends' = [ends EXCEPT !.got = n]
              /\ UNCHANGED <<temp, ppc>>
       [] ~p.preread /\ ~ends.rready -> Stop(p)
       [] ~p.preread /\ ends.rready /\ p.free # <<>> -> Recv(p, p.free)
       [] ~p.preread /\ ends.rready /\ p.free = <<>> /\ p.allocated < Num ->
            Recv([p EXCEPT !.allocated = @ + 1], <<p.allocated + 1>>)
       [] OTHER ->
            CASE ~p.cacheable /\ ends.wready -> Stop([p EXCEPT !.blocked = TRUE])
              [] ~p.cacheable /\ ~ends.wready
                   /\ (Len(temp) >= MaxTemp \/ Portion(p) = 0) -> Stop(p)
              [] OTHER ->
                   /\ WriteChain(p)
                   /\ ppc' = IF ends'.aio THEN "turn" ELSE ppc
  /\ UNCHANGED sent

(* What follows that loop.                                                  *)
ReadTail ==
  LET head == Head(p.free)
      complete == p.free # <<>> /\ p.length # -1 /\ Len(mem[head]) >= p.length
      filter(q) == IF mem[Head(q.free)] = <<>> THEN [q EXCEPT !.free = Tail(@)]
                   ELSE [q EXCEPT !.free = Tail(@), !.in = Append(@, Head(q.free)),
                                  !.length = IF @ = -1 THEN @
                                             ELSE @ - Len(mem[Head(q.free)])]
      a == IF complete THEN filter(p) ELSE p
      b == IF a.length = 0 THEN [a EXCEPT !.done = TRUE, !.read = TRUE] ELSE a
      c == IF (b.eof \/ b.error) /\ b.free # <<>> THEN filter(b) ELSE b
  IN  /\ ppc = "tail"
      /\ IF c.cacheable /\ c.in # <<>>
         THEN WriteChain(c)
         ELSE p' = c /\ UNCHANGED <<mem, temp, ends>>
      /\ ppc' = "turn"
      /\ UNCHANGED sent

(* ngx_event_pipe writes again, or is done.                                 *)
Turn ==
  /\ ppc = "turn"
  /\ ppc' = IF p.read \/ p.blocked THEN "write" ELSE "request"
  /\ UNCHANGED <<p, mem, temp, sent, ends>>

(* Mutant: a write that is done is not looked at once more.                 *)
RequestWaits ==
  /\ ppc = "request"
  /\ CASE p.writing # <<>> -> ppc' = "idle" /\ UNCHANGED p
       [] p.writing = <<>> /\ Finished -> ppc' = "over" /\ UNCHANGED p
       [] p.writing = <<>> /\ ~Finished ->
            /\ ppc' = IF p.derror /\ ~p.cacheable THEN "over" ELSE "idle"
            /\ UNCHANGED p
  /\ UNCHANGED <<mem, temp, sent, ends>>

(* ngx_http_upstream_process_request: a write that is done is looked at     *)
(* once more; then the cache entry is updated or given up and the request   *)
(* finalized, if the response is complete.                                  *)
ngx_http_upstream_process_request ==
  /\ ppc = "request"
  /\ CASE p.writing # <<>> ->
            /\ ppc' = IF ends.aio THEN "idle" ELSE "write"
            /\ UNCHANGED p
       [] p.writing = <<>> /\ Finished ->
            /\ p' = [p EXCEPT !.saved =
                      IF p.cacheable /\ (p.done \/ (p.eof /\ p.length = -1))
                      THEN "update" ELSE "free"]
            /\ ppc' = "over"
       [] p.writing = <<>> /\ ~Finished ->
            /\ ppc' = IF p.derror /\ ~p.cacheable THEN "over" ELSE "idle"
            /\ UNCHANGED p
  /\ UNCHANGED <<mem, temp, sent, ends>>

(* ngx_http_upstream_process_upstream, when the server's socket is readable *)
(* (again) or its timer expires.                                            *)
ngx_http_upstream_process_upstream ==
  /\ ppc = "idle"
  /\ ~ends.rready
  /\ \/ /\ ppc' = "read"
        /\ p' = ToRead(p)
        /\ ends' = [ends EXCEPT !.rready = TRUE]
     \/ /\ ~p.error
        /\ ppc' = "request"
        /\ p' = [p EXCEPT !.error = TRUE]
        /\ UNCHANGED ends
  /\ UNCHANGED <<mem, temp, sent>>

(* ngx_http_upstream_process_downstream, when the client's socket is        *)
(* writable or its timer expires                                            *)
ngx_http_upstream_process_downstream ==
  /\ ppc = "idle"
  /\ ~ends.wready /\ ~p.timedout
  /\ \/ /\ ppc' = "write"
        /\ ends' = [ends EXCEPT !.wready = TRUE]
        /\ UNCHANGED p
     \/ /\ ppc' = "request"
        /\ p' = [p EXCEPT !.derror = TRUE, !.timedout = TRUE]
        /\ UNCHANGED ends
  /\ UNCHANGED <<mem, temp, sent>>

(* The thread is done; its completion runs                                  *)
(* ngx_http_upstream_process_downstream, timed out or not.                  *)
ngx_http_upstream_thread_event_handler ==
  /\ ppc = "idle"
  /\ ends.aio
  /\ ends' = [ends EXCEPT !.aio = FALSE]
  /\ ppc' = IF p.timedout THEN "request" ELSE "write"
  /\ UNCHANGED <<p, mem, temp, sent>>

(* The rest of the response, which the filters hold, is sent.               *)
SendRest ==
  /\ ppc = "over" /\ ~p.derror
  /\ p.busy # <<>>
  /\ sent' = sent \o Unit(Head(p.busy))
  /\ p' = [p EXCEPT !.busy = Tail(@)]
  /\ UNCHANGED <<mem, temp, ends, ppc>>

EpProgress ==
  \/ WriteBegin
  \/ ngx_event_pipe_write_to_downstream
  \/ ReadBegin
  \/ ngx_event_pipe_read_upstream
  \/ ReadTail
  \/ Turn
  \/ ngx_http_upstream_process_request
  \/ ngx_http_upstream_process_upstream
  \/ ngx_http_upstream_process_downstream
  \/ ngx_http_upstream_thread_event_handler
  \/ SendRest

EpNext == CreatePipe \/ EpProgress

EpSpec == EpInit /\ [][EpNext]_epVars

----------------------------------------------------------------------------
(* The client gets the response in order, without a gap and nothing twice,  *)
(* whichever way each part took; no buffer is in two places; and once the   *)
(* pipe is over and everything was sent, a client that has not gone has all *)
(* that was read.                                                           *)
PipeInOrder ==
  /\ sent = [i \in 1..Len(sent) |-> i]
  /\ IsInjective(p.free \o p.in \o p.writing \o RawsOf(p.busy))
  /\ ppc = "over" /\ p.busy = <<>> /\ ~p.derror /\ ~p.error
       => Len(sent) = ends.got

(* A cache entry is updated only with the whole response in its file,       *)
(* although a thread may write it and the client may go meanwhile.          *)
CacheComplete ==
  p.saved = "update" => temp = [i \in 1..ends.src |-> i]

(* Both receivers of the response get it as it is.                          *)
PipeFaithful == PipeInOrder /\ CacheComplete

(* A pipe comes to an end: it is never left waiting for nothing.            *)
PipeEnds == ppc = "read" ~> ppc = "over"
=============================================================================
