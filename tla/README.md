# A TLA+ development for nginx 1.16.0

This directory holds TLA+ models of parts of nginx 1.16.0
(`src/nginx-1.16.0/`), the TLC configurations that check them on small
instances, and theorems about them whose proofs TLAPS checks. Paths below are
relative to `src/nginx-1.16.0/src/` unless they start with `man/` or `doc/`.

Contents: 1. the system and its parts; 2. modules; 3. runs; 4. proofs; 5. what the
code does against its documentation; 6. what is not modelled; 7. plan.

## 1. The system

nginx is a *master* process that reads the configuration, opens the listening
sockets and forks *workers* (and, with a cache, a *manager* and a *loader*). Each worker
runs one event loop; everything a worker does is a callback of that loop, so inside
a worker the only concurrency is the order of callbacks, and the optional thread
pools. Workers share memory: zones with a slab allocator, the accept mutex, upstream
state, cache indexes. The master talks to its children with signals and with
socketpairs (*channels*).

| Component | State | Operations | Talks to | Hard behaviour | Correct means |
|---|---|---|---|---|---|
| Shared memory mutex `core/ngx_shmtx.c` | lock word (a pid), `wait`, a semaphore | trylock, lock, unlock, force_unlock | slab zones, accept mutex; the master opens it for the dead | atomics, sleeping, death of the owner | exclusion; no sleeper next to a free mutex; a dead owner's mutex opens |
| Reader-writer lock `core/ngx_rwlock.c` | one word | rlock, wlock, unlock, downgrade | upstream zones | stale reads before a compare-and-set | exclusion; the word counts the readers |
| Thread pool `core/ngx_thread_pool.c` | queue, `waiting`, done list, eventfd | post, thread cycle, completion handler, destroy | event loop through the eventfd | spurious wakeups, wrapping counter, destruction | each posted task completes once |
| Accept mutex and event loop `event/ngx_event.c`, `ngx_event_accept.c` | `held`, `disabled`, active accept events | one loop iteration, accept, EMFILE handling | mutex, connections | a flag that outlives the lock | turns exclude; connections are accepted |
| Master `os/unix/ngx_process_cycle.c`, `ngx_process.c` | flags, process table, `live`, `delay`, `sigio`, `ngx_new_binary` | signals, start, reap, terminate, quit, reload, reopen, upgrade | children through channels and signals | several signals in one wakeup, failing forks | table knows the children; stops end; reload replaces |
| Channels `os/unix/ngx_channel.c` | a copy of the table per child | open, close messages | master, children | each child is late in its own way, lost messages | copies agree, no descriptor leaks |
| Connections and events `core/ngx_connection.c`, `event/modules/ngx_epoll_module.c`, `event/ngx_event_posted.c` | places, free list, reusable queue, the batch, posted queue | get, close, drain, make reusable, process a batch, process the posted | everything in a worker | a place reused within a batch or between posting and calling | no event reaches another user of the place |
| Timers `event/ngx_event_timer.*`, `core/ngx_rbtree.c` | tree of wrapping keys | add, delete, find, expire | everything in a worker | wrap, lazy re-adding | never too early, never left behind |
| Upstream `http/ngx_http_upstream.c`, round robin, keepalive | attempts, servers with counts and weights, idle connections, timers | init, connect, send, read, next, finalize | event loop, pipe, balancer | failures on every path, retries, early responses, aborted clients | servers and connections are given back once; nothing is repeated that may not be; it ends |
| Event pipe `event/ngx_event_pipe.c` | buffers in five chains, temporary file, thread tasks | read upstream, write downstream, write to the file | upstream, file cache, thread pool | both ends and a thread at once, buffers that run out | order, completeness, no standstill |
| HTTP request `http/ngx_http_request.c`, postpone and copy filters | `count`, `blocked`, tree of requests, posted requests | subrequest, finalize, terminate, post, close, free | filters, threads | finalization in any order, termination under a thread | freed once, after everybody; output in document order |
| File cache `http/ngx_http_file_cache.c` | a node: count, `updating`, lock time; the file; size of the zone | open, lock, update, free, expire, delete | workers share it; manager | mutex given up while unlinking, lapsing lock, lock off, death | count is the users; one updater while all heed the mark; size is the files |
| HTTP/2 `http/v2/` | streams, one queue of frames, two levels of windows | queue, send, wake, settings, window update, reset, close, finalize | requests of the streams, socket | who wakes whom, drops, failure half way | order within streams, credit adds up, nobody sleeps for ever |
| Resolver `core/ngx_resolver.c` | nodes with waiting lists, two queues, one timer | ask, answer, resend, expire, cancel | upstream, any module | two families in any order, aliases, cancellation, re-entrance | right answers, no context lost |
| Cycle `core/ngx_cycle.c` | zones, sockets, files of a configuration | init, inherit, rollback | master | reload half way failing | old cycle intact after a failure |
| Slab allocator `core/ngx_slab.c` | descriptors of pages in lists, bitmaps, statistics | alloc, free | every zone, under its mutex | splitting and joining of runs, pages that fill and empty | nothing overlaps, nothing is lost, free neighbours are one run |
| Limits `http/modules/ngx_http_limit_req_module.c`, `ngx_http_limit_conn_module.c` | nodes with excess, time and count; numbers of connections | look up, charge, undo, expire, clean up | slab, requests | zones unlocked between look-up and charge, workers' times differ, failures half way | rate and number are kept; counts are the users |
| Open file cache `core/ngx_open_file_cache.c` | use counts, queue | open, close, expire | requests | a file changed or expired in use | counts match users |
| Stream and mail proxies | session | | | as HTTP | as HTTP |

`PROJECT.json` lists all components with their status, the hazards with their lines, and the
definitions with the lines they translate.

## 2. Modules

A module `X` has constants, variables, one action per operation or atomic step, a
specification, and below them its properties. `MCX` gives the sets of the
model and `MCX*.cfg` the instances. `XProofs` holds the theorems;
`UpstreamProofs` also those of `Rwlock` and `FileCache`, which proxied requests share, and `EventLoopProofs` those of `AcceptMutex` and `Timers`. `SequenceLemmas` has what they need of sequences and of sums over sets. Operators whose comment starts with
"Mutant:" are plausible errors in the operation after them. They are not part of
the specification: each is kept to show that a property notices the error when the
operation is replaced by it.

### The processes

**MutexSpec** says what a mutex promises to processes that may die: an owner or
none; only the owner, or the master on behalf of a dead owner, gives it back.
It is used twice: `Shmtx` implements it and `AcceptMutex` is built on it.

**Shmtx** translates `ngx_shmtx.c` with atomics. Every access to a shared word is a
step: the read and compare-and-set of the lock word, the increment and decrement of `wait`,
`sem_wait`, the read and compare-and-set of `wait` in the waker, `sem_post`. (A read that fails
makes the compare-and-set not happen, and one that succeeds is confirmed by it, so both are one
step.) `Crash` ends a worker anywhere; the master then runs
`ngx_shmtx_force_unlock` with all of its wakeup. `Semaphore = FALSE` is the build or
system without semaphores. `pc` is the place in the C function, `tries` the
remaining rounds of spinning.

**ThreadPool** translates `ngx_thread_pool.c` and the eventfd part of
`ngx_epoll_module.c`. What the pool's mutex covers is one step. The counter of the
eventfd is read only when the 32-bit event index wraps; `MaxIndex` stands for
2^32 - 1. `edge` is epoll's edge-triggered event. Destruction posts the same
exit task once per thread and spins on `lock`.

**Rwlock** translates `ngx_rwlock.c`. `WLOCK` stands for the all-ones word, and the
unlocking reader's stale value `seen` is state, because the compare-and-set uses it a step later.

**AcceptMutex** is one iteration of `ngx_process_events_and_timers` per worker: overload
(`ngx_accept_disabled`), trylock with enabling and disabling of the accept events, the poll with or without the
cap `accept_mutex_delay`, the queued accept events, `ngx_event_accept` with EAGAIN,
ECONNABORTED, EMFILE and no free connection, the unlock, other work, and the graceful exit. It uses the mutex
through `MutexSpec`.

**MasterProcess** is the master's loop. All signals are blocked except in
`sigsuspend`, so a turn of the loop is a fixed sequence of stages; children and
pending signals change between the stages. `table` is `ngx_processes`, `flags` the
variables the signal handler sets, and `proc` what the children really do, so that properties can compare the two.
`inbox` holds commands on their way. A child that hangs is a child without fairness.

**Channel** is the exchange of descriptors. A pass of `ngx_reap_children` over the
table is one step, as nothing of the master's runs in between; children read
their messages later. `open` counts the descriptors a child really has, `view` is
its copy of the table. `mixed` records that one pass has respawned a child and
then removed another (section 5).

### A worker

A worker runs one handler at a time, to its end. Where a handler is one C function without a choice in between
it is one action; where it goes through several (an attempt that fails and the next one, the posted requests
after an event, the turns of the pipe's loop) it is several actions, and a phase variable keeps everything else
of the worker from running in between. Functions that handlers call are operators from state to
state (or to the set of states they may lead to).

**RoundRobin** has the operators of `ngx_http_upstream_round_robin.c` on the table of servers: smooth weighted
choice, `fails` and `fail_timeout`, effective weights, `max_conns`, the backup list and
what giving a server back does. **Upstream** extends it by the requests of a worker:
connecting, sending a body that may block, the timers of each state, the response header,
`ngx_http_upstream_next` with its rules for repeating, an aborting client, finalization, and the
cache of idle connections of the keepalive module, whose connections the servers close when they like.

**HttpRequest** is one request with its tree of subrequests after the header is read. A piece
of output is named by its place in the document, so that order is a property of names. Handlers produce pieces,
start subrequests, wait and finalize in any order. The counting (`count`, `blocked`), posting, `ngx_http_finalize_request`
with all its cases, termination and its cleanup, the postpone filter, and reads by threads are the code's.

**FileCache** is one entry of the cache, shared by the requests of several workers and the manager. Sections under the
zone's mutex are atomic (which `Shmtx` gives); renaming and unlinking happen between them. Time is
nondeterministic: a lock may come of age at any moment. A worker may die with its reference. The requests outside
`LockOn` have `proxy_cache_lock` off, as by default, and fetch a new entry without a mark; any request may bypass the cache and
only put its response there, find the file of no use, be served a stale response while a request in the
background updates the entry, or fetch beside the one that updates it.

**Timers** keeps the tree as the sequence of its nodes in order and inserts by the code's signed comparison. The true
clock is kept beside the wrapping one for the properties only.

**EventLoop** is the connection pool, epoll's batches with the instance bit in the pointer, the posted events and the reusable
connections. What handlers do is left open: they close any connection, open one in a freed place, post
events and drain.

**EventPipe** is `ngx_event_pipe.c` with the handlers in `ngx_http_upstream.c` that run it. The response is a sequence of
numbered units and buffers have contents, so a buffer that is filled again too early shows in what the client
receives. Threads write the temporary file and read it back; the client's socket takes any number of buffers
or fails; the server pauses, ends or fails anywhere.

**Http2** is the output of an HTTP/2 connection: the queue with its blocked and droppable frames, flow control on two levels,
the waiting list, `SETTINGS` that change all windows, `RST_STREAM`, `WINDOW_UPDATE`, the write handler, closing of
streams in and outside the read handler, timeouts and the finalization of a failed connection. Loops of the read handler over streams
(`WakeNext`, `AdjustNext`, `FinalNext`) are steps, because each calls handlers.

**Resolver** is the resolver for names: one node per name, its waiting list, the queues of queries to resend and of
answers to forget, the one timer, both address families, aliases, kept answers, truncated responses and TCP, errors, cancellation, and
handlers that ask again while the loop that called them still runs (`call` is the stack of those loops). A handler is taken to finish its own context and no
other, as the callers in the repository do, and the recursion counter of a list is that of its head, the one the code reads.

**Slab** has the operations of `ngx_slab.c` on the descriptors of the pages. The pointer and the type that share the word `prev` move together as
in the code, and `next = NULL` tells a page that is in no list. Addresses are real, in bytes: a small page keeps its bitmap in its own first chunks. Each operation is
under the zone's mutex and one step. `live`, what has been given out, is there for the properties, and only that is ever freed, as the callers do.

**Limits** is the preaccess phase of requests in several workers: `limit_req` looks the nodes of its zones up one after the other, each under its
own mutex, and charges or undoes them in the same way; `limit_conn` follows, and its cleanup handlers run zone by zone. A worker takes its time at the start of a request,
so that the times of the workers differ by any amount. `ctx->node` outlives the request, as it belongs to the worker's configuration. `charged`, `since` and `back` of a node and
`lim.lost...` are there for the properties.

**MCComponents** and **MCWorker** put components side by side for TLC: `MCComponents` extends `Rwlock`, `Channel` and the worker's modules with a
liveness property or a long list of instances, `MCWorker` extends `ThreadPool` and the modules that have safety properties only. The components share no variable, so a product of them
would say nothing more than each alone: `part` picks the one that moves and
the others keep their initial state. For the same reason the run of safety properties of `MCComponents` has `VIEW Moving`: two states are the same if
the part that moves is, which spares TLC the fingerprints of the parts at rest. Four properties that take long to evaluate (`OrderHolds` for `OutputInOrder`, `PipeHolds` for `PipeFaithful`, `ResolverHolds` for `ResolverSound`, `SlabHolds` for `SlabSound`) are stated there for the moving part only.

## 3. Runs

Every bound is a constant named in the module: `Max...` bounds limit how often the environment
acts (signals, crashes, failing calls, arrivals), never what the program does with it.

| Run | Instance | Shows |
|---|---|---|
| `shmtx` | 3 workers, semaphore, 2 deaths or failing calls | no lost wakeup, refinement of MutexSpec and so exclusion; some waiter gets the mutex; a dead owner's mutex opens |
| `worker` | see below | accounting of `waiting`, each active task in one place, notifications; completion and the end of destruction; the safety properties of `Timers`, `EventLoop` and `Limits` |
| `acceptmutex` | 2 workers, 2 sockets, multi_accept on, one EMFILE, one failing event call, one crash, one graceful exit | `TurnSound`: turns exclude and `held` means armed; every step is a step of MutexSpec or none; waiting connections are taken |
| `master_signals` | 1 worker that may hang, any two of six signals, a crash, a fatal exit, a failing fork, a failing upgrade | the table knows every child; SIGTERM ends the master by SIGKILL if need be |
| `master_reload` | 2 workers, two signals of HUP and QUIT, a crash | never more than `worker_processes` workers of the current configuration; `ReloadCompletes`: new workers come and old ones go; the stop ends |
| `master_cache` | worker, manager and loader, HUP and USR1, a crash | `just_spawn` is set only within a turn of the loop, with processes that end by themselves |
| `components_safety` | see below | the safety properties of the channels and of the worker's other modules |
| `components_live` | see below | the liveness properties of `Rwlock`, `Upstream`, `HttpRequest`, `FileCache`, `EventPipe`, `Http2`, `Resolver`; exclusion of the lock |
| `master_failedexec`, `master_orphans`, `channel_mixed`, `upstream_early` | the smallest that show it | section 5 |

The instances of the composed runs (those of `worker` are marked):

| Part | `components_safety` | `components_live` | Properties |
|---|---|---|---|
| pool (`worker`) | 3 tasks, 2 threads, queue limit 1, index wraps at 2, 1 failing call | the same | `WaitingAccounted`, `ActiveTaskOwned`, `CompletionNotified`; `CompletionDelivered`, `DestroyEnds` |
| rwlock | | 3 processes, 3-bit word, a death | `RwExclusion`, `RwProgress` |
| channel | 3 slots, 4 children, 1 failing respawn, buffers of 3 | | `ChannelsAgree` |
| upstream | a repeatable request and a POST, 2 servers and a backup with weights and a limit, 2 tries, 1 idle connection, the clock past `fail_timeout` | 1 request of any kind | `PeersAccounted`, `NoResend`; `UpstreamEnds` |
| request | 2 subrequests, 2 items in each request | 2 subrequests, 1 item | `CountAccounted`, `OutputInOrder`; `RequestEnds` |
| cache | 3 requests, one of them without the lock, a death, an entry that may have been there before | the same with 2 requests, both with the lock | `CacheAccounted` (`NodeAccounted`, `SingleUpdater`, `SizeAccounted`); `UpdatingEnds` |
| timers (`worker`) | 2 timers, a clock of 16 values that wraps | | `TimersInTime` |
| events (`worker`) | 2 places, 3 incarnations, 2 batches | | `EventsReachTheirOwn` |
| pipe | 3 buffers of 2 units, a response of 8, a file of 4 | the same with a response of 6 | `PipeFaithful`; `PipeEnds` |
| http2 | 2 streams of different priority, one with trailers, windows of 1 or 2, a frame of the client | 1 stream, with and without a body, a window of 1 that may be raised | `OutputAccounted`, `StreamWoken`; `StreamEnds` |
| resolver | 3 names, 2 requests at a time and 4 in all, 4 zones (alias chain, alias loop, alias to no name, both families), an error or a truncation | 2 requests without timeouts, an alias of a name with one family, a lost query | `ResolverSound`; `ResolveEnds` |
| slab | 4 pages of 8 bytes, words of 4 bits, so that there are small, exact and big chunks; requests of 1, 8 and 16 bytes, or of 2, 4 and 24; 7 pieces at a time | | `SlabSound` |
| limits (`worker`) | 2 workers, 2 keys, 2 rate zones with room for one node each, 2 number zones, 3 kinds of requests, 2 units of time, a death or failing call | | `LimitsKept` |

Why the bounds are enough. Three lock users give an owner, a sleeper and a newcomer,
which is what the races in the lock code are between. Two threads with a queue limit of one
meet a full queue, a negative `waiting` and a thread that steals another's wakeup. Two
workers are the smallest number for which a stale `held` can mislead. In
the master, one event of each kind is enough for each pair of events to meet in each order; two
workers let one die while the other is being signalled. Three slots let a pass meet a slot
before and after the one it changes. Two requests compete for a server with `max_conns=1` and for the one idle connection; the backup is reached after
both primaries. Two subrequests are siblings, or one is inside the other, and two items let each be in between output of its parent. With three
requests one updates the cache entry, one waits and takes over an aged lock, and one without the lock comes beside them. Three incarnations let a place be
reused twice in a batch, which is the limit of the instance bit. Three buffers are one more than may be busy; a response of eight units is
the shortest in which a buffer can be read while older ones are on their way to the file and be sent before them, if the code let it. Two streams are enough for one to hold the connection's window the other waits for.
Two contexts share a query or follow each other through kept answers. Four pages have runs on both sides of a freed page, with one of two pages before it,
which only the mark in its last page leads to. Two workers look up the same excess before either charges it, and with room for one node the two keys evict each other.

Symmetry is not used: most runs check temporal properties, and the others have distinguished members.

Deadlock. TLC checks it except where the system may stop: all spin after a writer has died,
the master has exited or waits for a signal that the bounds no longer allow, all children
have been started, and in the worker's parts everything asked for is done.

Fairness. The scheduler is fair to a process that can run (weak fairness of
lock steps, threads, loop iterations). `ngx_shmtx_force_unlock` has strong fairness, since the
master's handler calls `waitpid` until there is no dead child left. Tasks end and critical sections end.
Nothing obliges a request to post a task, a worker to ask for a lock, or an uncapped poll
to return. In the master, `LiveSpec` assumes that a child told to quit ends when
its connections do; `HangSpec` does not assume anything of the children. In a worker, each module names what comes about by itself, and only that is fair:

- `UpProgress`: a handler that has begun goes on; the timers that are armed fire; a response that has begun ends or its timer fires. No server has to answer.
- `HrProgress`: posted requests run; a handler that waits for an event gets it or its timeout; threads end; the client's socket takes output or fails.
- `FcProgress`: requests go on and end. The manager need not come.
- `EpProgress`: a call of the pipe goes on, ready sockets and finished threads are handled. Both sockets have timers in the code, so neither end pauses for ever.
- `HtProgress`: posted events run, the read handler ends, armed timers fire. The client need not read or send frames.
- `RsProgress` and `RsServers`: handlers are called, the resolver's timer fires, and a server answers a query that reaches it. Queries may be lost `MaxLost` times. The requests' own timeouts are not used (`Untimed`): with them `ResolveEnds` would be too easy.

Liveness and failures. Some progress is lost by design of the code when a call fails or a
process dies at the wrong place, and some safety is lost in known corners. The properties
name what they except as an alternative (`faults > 0`, `leaks > 0`, ...), the model reaches each of these states, and the
hazards in `PROJECT.json` describe them:

- a worker that dies between freeing the mutex and posting the semaphore leaves a sleeper asleep, a writer that dies with the
  reader-writer lock is never found out, a failing signal of the pool's condition leaves its caller without an answer;
- `UpstreamEnds`: an attempt made after the client has a header (finding 4) has no read timer;
- `CountAccounted`, `RequestEnds`: a request that was terminated for a subrequest which is not the active one, while a thread
  reads for it, is *stranded* (`ngx_http_request.c:2649`): the completion runs another request's handler;
- `CacheAccounted`: the zone's size drifts after a race of the manager's unlinking, or of a second rename, with an update (`raced`);
- `CacheAccounted`: its part `SingleUpdater` counts every request that may rename and update, marked or not. It says nothing while one at work on the entry has gone past the
  mark (`bypassed`): because its lock is off (`ngx_http_file_cache.c:408`, the default), it bypasses the cache, it fetches beside another that
  updates a stale entry (`:643`, so does the subrequest of a background update), it found a file of no use, or it took over a lock
  that came of age. Each of them means several updaters in the code. When all at work have left, the property speaks again;
- `EventsReachTheirOwn`: a place that is opened twice within one batch has its old instance bit again;
- `StreamWoken`, `StreamEnds`: a stream whose request was terminated without an error on its connection, and whose last blocked frame goes
  while its window is exhausted, gets no event (`ngx_http_v2_filter_module.c:2050`), and its connection waits for it;
- `ResolveEnds`: a name whose families have all answered without a usable record is not asked for any more
  (`ngx_resolver.c:2511`); only the requests' own timers end the waiting;
- `LimitsKept`: counts of dead workers and of requests that failed half way stay in the zones (`lost`, `lostConns`); a stale `ctx->node` is charged for
  another key and may pass the burst (`misled`); a clock that jumped back by more than `LrSkew` gives away what it had not yet earned (`back`); and the excess of
  a limit that is not the last may pass the burst by one request of every other worker, by a thousandth for each more, since the allowance of a time that is cut in two is rounded twice,
  and by the rate of one millisecond, which a worker is granted whose clock has jumped. The bound of `BurstKept` is what the proof came to; the run only meets one worker ahead.

## 4. Proofs

| Theorem | States |
|---|---|
| `ShmtxProofs`: `ShmtxImplementsMutex`, `NoWakeupIsLost` | `ImplementsMutex` and `NoLostWakeup` of run `shmtx` |
| `ShmtxProofs`: `TypeCorrect`, `MutualExclusionHolds`, `LockAlwaysAccounted`, `WaitAlwaysAccounted`, `ReleaseDiscipline` | exclusion, what the lock word and `wait` count, and who may free the mutex: the strengthenings and a step property |
| `ThreadPoolProofs`: `WaitingAlwaysAccounted`, `TasksAreOwned`, `CompletionsAreNotified`; `TypeCorrect`, `QueuedTasksAreAttended` | the three invariants of run `worker`, and that no thread is idle next to a queued task |
| `MasterProcessProofs`: `ChildrenAreTracked`, `JustSpawnEnds` | `ChildrenTracked` of run `master_signals`, `JustSpawnIsBrief` of run `master_cache` |
| `MasterProcessProofs`: `WorkersAreBounded` | `WorkersBounded` of run `master_reload`, assuming `MaxFaults = 0` and no USR2 among the signals: with either the code starts workers twice (section 5) |
| `UpstreamProofs`: `ExclusionHolds`; `TypeCorrect`, `LockWordAlwaysAccounted` | `RwExclusion` of run `components_live`, and what the word counts |
| `EventLoopProofs`: `TurnsAreSound`, `MutexUsedAsSpecified` (and `TypeCorrect`) | `TurnSound`: `OwnerInTurn`, and with it that two turns never overlap, and `HeldTellsArmed`; `UsesMutexAsSpecified` |
| `EventLoopProofs`: `EventsReachTheirConnections`, `TimersFireInTime` | `EventsReachTheirOwn` and the step property `TimersInTime` of run `worker` |
| `UpstreamProofs`: `RequestsAreNotResent`, `PeersAreAccounted` | `NoResend` and `PeersAccounted` of run `components_safety` |
| `UpstreamProofs`: `CacheIsAccounted` (with `OneUpdaterUnlessBypassed`, and `FileCacheTypes`) | `CacheAccounted` of run `components_safety`: users of nodes, sizes of files and, unless the mark was passed, one updater; with the lock on or off |
| `Http2Proofs`: `OutputIsAccounted`, `StreamsAreWoken`; `ConnectionIsSound` | `OutputAccounted` and `StreamWoken` of run `components_safety`, and the invariant behind them |
| `LimitsProofs`: `LimitsAreKept` | `LimitsKept` of run `worker`: counts of the nodes, rate, burst, connections |

They hold for every value of the constants that satisfies the module's `ASSUME`,
which TLC evaluates in each run. What is proved for all instances and follows from
another checked property is not checked again by a run: the type invariants, `MutualExclusion`, `LockWordAccounted` and `NoIdleWhileQueued`.

*Shmtx.* `LockAccounted` is inductive with `TypeOK`: a worker holds the mutex, by its
`pc`, only if the word names it, and the word names only a holder or a dead worker.
Exclusion, the release discipline and the refinement (the word is the abstract owner, the unreaped
workers the abstract dead) follow step by step from it. `WaitAccounted`
needs finite sets: each step moves one process in or out of `Announced` or `Posting`, and the cardinalities follow.
`NoLostWakeup` uses `WaitAccounted`: a sleeper is announced, so if nobody is about to post and
the semaphore is 0 then `wait` is positive, and the worker that frees the mutex finds it so.
Without a semaphore nobody sleeps, which is an invariant of its own.

*ThreadPool.* `TypeInv` strengthens `TypeOK` by what a thread at each label has in its hands.
`WaitingAccounted` is inductive with it. `NoIdleWhileQueued` needs `WaitingAccounted` and a case
split on whether a post finds a waiting thread. `CompletionNotified` is inductive with `TypeInv`.

*Rwlock.* The inductive invariant joins exclusion and accounting: the exclusion
follows from the word, and the word's count can only be kept with exclusion. It
assumes fewer processes than the writer's mark, so that counting readers never reaches it.

*AcceptMutex.* `TurnInv` adds to `OwnerInTurn` that a dead worker is at `down`. It makes
every unlock either the owner's or without effect, and that is what the refinement of `MutexSpec` needs. `HeldTellsArmed` is not inductive:
`ArmedInv` says for each label what the flag and the enabled events are while one is changed before the other, and that only a failed event call ends it.

*ThreadPool, tasks.* `OwnerInv` counts, for each task, its places in the queue, in the threads, in the list of the done and in the handler's
batch: never two, one if the task is active, none otherwise. It adds that the batch is empty unless the handler walks it, so that taking the list over drops nothing.

*MasterProcess.* `MpInv` says of the table that a pid has one slot (`Rows`), of the children that they are numbered as they are
forked (`Forked`), of both that the entries not marked `exited` are the children not waited for (`Met`), and of `just_spawn` that it is set in one stage only.
`SpawnIntoFacts` is the lemma the rest stands on: however many children are started, each gets a slot that was free or new. `Place` and `Nth` number a set's elements
so that a pass of the code over the table is one function and needs no induction.
`WorkersBounded` is not inductive: an old worker that has died but was not told to quit would be started again with the new configuration.
`BdInv` therefore counts entries of the table: one counts if its worker is of the current configuration, or is not `exiting` and would be started again, except
while the old workers are told to quit. At most `worker_processes` entries count. A reload finds the others to be older, and starts that many; a respawn takes the place of an entry that counted;
and every other step maps the counted entries one to one to entries that counted before. An entry is marked `exited` only until `ngx_reap_children` has run, so that no signal to a child meets ESRCH.

*EventLoop.* The invariant `ElInv` has the pool (`PoolSound`: the free list, the open places and the queue of reusable ones have no place twice and
none in common; a posted event is in the queue once, its place is marked and still has the connection it was posted for), the batch (`Known`: an event's place, if it was not opened since, has the event's connection or none,
and if it was opened once has the other instance bit), and that nothing runs while events are only posted.

*Timers.* Keys are numbers modulo `Range2`. `TmInv` gives each event in the tree the time `Time(e)` near the clock that its key stands for. It
bounds that time by what the timer was set to, the lazy delay and how late the process may be, so that any two lie within half the range and the
signed difference of two keys is the true difference of their times; and it says that the tree is sorted by these times.
So the leftmost node is the earliest and the step property follows. What it rests on is the module's assumption that a delay and what a timer is late by stay within half the range.

*Upstream.* `SendInv` relates a request to its present attempt: one that is not to be repeated has been written by this attempt or not at all, and not at all
when another attempt begins. `MayGoOn`, the guard of `ngx_http_upstream_next`, is what keeps it.
`PeersAccounted` is proved of the bundles that the functions of the code work on. `BundleSound` says of a bundle, given the servers and connections of all other requests, that it accounts for the
rest: a server's `conns` is what the others hold plus one if the request has it, and a connection is the request's, another's (`Owned`) or in the cache, once.
Each function (`Kept`, `FreePeer`, `CloseConn`, `Connected`, `ngx_http_upstream_next`, `ngx_http_upstream_finalize_request`) keeps a bundle sound; a handler begins with a sound bundle (`Bundled`), and one that
ends with a sound bundle keeps the invariant `PeersInv` (`SetPeers`), in which a request has a server exactly while it has a connection. That a connection is free when one is wanted is a count (`FreeConn`).
The balancer's loop takes what it pays from one server of a list and gave it to others, so that the sum over the list stays (`SumMoved`). This needs to know what a sum over a set is: the sum is the library's
recursive function on the subsets, and `SumDefined`, `SumUnique` and `SumAnyOrder` show by induction that there is one such function and that it adds in any order.

*FileCache.* `FcInv` adds to the accounting of the node's users that, unless one of those at work has gone past the mark (`bypassed`), there is at most one of them,
and it has set the mark and owns the node's lock (`MarkedByOne`); and what the node, the file and the size of the zone have to do with each other at each step of the manager and of a rename.
"At work" are all that may rename, and those that hold the mark and serve a stale response: with only the marked ones `SingleUpdater` would not be inductive, nor say what it should.
Nothing is assumed of `LockOn`: the theorems hold with the lock on, off, or on for some requests only.

*Limits.* `LimInv` counts, for each node, the workers that have it in `ctx->node` (`CountSound`), so that a node in use has `count > 0` and is not expired, and says
of each worker that it works on a zone its request has a key for (`AtWork`) and, while no look-up has failed, has no other node than its request's (`Tidy`). The rate
(`RateSound`) is kept by each charge, as an allowance for two times is not more than that for their sum. The burst is not inductive: a node that was looked up is charged later, by
workers whose times differ, with an excess that has grown. `BurstSound` therefore bounds, for every time `T` after the last charge, the excess less what `T` earns plus one share for each
worker that is still to charge by `T`. A look-up establishes the bound for its own time, since the excess was within the burst then; a charge uses up its worker's share;
a longer time earns more. At the time of the last charge it bounds the excess itself (`AllowedWithin`).

*Http2.* `HtInv` says, of a connection that has not failed, how a stream's state bounds its frames (`StreamOk`, `FrameOk`: none before its answer and none after it is closed, and no frame that could
be dropped while it is being closed), what any two frames of the queue owe each other (`Before`: whatever follows is not begun; a stream's header is first and its end last; what follows a stream's reset can still be dropped, and
belongs to a request that does not know yet), who waits for the connection's window and when (`WaitOk`), and that each stream has something that will wake it (`Woken`). Handlers break it for the stream they work on and
restore it before they return: `Kept` therefore has two parameters, the stream `cur` whose frames and place among the waiting may be out of order, and the stream `lazy` that nothing need wake, because it is the one
that runs. Each operator of the code (`Terminate`, `Noticed`, `ngx_http_v2_close_stream`, `ngx_http_v2_send_chain`, `StreamWriter`, `WriteHandler`, `ngx_http_v2_finalize_connection`) has one lemma that says with which of them it begins and with which it ends, and
the lemma of an action composes them. What the socket takes is a cut of the queue at any place (`TakenSound`): all that the rest of the proof knows of it is `Went`. The loops keep that what they have yet to visit is there still (`Others`: a handler for one stream
changes the state of no other), which the case of a `SETTINGS` frame that ends a stream needs.
`Chosen`, the walk along a list that takes out some of its elements, is defined by recursion over the sequence, because the prover knows nothing of `SelectSeq`;
`ChosenFacts`, `ChosenOfBoth` and `ChosenTwice` say what it does with order, concatenation and repetition, by induction over sequences that are parameters of a set (`AllSequences`), and the lengths of the frames in a queue are a sum like the balancer's weights.

Only model-checked: all liveness properties (fairness and ENABLED are outside what the prover handles), and
`ChannelsAgree`, `CountAccounted`, `OutputInOrder`, `PipeFaithful`, `ResolverSound`, `SlabSound`, whose invariants
relate more state, or a whole pass over it, than has been worked out. The library's induction theorems cannot be used, as they take an operator as a parameter. Where the induction is over a set it is done
without one: `LeastNat` (from the library's `WFMin`, which takes sets) and `FiniteInduction`, in which the set of the subsets that satisfy the claim is a parameter. No module has recursive operators, about which the prover could do nothing.

## 5. Code against documentation

Four runs end in a counterexample, each a behaviour of the code that the text quoted in
`PROJECT.json` does not have.

1. `master_failedexec`: a failed binary upgrade leaves `ngx_new_binary` at -1, which is true. The next
   SIGHUP starts a second set of workers and does not reload (`ngx_process_cycle.c:275`, `:224`).
2. `master_orphans`: during an upgrade, when all old workers have gone, HUP starts workers without
   setting `live`; QUIT then ends the master at once and the workers stay (`:224`, `:178`).
3. `channel_mixed`: in one pass, after a respawn, a removed child is announced as an open channel (`:634`, `:567`).
4. `upstream_early`: a server answers before it has read the request and then stops reading; the write
   timer, which is still armed, starts a second attempt although the client has the header
   (`ngx_http_upstream.c:2239`, before the test of `header_sent` at `:2252`).

More behaviours bound what the passing runs can say; the hazards describe them. Those of the worker are listed at the end of section 3; those of the master are

- USR2, WINCH, then HUP noticed together with the new binary's exit: the
  workers are started by the reload and again by the restart (`:256`). `WorkersBounded` is checked without upgrades.
- After a failed fork there may be no child whose SIGCHLD would let `live` be computed, and QUIT
  does not end (`:622`, `:359`). `QuitEnds` is checked with successful forks.
- An entry whose respawn failed meets ESRCH in the next reload, loses `exiting` and is
  started again next to its replacement (`:541`). `WorkersBounded` is checked with successful forks.

`ChannelsAgree` excludes the third finding by `mixed`. Two more things met while HTTP/2 was modelled are
outside the properties: after a terminated request its DATA frames are dropped but a trailers frame that was queued, with END_STREAM,
still goes out; and a `RST_STREAM` queued when a stream is closed outside the read handler is flushed by the next event of the connection only.

## 6. Not modelled

The models are of the code whose control is hard: the parts where several actors, callbacks or failures meet. Most of the repository's lines are of another kind and stay outside:

- Text: parsing, formatting, logging, configuration directives, variables and scripts, the encoding of
  messages and of the environment of a new binary; HPACK.
- Libraries: OpenSSL, PCRE, zlib, libxslt, GeoIP, Perl.
- Alternatives of other systems: kqueue, devpoll, eventport, select, poll, win32; mutexes on fcntl locks.
- Memory ordering below the atomic operations: the atomics are full barriers on
  the supported processors. Failing allocations, whose paths end in the error paths that are modelled.
- In AcceptMutex: reuseport sockets (never disabled by the mutex), deferred accept, UDP.
- In Channel: failing first starts, and the descriptor numbers left behind by a failed fork (see the hazards).
- In Upstream: TLS, upgraded connections, `preserve_output`, interception of errors, the other balancers, servers shared by several workers (the lock is `Rwlock`'s matter).
- In HttpRequest: reading of headers and bodies, keepalive and lingering close, which free the request as the close does.
- In Slab: a worker that dies within an operation, which leaves the zone half changed and nobody repairs. In Limits: how long a request is delayed, the inheriting of zones.
- In FileCache: the loader, variants by `Vary`, eviction by size. In Resolver: SRV and PTR, servers that lie about aliases.
- Digests: arithmetic that TLC cannot exhaust.

## 7. Plan

1. Theorems for the rest: `HttpRequest` (`CountAccounted`), `Resolver` (`NodesAccounted`), `Channel`.
2. `Slab` against an abstract allocator, as a refinement; `OpenFileCache`.
3. `Cycle` (reload and rollback, zones), composed with `MasterProcess`; the zones a dead worker of an older cycle may leave locked belong here.
4. `Stream` and `Mail` sessions; UDP listeners; the chunked and HTTP/2 frame parsers as resumable machines against a
   reference over short inputs.
