----------------------------- MODULE FileCache ------------------------------
(***************************************************************************)
(* One entry of the HTTP file cache, ngx_http_file_cache.c: its node in     *)
(* shared memory, its file, the requests of several workers that use it and *)
(* the cache manager that removes it.                                       *)
(*                                                                          *)
(* Every section under the mutex of the zone is one step (Shmtx); opening,  *)
(* renaming and unlinking the file are steps of their own between them.     *)
(* The queue of inactive entries and the clock are left open: any unused    *)
(* entry may be the one that expires, any response may be stale, any lock   *)
(* may come of age.  Requests may have the lock of new entries off          *)
(* (proxy_cache_lock, as by default) or not look at the cache before they   *)
(* fetch (proxy_cache_bypass).  min_uses is 1, the cache is not cold.       *)
(***************************************************************************)
EXTENDS Integers, FiniteSets

CONSTANTS
  Clients,     \* the requests for the key
  LockOn,      \* those with c->lock
  Sizes,       \* the sizes of responses
  MaxLeaks     \* bound: requests whose worker dies

ASSUME FileCacheAssumption ==
  /\ IsFiniteSet(Clients)
  /\ LockOn \subseteq Clients
  /\ Sizes \subseteq Nat \ {0}
  /\ MaxLeaks \in Nat

VARIABLES
  node,        \* ngx_http_file_cache_node_t
  file,        \* the size of the file, 0 when there is none
  size,        \* cache->sh->size
  cl,          \* each request with its ngx_http_cache_t
  manager,     \* where the cache manager is
  leaks,       \* references of requests whose worker died
  bypassed,    \* a request at work on the entry has gone past the mark
  raced        \* see SizeAccounted

fcVars == <<node, file, size, cl, manager, leaks, bypassed, raced>>

NoNode ==
  [here |-> FALSE, count |-> 0, exists |-> FALSE, error |-> FALSE,
   updating |-> FALSE, deleting |-> FALSE,
   lock |-> 0,       \* lock_time, by the number of times it was set
   aged |-> TRUE,    \* lock_time is not in the future
   fs_size |-> 0]

NoCache ==
  [st |-> "idle", updating |-> FALSE, lock |-> 0,
   patient |-> TRUE,   \* c->lock_timeout is not 0
   error |-> FALSE,
   new |-> 0]          \* the size of the response it renamed

(* Nothing has been cached, or a response of some size by requests before.  *)
FcInit ==
  /\ file \in {0} \cup Sizes
  /\ node = IF file = 0 THEN NoNode
            ELSE [NoNode EXCEPT !.here = TRUE, !.exists = TRUE, !.fs_size = file]
  /\ size = file
  /\ cl = [r \in Clients |-> NoCache]
  /\ manager = "idle"
  /\ leaks = 0
  /\ bypassed = FALSE
  /\ raced = FALSE

To(r, st) == cl' = [cl EXCEPT ![r].st = st]

(* The request is over and its ngx_http_cache_t is gone.                    *)
Done(r) == cl' = [cl EXCEPT ![r] = [NoCache EXCEPT !.st = "done"]]

(* Which requests have c->node with its reference counted.                  *)
Holders == {r \in Clients : cl[r].st \notin {"idle", "done"}}

(* Which requests fetch a response to put it into the cache, until the node *)
(* is told of it: all that may rename and update.                           *)
Updaters == {r \in Clients : cl[r].st \in {"fetch", "renamed"}}

(* These, and those that have set the mark and serve a stale response.      *)
Working == Updaters \cup {r \in Clients : cl[r].updating}

(* ngx_http_file_cache_exists, for a request that goes on as told when the  *)
(* entry is new, has a cached error or has a file.  An error that is too    *)
(* old is forgotten.                                                        *)
ngx_http_file_cache_exists(r, new, error, old) ==
  LET more == IF cl[r].st = "idle" THEN 1 ELSE 0
      used == [node EXCEPT !.count = @ + more]
  IN  /\ \/ /\ ~node.here
            /\ node' = [NoNode EXCEPT !.here = TRUE, !.count = 1]
            /\ To(r, new)
            /\ UNCHANGED raced
         \/ /\ node.here /\ node.error
            /\ \/ /\ node' = used
                  /\ cl' = [cl EXCEPT ![r].st = error, ![r].error = TRUE]
                  /\ raced' = (raced \/ node.deleting)
               \/ /\ node' = [used EXCEPT !.error = FALSE, !.exists = FALSE,
                                          !.fs_size = 0]
                  /\ To(r, new)
                  /\ raced' = (raced \/ node.deleting \/ node.exists)
         \/ /\ node.here /\ ~node.error
            /\ node' = used
            /\ To(r, IF node.exists THEN old ELSE new)
            /\ raced' = (raced \/ node.deleting)
      /\ UNCHANGED <<file, size, manager, leaks>>

(* A request that has waited comes here again with its node.                *)
ngx_http_file_cache_open(r) ==
  /\ cl[r].st \in {"idle", "woken"}
  /\ ngx_http_file_cache_exists(r, "lock", "served", "open")
  /\ UNCHANGED bypassed

(* A request that bypasses the cache wants the node when it has a response  *)
(* to put there, whatever others do.                                        *)
ngx_http_file_cache_create(r) ==
  /\ cl[r].st = "idle"
  /\ ngx_http_file_cache_exists(r, "fetch", "fetch", "fetch")
  /\ bypassed' = TRUE

(* ngx_open_cached_file and ngx_http_file_cache_read: the response is fresh *)
(* or stale; the first to find it stale is to update it, by itself or, when *)
(* it is served stale, by a subrequest in the background; the others serve  *)
(* it or go to the server as well, as that subrequest does.  So does one    *)
(* that finds a file of another version or key, or an invalid header.       *)
ngx_http_file_cache_read(r) ==
  /\ cl[r].st = "open"
  /\ \/ /\ file = 0
        /\ To(r, "lock")
        /\ UNCHANGED <<node, bypassed>>
     \/ /\ file # 0
        /\ To(r, "served")
        /\ UNCHANGED <<node, bypassed>>
     \/ /\ file # 0
        /\ To(r, "fetch")
        /\ bypassed' = TRUE
        /\ UNCHANGED node
     \/ /\ file # 0 /\ ~node.updating
        /\ node' = [node EXCEPT !.updating = TRUE]
        /\ \E st \in {"fetch", "served"} :
             cl' = [cl EXCEPT ![r].st = st, ![r].updating = TRUE,
                              ![r].lock = node.lock]
        /\ UNCHANGED bypassed
  /\ UNCHANGED <<file, size, manager, leaks, raced>>

(* ngx_http_file_cache_lock: without the lock a request fetches the entry,  *)
(* whoever does so besides.  With it one request fetches a new entry, the   *)
(* others wait for it; one that has waited long enough fetches without      *)
(* caching.                                                                 *)
ngx_http_file_cache_lock(r) ==
  /\ cl[r].st = "lock"
  /\ \/ /\ r \notin LockOn
        /\ To(r, "fetch")
        /\ bypassed' = TRUE
        /\ UNCHANGED node
     \/ /\ r \in LockOn
        /\ ~node.updating \/ node.aged
        /\ node' = [node EXCEPT !.updating = TRUE, !.lock = @ + 1, !.aged = FALSE]
        /\ cl' = [cl EXCEPT ![r].st = "fetch", ![r].updating = TRUE,
                            ![r].lock = node.lock + 1]
        /\ bypassed' = (bypassed \/ (node.updating /\ node.aged))
     \/ /\ r \in LockOn
        /\ node.updating /\ ~node.aged
        /\ To(r, IF cl[r].patient THEN "wait" ELSE "served")
        /\ UNCHANGED <<node, bypassed>>
  /\ UNCHANGED <<file, size, manager, leaks, raced>>

(* ngx_http_file_cache_lock_wait, on the timer                              *)
ngx_http_file_cache_lock_wait(r) ==
  /\ cl[r].st = "wait"
  /\ \/ cl' = [cl EXCEPT ![r].st = "woken", ![r].patient = FALSE]
     \/ /\ ~(node.updating /\ ~node.aged)
        /\ To(r, "woken")
  /\ UNCHANGED <<node, file, size, manager, leaks, bypassed, raced>>

(* The response is complete: ngx_http_file_cache_update renames it into     *)
(* place (and forgets c->updating, of no use from here on) ...              *)
Rename(r) ==
  /\ cl[r].st = "fetch"
  /\ \E s \in Sizes :
       /\ file' = s
       /\ cl' = [cl EXCEPT ![r].st = "renamed", ![r].new = s]
  /\ raced' = (raced \/ \E o \in Clients : cl[o].st = "renamed")
  /\ UNCHANGED <<node, size, manager, leaks, bypassed>>

(* ... or cannot, or cannot ask for the size of the file ...                *)
RenameFails(r) ==
  /\ cl[r].st = "fetch"
  /\ To(r, "renamed")
  /\ file' \in {file} \cup Sizes
  /\ raced' = (raced \/ file' # 0)
  /\ UNCHANGED <<node, size, manager, leaks, bypassed>>

(* It is done with the entry, on which now perhaps nobody works any more.   *)
Leave(r) == Done(r) /\ bypassed' = (bypassed /\ Working' # {})

(* Mutant: the entry stays marked as being updated.                         *)
UpdateKeepsMark(r) ==
  /\ cl[r].st = "renamed"
  /\ size' = size + cl[r].new - node.fs_size
  /\ node' = [node EXCEPT !.count = @ - 1, !.error = FALSE,
                          !.fs_size = cl[r].new,
                          !.exists = IF cl[r].new # 0 THEN TRUE ELSE @]
  /\ Leave(r)
  /\ UNCHANGED <<file, manager, leaks, raced>>

(* ... and tells the node, which is then not being updated, even when that  *)
(* was the mark of another request.                                         *)
ngx_http_file_cache_update(r) ==
  /\ cl[r].st = "renamed"
  /\ size' = size + cl[r].new - node.fs_size
  /\ node' = [node EXCEPT !.count = @ - 1, !.error = FALSE,
                          !.fs_size = cl[r].new,
                          !.exists = IF cl[r].new # 0 THEN TRUE ELSE @, !.updating = FALSE]
  /\ Leave(r)
  /\ UNCHANGED <<file, manager, leaks, raced>>

(* Mutant: the mark goes with any request, not only with the one that set   *)
(* it.                                                                      *)
FreeUnmarks(r) ==
  LET c == cl[r]
      left == [node EXCEPT !.count = @ - 1, !.updating = FALSE]
  IN  /\ c.st \in {"served", "fetch"}
      /\ \E error \in {c.error} \cup (IF c.st = "fetch" THEN {TRUE} ELSE {}) :
           node' = IF error THEN [left EXCEPT !.error = TRUE]
                   ELSE IF ~left.exists /\ left.count = 0 THEN NoNode ELSE left
      /\ Leave(r)
      /\ UNCHANGED <<file, size, manager, leaks, raced>>

(* ngx_http_file_cache_free: nothing to cache, perhaps but an error.  A     *)
(* node without a file goes with its last request.                          *)
ngx_http_file_cache_free(r) ==
  LET c == cl[r]
      left == [node EXCEPT !.count = @ - 1,
                 !.updating = @ /\ ~(c.updating /\ node.lock = c.lock)]
  IN  /\ c.st \in {"served", "fetch"}
      /\ \E error \in {c.error} \cup (IF c.st = "fetch" THEN {TRUE} ELSE {}) :
           node' = IF error THEN [left EXCEPT !.error = TRUE]
                   ELSE IF ~left.exists /\ left.count = 0 THEN NoNode ELSE left
      /\ Leave(r)
      /\ UNCHANGED <<file, size, manager, leaks, raced>>

(* The time of the lock passes.                                             *)
LockAges ==
  /\ node.updating /\ ~node.aged
  /\ node' = [node EXCEPT !.aged = TRUE]
  /\ UNCHANGED <<file, size, cl, manager, leaks, bypassed, raced>>

(* The worker of a request dies.                                            *)
WorkerDies(r) ==
  /\ leaks < MaxLeaks
  /\ r \in Holders
  /\ Leave(r)
  /\ leaks' = leaks + 1
  /\ UNCHANGED <<node, file, size, manager, raced>>

(* ngx_http_file_cache_expire, or forced_expire, calls                      *)
(* ngx_http_file_cache_delete, which gives up the mutex to unlink the file  *)
ngx_http_file_cache_expire ==
  /\ manager = "idle"
  /\ node.here /\ node.count = 0
  /\ IF node.exists
     THEN /\ size' = size - node.fs_size
          /\ node' = [node EXCEPT !.count = @ + 1, !.deleting = TRUE]
          /\ manager' = "unlink"
     ELSE /\ node' = NoNode
          /\ UNCHANGED <<size, manager>>
  /\ UNCHANGED <<file, cl, leaks, bypassed, raced>>

Unlink ==
  /\ manager = "unlink"
  /\ file' = 0
  /\ manager' = "relock"
  /\ UNCHANGED <<node, size, cl, leaks, bypassed, raced>>

(* and takes it again.                                                      *)
ngx_http_file_cache_delete ==
  /\ manager = "relock"
  /\ node' = IF node.count = 1 THEN NoNode
             ELSE [node EXCEPT !.count = @ - 1, !.deleting = FALSE]
  /\ manager' = "idle"
  /\ UNCHANGED <<file, size, cl, leaks, bypassed, raced>>

(* What a request does by itself once it has begun.                         *)
FcProgress ==
  \/ \E r \in Holders :
       \/ ngx_http_file_cache_open(r)
       \/ ngx_http_file_cache_read(r)
       \/ ngx_http_file_cache_lock(r)
       \/ ngx_http_file_cache_lock_wait(r)
       \/ Rename(r)
       \/ RenameFails(r)
       \/ ngx_http_file_cache_update(r)
       \/ ngx_http_file_cache_free(r)

FcNext ==
  \/ FcProgress
  \/ \E r \in Clients :
       \/ cl[r].st = "idle" /\ ngx_http_file_cache_open(r)
       \/ ngx_http_file_cache_create(r)
       \/ WorkerDies(r)
  \/ LockAges
  \/ ngx_http_file_cache_expire
  \/ Unlink
  \/ ngx_http_file_cache_delete

FcSpec == FcInit /\ [][FcNext]_fcVars

----------------------------------------------------------------------------
(* The count of the node is the number of its users: the requests that have *)
(* it, the manager while it unlinks the file, and the requests whose worker *)
(* died.  So no request is left with a node that was freed.                 *)
NodeAccounted ==
  /\ node.here =>
       node.count = Cardinality(Holders) + leaks + (IF manager = "idle" THEN 0 ELSE 1)
  /\ ~node.here => Holders = {} /\ leaks = 0 /\ manager = "idle"

(* One request at most fetches the response and puts it into the cache,     *)
(* unless one of those at work on the entry has gone past the mark: without *)
(* the lock (ngx_http_file_cache.c:408), by a bypass, next to another that  *)
(* updates a stale entry, past a file of no use, or by taking over the mark *)
(* of a lock that came of age.  When all that were at work have left, one   *)
(* at a time is the rule again.                                             *)
SingleUpdater == ~bypassed => Cardinality(Updaters) <= 1

(* While nobody changes the entry the size of the cache counts its file and *)
(* nothing else, provided that no request has taken the entry while its     *)
(* file was being unlinked, no cached error has replaced a file, no rename  *)
(* has failed beside one and no two requests have renamed at a time (raced).*)
SizeAccounted ==
  /\ ~raced /\ Holders = {} /\ manager = "idle" /\ leaks = 0
  => size = file

(* The users of an entry, those among them that may replace it, and its     *)
(* size, all as the node and the zone tell.                                 *)
CacheAccounted == NodeAccounted /\ SingleUpdater /\ SizeAccounted

(* An entry does not stay marked as being updated, unless a worker died.    *)
UpdatingEnds == node.updating ~> ~node.updating \/ leaks > 0
=============================================================================
