-------------------------------- MODULE Slab --------------------------------
(***************************************************************************)
(* The slab allocator of a shared zone (core/ngx_slab.c).  Whole pages come *)
(* from a list of runs of free pages, split when one is taken and joined    *)
(* again with their neighbours when it is freed; smaller pieces are chunks  *)
(* of pages that hold chunks of one size, and the pages of a size that have *)
(* a free chunk are in the list of its slot.  Every operation runs under    *)
(* the mutex of the pool (or with it held by the caller), so it is one step.*)
(*                                                                          *)
(* Addresses are bytes from pool->start.  Of the statistics reqs and fails, *)
(* which nothing reads back, are left out, and so are the debugging aids.   *)
(***************************************************************************)
EXTENDS Integers, FiniteSets, FiniteSetsExt

CONSTANTS
  SlabPages,   \* pages of the pool
  PageShift,   \* ngx_pagesize_shift
  MinShift,    \* pool->min_shift
  WordBits,    \* 8 * sizeof(uintptr_t)
  SlabUses,    \* what may be asked for: sets of sizes in bytes
  MaxGiven     \* bound: pieces that are given out at a time

ASSUME SlabAssumption ==
  /\ SlabPages \in Nat \ {0}
  /\ {PageShift, MinShift, WordBits, MaxGiven} \subseteq Nat
  /\ MinShift < PageShift /\ WordBits > 1
  /\ UNION SlabUses \subseteq Nat \ {0}

VARIABLE sl    \* the pool, and in live what it has given out

PageSize == 2 ^ PageShift
MaxSize == PageSize \div 2
ExactShift == CHOOSE i \in 0..PageShift : 2 ^ i = PageSize \div WordBits

(* Pointers to page descriptors, to the list heads among them, and NULL.    *)
SlPages == 1..SlabPages
Null == 0
FreeHead == -1
Slot(shift) == -2 - shift
Shifts == MinShift..(PageShift - 1)
Descriptors == SlPages \cup {FreeHead} \cup {Slot(s) : s \in Shifts}

(* The chunks of a page, those of them that hold its bitmap, and the type.  *)
Chunks(shift) == 0..(2 ^ (PageShift - shift) - 1)
BitmapChunks(shift) ==
  IF shift >= ExactShift THEN {}
  ELSE 0..(Max({1, Cardinality(Chunks(shift)) \div (2 ^ shift * 8)}) - 1)
PageType(shift) ==
  CASE shift < ExactShift -> "small" [] shift = ExactShift -> "exact" [] OTHER -> "big"

(* The word slab of a descriptor: the length of a run of free pages, or 0   *)
(* in its other pages; the first of the pages that are in use together; the *)
(* others of them; or the size and the map of the chunks that are in use.   *)
Run(n) == [is |-> "run", n |-> n, map |-> {}]
Start(n) == [is |-> "start", n |-> n, map |-> {}]
Busy == [is |-> "busy", n |-> 0, map |-> {}]
ChunkMap(shift, map) == [is |-> "chunks", n |-> shift, map |-> map]

Descriptor(slab, next, prev, type) ==
  [slab |-> slab, next |-> next, prev |-> prev, type |-> type]
Loose(slab) == Descriptor(slab, Null, Null, "page")

SlInit ==
  \E use \in SlabUses :
  sl = [use |-> use,
        mem |-> [x \in Descriptors |->
                   CASE x = 1 -> Descriptor(Run(SlabPages), FreeHead, FreeHead, "page")
                     [] x = FreeHead -> Descriptor(Run(0), 1, Null, "page")
                     [] x < FreeHead -> Descriptor(Run(0), x, Null, "page")
                     [] OTHER -> Loose(Run(0))],
        pfree |-> SlabPages,
        total |-> [s \in Shifts |-> 0],
        used |-> [s \in Shifts |-> 0],
        live |-> {},
        alert |-> FALSE]

----------------------------------------------------------------------------
(* Lists.  prev holds the type of the page too, so it moves along.          *)
Unlinked(m, x) ==
  [m EXCEPT ![m[x].prev].next = m[x].next,
            ![m[x].next].prev = m[x].prev,
            ![m[x].next].type = m[x].type]

Linked(m, head, x, type) ==
  LET first == m[head].next
  IN [m EXCEPT ![x].next = first, ![head].next = x,
               ![x].prev = head, ![x].type = type,
               ![first].prev = x, ![first].type = type]

(* The descriptors of a list in their order, and its head from there on.    *)
Listed(m, head) ==
  LET at[i \in 0..SlabPages] ==
        IF i = 0 THEN m[head].next
        ELSE LET x == at[i - 1] IN IF x \in SlPages THEN m[x].next ELSE x
  IN at

(* The first run with n pages, or NULL.                                     *)
FirstFit(m, n) ==
  LET at == Listed(m, FreeHead)
      fits == {i \in DOMAIN at : at[i] \in SlPages /\ m[at[i]].slab.n >= n}
  IN IF fits = {} THEN Null ELSE at[Min(fits)]

(* ngx_slab_alloc_pages, after the search: x is the head of a run.          *)
ngx_slab_alloc_pages(m, x, n) ==
  LET k == m[x].slab.n
      rest == x + n
      m1 == IF k = n THEN Unlinked(m, x)
            ELSE [m EXCEPT ![x + k - 1].prev = rest,
                           ![rest] = Descriptor(Run(k - n), m[x].next, m[x].prev, "page"),
                           ![m[x].prev].next = rest,
                           ![m[x].next].prev = rest]
  IN [y \in Descriptors |->
        CASE y = x -> Loose(Start(n))
          [] y \in (x + 1)..(x + n - 1) -> Loose(Busy)
          [] OTHER -> m1[y]]

(* ngx_slab_free_pages, in its order: out of the slot's list, the run after *)
(* it, the run before it (found by its last page), and into the free list.  *)
JoinNext(m, x) ==
  LET j == x + m[x].slab.n
  IN IF j \in SlPages /\ m[j].type = "page" /\ m[j].next # Null
     THEN [Unlinked(m, j) EXCEPT ![x].slab = Run(m[x].slab.n + m[j].slab.n),
                                 ![j] = Loose(Run(0))]
     ELSE m

(* Mutant: only the page before it is looked at.                            *)
JoinOnePrev(m, x) ==
  LET j == x - 1
  IN IF x > 1 /\ m[j].type = "page" /\ m[j].next # Null
     THEN [m |-> [Unlinked(m, j) EXCEPT ![j].slab = Run(m[j].slab.n + m[x].slab.n),
                                        ![x] = Loose(Run(0))],
           at |-> j]
     ELSE [m |-> m, at |-> x]

JoinPrev(m, x) ==
  LET j0 == x - 1
      j == IF m[j0].slab = Run(0) THEN m[j0].prev ELSE j0
  IN IF x > 1 /\ m[j0].type = "page" /\ m[j].next # Null
     THEN [m |-> [Unlinked(m, j) EXCEPT ![j].slab = Run(m[j].slab.n + m[x].slab.n),
                                        ![x] = Loose(Run(0))],
           at |-> j]
     ELSE [m |-> m, at |-> x]

MarkLast(m, x) ==
  LET last == x + m[x].slab.n - 1
  IN IF last = x THEN m ELSE [m EXCEPT ![last].prev = x, ![last].type = "page"]

ngx_slab_free_pages(m, x, n) ==
  LET m1 == [y \in Descriptors |->
               CASE y = x -> [m[x] EXCEPT !.slab = Run(n)]
                 [] y \in (x + 1)..(x + n - 1) -> Loose(Run(0))
                 [] OTHER -> m[y]]
      m2 == IF m1[x].next # Null THEN Unlinked(m1, x) ELSE m1
      p == JoinPrev(JoinNext(m2, x), x)
  IN Linked(MarkLast(p.m, p.at), FreeHead, p.at, "page")

----------------------------------------------------------------------------
Given(at, size) == [at |-> at, size |-> size]
AddrOf(x) == (x - 1) * PageSize

(* ngx_slab_alloc_locked for more than half a page.                         *)
PageCount(size) == size \div PageSize + (IF size % PageSize # 0 THEN 1 ELSE 0)

AllocPages(size) ==
  LET n == PageCount(size)
      x == FirstFit(sl.mem, n)
  IN /\ size > MaxSize
     /\ x # Null
     /\ sl' = [sl EXCEPT !.mem = ngx_slab_alloc_pages(sl.mem, x, n),
                         !.pfree = @ - n,
                         !.live = @ \cup {Given(AddrOf(x), size)}]

ShiftOf(size) == Min({s \in Shifts : 2 ^ s >= size})

(* A page whose last free chunk was taken leaves its list.                  *)
ChunkTaken(m, x, shift, i) ==
  LET m1 == [m EXCEPT ![x].slab = ChunkMap(shift, m[x].slab.map \cup {i})]
  IN IF m1[x].slab.map = Chunks(shift)
     THEN [Unlinked(m1, x) EXCEPT ![x].next = Null, ![x].prev = Null,
                                  ![x].type = PageType(shift)]
     ELSE m1

(* The first page of a slot's list, if there is one, has a free chunk.      *)
FreeChunks(m, shift) == Chunks(shift) \ m[m[Slot(shift)].next].slab.map
HasChunk(m, shift) == m[Slot(shift)].next # Slot(shift) /\ FreeChunks(m, shift) # {}

(* ... for a chunk of that page.                                            *)
AllocChunk(size) ==
  LET shift == ShiftOf(size)
      x == sl.mem[Slot(shift)].next
      i == Min(FreeChunks(sl.mem, shift))
  IN /\ size <= MaxSize
     /\ HasChunk(sl.mem, shift)
     /\ sl' = [sl EXCEPT !.mem = ChunkTaken(sl.mem, x, shift, i),
                         !.used[shift] = @ + 1,
                         !.live = @ \cup {Given(AddrOf(x) + i * 2 ^ shift, size)}]

(* ... and of a new page, when the list is empty or, which is reported, its *)
(* first page is full.                                                      *)
AllocFirstChunk(size) ==
  LET shift == ShiftOf(size)
      x == FirstFit(sl.mem, 1)
      own == BitmapChunks(shift)
      i == Cardinality(own)
  IN /\ size <= MaxSize
     /\ ~HasChunk(sl.mem, shift)
     /\ x # Null
     /\ sl' = [sl EXCEPT
          !.mem = [ngx_slab_alloc_pages(sl.mem, x, 1) EXCEPT
                     ![x] = Descriptor(ChunkMap(shift, own \cup {i}), Slot(shift),
                                       Slot(shift), PageType(shift)),
                     ![Slot(shift)].next = x],
          !.pfree = @ - 1,
          !.total[shift] = @ + Cardinality(Chunks(shift) \ own),
          !.used[shift] = @ + 1,
          !.live = @ \cup {Given(AddrOf(x) + i * 2 ^ shift, size)},
          !.alert = @ \/ sl.mem[Slot(shift)].next # Slot(shift)]

----------------------------------------------------------------------------
(* ngx_slab_free_locked of memory that was given out.  What does not look   *)
(* like it is not freed but reported.                                       *)
FreeChunkOf(m, a, x, shift) ==
  LET type == m[x].type
      i == (a.at % PageSize) \div 2 ^ shift
      full == IF type = "exact" THEN m[x].slab.map = Chunks(shift) ELSE m[x].next = Null
      m1 == IF full THEN Linked(m, Slot(shift), x, type) ELSE m
      left == m[x].slab.map \ {i}
      m2 == [m1 EXCEPT ![x].slab = ChunkMap(shift, left)]
      gone == left \ BitmapChunks(shift) = {}
  IN IF a.at % 2 ^ shift # 0 \/ i \notin m[x].slab.map
     THEN [sl EXCEPT !.alert = TRUE]
     ELSE [sl EXCEPT !.mem = IF gone THEN ngx_slab_free_pages(m2, x, 1) ELSE m2,
                     !.pfree = @ + (IF gone THEN 1 ELSE 0),
                     !.total[shift] =
                        @ - (IF gone THEN Cardinality(Chunks(shift) \ BitmapChunks(shift)) ELSE 0),
                     !.used[shift] = @ - 1,
                     !.live = @ \ {a}]

FreePagesOf(m, a, x) ==
  IF a.at % PageSize # 0 \/ m[x].slab.is # "start"
  THEN [sl EXCEPT !.alert = TRUE]
  ELSE [sl EXCEPT !.mem = ngx_slab_free_pages(m, x, m[x].slab.n),
                  !.pfree = @ + m[x].slab.n,
                  !.live = @ \ {a}]

ngx_slab_free_locked(a) ==
  LET x == a.at \div PageSize + 1
      d == sl.mem[x]
  IN sl' = IF d.type = "page" THEN FreePagesOf(sl.mem, a, x)
           ELSE FreeChunkOf(sl.mem, a, x,
                            IF d.type = "exact" THEN ExactShift ELSE d.slab.n)

SlNext ==
  \/ /\ Cardinality(sl.live) < MaxGiven
     /\ \E size \in sl.use :
          AllocPages(size) \/ AllocChunk(size) \/ AllocFirstChunk(size)
  \/ \E a \in sl.live : ngx_slab_free_locked(a)

SlSpec == SlInit /\ [][SlNext]_sl

----------------------------------------------------------------------------
Bytes(a) == a.at..(a.at + a.size - 1)
PagesOf(a) == {y \div PageSize + 1 : y \in Bytes(a)}
SlListed(head) ==
  LET at == Listed(sl.mem, head) IN {at[i] : i \in DOMAIN at} \cap SlPages
RunPages(x) == x..(x + sl.mem[x].slab.n - 1)

(* What is given out does not overlap, nor does it cover a page's bitmap,   *)
(* and freeing it is never refused.                                         *)
GivenApart ==
  /\ ~sl.alert
  /\ \A a \in sl.live :
       /\ PagesOf(a) \subseteq SlPages
       /\ \A b \in sl.live \ {a} : Bytes(a) \cap Bytes(b) = {}
       /\ \A x \in PagesOf(a) :
            sl.mem[x].slab.is = "chunks" =>
              \A y \in Bytes(a) :
                (y - AddrOf(x)) \div 2 ^ sl.mem[x].slab.n
                  \notin BitmapChunks(sl.mem[x].slab.n)

(* A page is free, in a run of the list, exactly when nothing in it is      *)
(* given out; no two runs touch, so whatever number of pages is free side   *)
(* by side can be had; and pfree is their number.                           *)
FreeWhole ==
  LET runs == SlListed(FreeHead)
      free == UNION {RunPages(x) : x \in runs}
  IN /\ free = SlPages \ UNION {PagesOf(a) : a \in sl.live}
     /\ \A x \in runs : x + sl.mem[x].slab.n \notin free
     /\ sl.pfree = Cardinality(free)

(* The pages of a size that have a free chunk, and no others, are in the    *)
(* list of its slot, and the statistics tell what is used.                  *)
SlotsComplete ==
  \A s \in Shifts :
    LET pages == {x \in SlPages : sl.mem[x].type # "page" /\ sl.mem[x].slab.n = s}
    IN /\ SlListed(Slot(s)) = {x \in pages : sl.mem[x].slab.map # Chunks(s)}
       /\ sl.total[s] = Cardinality(pages) * Cardinality(Chunks(s) \ BitmapChunks(s))
       /\ sl.used[s] = Cardinality({a \in sl.live : a.size <= MaxSize /\ ShiftOf(a.size) = s})

(* Whatever order memory is asked for and given back in, none of it is lost *)
(* or given out twice.                                                      *)
SlabSound == GivenApart /\ FreeWhole /\ SlotsComplete
=============================================================================
