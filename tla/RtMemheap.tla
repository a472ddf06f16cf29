----------------------------- MODULE RtMemheap -----------------------------
(***************************************************************************)
(* RT-Thread's heap objects (rt_thread/src/memheap.c): a ring of blocks,   *)
(* closed by a used one of length 0, and a list of the free ones.  Unlike  *)
(* the other heaps an object has a lock of its own, a semaphore, and not   *)
(* everything is under it: rt_memheap_alloc looks at available_size before *)
(* it takes the lock, and a rt_memheap_realloc that cannot grow in place   *)
(* lets go of it before it allocates and again before it frees.  What is   *)
(* under the lock is one action.  Addresses and sizes are bytes.  Headers  *)
(* of blocks that were merged away, the pool pointer and the peak-use      *)
(* statistic are left out.  LIVE is history: the blocks given out, with    *)
(* what their owner may use of them.                                       *)
(***************************************************************************)
LOCAL INSTANCE Integers
LOCAL INSTANCE FiniteSets
LOCAL INSTANCE FiniteSetsExt
LOCAL INSTANCE Functions
LOCAL INSTANCE Sequences
LOCAL INSTANCE SequencesExt
LOCAL INSTANCE TLC

CONSTANTS
  HeapAlign,        \* RT_ALIGN_SIZE
  RT_MEMHEAP_SIZE,  \* a header, aligned
  PoolSize,         \* of the object, aligned
  HeapRequests,     \* sizes asked for, without 0
  HeapCallers

VARIABLES
  hp,       \* struct rt_memheap, with its blocks by their address
  doing     \* what each caller has under way when it is without the lock

AlignedTo(size) == ((size + HeapAlign - 1) \div HeapAlign) * HeapAlign
RT_MEMHEAP_MINIALLOC == AlignedTo(12)
\* Every request is aligned and not below the least.
Rounded(request) == IF AlignedTo(request) < RT_MEMHEAP_MINIALLOC THEN RT_MEMHEAP_MINIALLOC
                    ELSE AlignedTo(request)
Tailer == PoolSize - RT_MEMHEAP_SIZE

rt_memheap_init ==
  [item |-> (0 :> [used |-> FALSE, next |-> Tailer, prev |-> Tailer])
            @@ (Tailer :> [used |-> TRUE, next |-> 0, prev |-> 0]),
   free_list |-> <<0>>, available_size |-> PoolSize - 2 * RT_MEMHEAP_SIZE, LIVE |-> {}]

MEMITEM_SIZE(g, ptr) == g.item[ptr].next - ptr - RT_MEMHEAP_SIZE
IsUsed(g, ptr) == g.item[ptr].used

Unlisted(g, ptr) == [g EXCEPT !.free_list = SelectSeq(@, LAMBDA x : x # ptr)]
Listed(g, ptr) == [g EXCEPT !.free_list = <<ptr>> \o @]

\* Block ptr becomes a part of the one before it.
Joined(g, ptr) ==
  LET b == g.item[ptr]
      item == [g.item EXCEPT ![b.prev].next = b.next, ![b.next].prev = b.prev]
  IN [g EXCEPT !.item = Restrict(item, DOMAIN item \ {ptr})]

_remove_next_ptr(g, next_ptr) == Joined(Unlisted(g, next_ptr), next_ptr)

\* A free block begins size bytes into the data of ptr; it is not listed yet.
CutAt(g, ptr, size) ==
  LET new == ptr + size + RT_MEMHEAP_SIZE
      next == g.item[ptr].next
      item == [g.item EXCEPT ![ptr].next = new, ![next].prev = new]
  IN [g EXCEPT !.item = item @@ (new :> [used |-> FALSE, next |-> next, prev |-> ptr])]

Gone == 0 - 1    \* RT_NULL

\* A request for all there is fails.
MayFit(g, request) == Rounded(request) < g.available_size

\* Under the lock: first fit in the order of the list.
Searched(g, request) ==
  LET size == Rounded(request)
      i == SelectInSeq(g.free_list, LAMBDA ptr : MEMITEM_SIZE(g, ptr) >= size)
      ptr == g.free_list[i]
      free_size == MEMITEM_SIZE(g, ptr)
      splits == free_size >= size + RT_MEMHEAP_SIZE + RT_MEMHEAP_MINIALLOC
      g1 == Unlisted(g, ptr)
      g2 == IF splits THEN Listed(CutAt(g1, ptr, size), ptr + size + RT_MEMHEAP_SIZE) ELSE g1
  IN IF i = 0 THEN [at |-> Gone, g |-> g]
     ELSE [at |-> ptr,
           g |-> [g2 EXCEPT !.item[ptr].used = TRUE,
                            !.available_size =
                              @ - (IF splits THEN size + RT_MEMHEAP_SIZE ELSE free_size),
                            !.LIVE = @ \cup {[at |-> ptr, size |-> request]}]]

\* Mutant of Released: the header of a block that is merged with the
\* next one is not counted.
ReleasedUncounted(g, b) ==
  LET ptr == b.at
      left == ~IsUsed(g, g.item[ptr].prev)
      g1 == [g EXCEPT !.item[ptr].used = FALSE, !.LIVE = @ \ {b},
                      !.available_size = @ + MEMITEM_SIZE(g, ptr)]
      g2 == IF left THEN [Joined(g1, ptr) EXCEPT !.available_size = @ + RT_MEMHEAP_SIZE] ELSE g1
      header == IF left THEN g.item[ptr].prev ELSE ptr
      next == g2.item[header].next
      g3 == IF IsUsed(g2, next) THEN g2 ELSE _remove_next_ptr(g2, next)
  IN IF left THEN g3 ELSE Listed(g3, header)

\* Merged with the block before, which is in the list already, and with the
\* one after, which leaves it.
Released(g, b) ==
  LET ptr == b.at
      left == ~IsUsed(g, g.item[ptr].prev)
      g1 == [g EXCEPT !.item[ptr].used = FALSE, !.LIVE = @ \ {b},
                      !.available_size = @ + MEMITEM_SIZE(g, ptr)]
      g2 == IF left THEN [Joined(g1, ptr) EXCEPT !.available_size = @ + RT_MEMHEAP_SIZE] ELSE g1
      header == IF left THEN g.item[ptr].prev ELSE ptr
      next == g2.item[header].next
      g3 == IF IsUsed(g2, next) THEN g2
            ELSE [_remove_next_ptr(g2, next) EXCEPT !.available_size = @ + RT_MEMHEAP_SIZE]
  IN IF left THEN g3 ELSE Listed(g3, header)

Usable(g, b, request) == [g EXCEPT !.LIVE = (@ \ {b}) \cup {[b EXCEPT !.size = request]}]

\* The free block after b begins later.
Grown(g, b, newsize) ==
  LET next == g.item[b.at].next
      g1 == CutAt(_remove_next_ptr(g, next), b.at, newsize)
  IN [Listed(g1, b.at + newsize + RT_MEMHEAP_SIZE)
        EXCEPT !.available_size = @ - (newsize - MEMITEM_SIZE(g, b.at))]

\* The rest is cut off, and merged with the block after it.
Trimmed(g, b, newsize) ==
  LET new == b.at + newsize + RT_MEMHEAP_SIZE
      next == g.item[b.at].next
      g1 == CutAt(g, b.at, newsize)
      g2 == IF IsUsed(g1, next) THEN g1
            ELSE [_remove_next_ptr(g1, next)
                    EXCEPT !.available_size = @ - MEMITEM_SIZE(g1, next)]
  IN [Listed(g2, new) EXCEPT !.available_size = @ + MEMITEM_SIZE(g2, new)]

-----------------------------------------------------------------------------

Nothing == [step |-> "none"]
NoBlock == [at |-> Gone, size |-> 0]    \* of an allocation: nothing moves
Doing(c, call) == doing' = [doing EXCEPT ![c] = call]
Free(c) == doing[c] = Nothing
Busy == {doing[c].from : c \in {d \in HeapCallers : ~Free(d)}}
\* A block is its owner's once the call that got it has returned.
Arriving == {doing[c].to : c \in {d \in HeapCallers : doing[d].step = "free"}}
Owned == hp.LIVE \ (Busy \cup Arriving)

Search(from, request) == [step |-> "search", from |-> from, request |-> request]

rt_memheap_alloc(c, request) ==
  /\ Free(c) /\ MayFit(hp, request)
  /\ Doing(c, Search(NoBlock, request)) /\ UNCHANGED hp

rt_memheap_free(c, b) ==
  /\ Free(c) /\ hp' = Released(hp, b) /\ UNCHANGED doing

\* Up to the first release of the lock.  A caller keeps a block that is not
\* larger than needed by much.
rt_memheap_realloc(c, b, request) ==
  LET newsize == Rounded(request)
      oldsize == MEMITEM_SIZE(hp, b.at)
      next == hp.item[b.at].next
      room == ~IsUsed(hp, next)
              /\ MEMITEM_SIZE(hp, next) + oldsize > newsize + RT_MEMHEAP_MINIALLOC
  IN /\ Free(c)
     /\ \/ /\ newsize > oldsize /\ room
           /\ hp' = Usable(Grown(hp, b, newsize), b, request)
           /\ UNCHANGED doing
        \/ /\ newsize > oldsize /\ ~room
           /\ Doing(c, [step |-> "check", from |-> b, request |-> request])
           /\ UNCHANGED hp
        \/ /\ newsize <= oldsize
           /\ hp' = Usable(IF newsize + RT_MEMHEAP_SIZE + RT_MEMHEAP_MINIALLOC >= oldsize THEN hp
                           ELSE Trimmed(hp, b, newsize), b, request)
           /\ UNCHANGED doing

\* rt_memheap_realloc allocates: if it fails the old block stays.
MoveChecks(c) ==
  /\ doing[c].step = "check"
  /\ Doing(c, IF MayFit(hp, doing[c].request) THEN Search(doing[c].from, doing[c].request)
              ELSE Nothing)
  /\ UNCHANGED hp

\* The rest of an allocation.
Searches(c) ==
  LET got == Searched(hp, doing[c].request)
  IN /\ doing[c].step = "search"
     /\ hp' = got.g
     /\ Doing(c, IF got.at = Gone \/ doing[c].from = NoBlock THEN Nothing
                 ELSE [step |-> "free", from |-> doing[c].from,
                       to |-> [at |-> got.at, size |-> doing[c].request]])

\* The copy, and the release of the old block.
MoveFrees(c) ==
  /\ doing[c].step = "free"
  /\ hp' = Released(hp, doing[c].from)
  /\ Doing(c, Nothing)

MemheapStep ==
  \E c \in HeapCallers :
    \/ \E request \in HeapRequests : rt_memheap_alloc(c, request)
    \/ \E b \in Owned :
         \/ rt_memheap_free(c, b)
         \/ \E request \in HeapRequests : rt_memheap_realloc(c, b, request)
    \/ MoveChecks(c) \/ Searches(c) \/ MoveFrees(c)

-----------------------------------------------------------------------------

\* The ring visits the blocks by address, linked both ways; no two free ones
\* touch; the free list has every free block once.
RingInOrder(g) ==
  LET At == DOMAIN g.item
  IN /\ {0, Tailer} \subseteq At /\ IsUsed(g, Tailer) /\ g.item[Tailer].next = 0
     /\ \A ptr \in At :
          LET next == g.item[ptr].next
          IN /\ next \in At /\ g.item[next].prev = ptr
             /\ ptr # Tailer =>
                  /\ MEMITEM_SIZE(g, ptr) >= RT_MEMHEAP_MINIALLOC
                  /\ \A other \in At : other <= ptr \/ other >= next
                  /\ IsUsed(g, ptr) \/ IsUsed(g, next)
     /\ ToSet(g.free_list) = {ptr \in At : ~IsUsed(g, ptr)}
     /\ Len(g.free_list) = Cardinality(ToSet(g.free_list))

\* The used blocks are those given out, each with the room asked for, and
\* available_size is what the free ones hold.
BytesAccounted(g) ==
  LET UsedBlocks == {ptr \in DOMAIN g.item \ {Tailer} : IsUsed(g, ptr)}
  IN /\ {b.at : b \in g.LIVE} = UsedBlocks /\ Cardinality(g.LIVE) = Cardinality(UsedBlocks)
     /\ \A b \in g.LIVE : MEMITEM_SIZE(g, b.at) >= b.size
     /\ g.available_size = MapThenSumSet(LAMBDA ptr : MEMITEM_SIZE(g, ptr), ToSet(g.free_list))

\* Whatever the callers do between the steps of a call, the object
\* loses no byte and gives none twice.
MemheapAccounted == RingInOrder(hp) /\ BytesAccounted(hp)
=============================================================================
