----------------------------- MODULE RtSmallMem -----------------------------
(***************************************************************************)
(* RT-Thread's other heap for small memories (rt_thread/src/mem.c), which  *)
(* a configuration takes instead of the slab allocator of RtSlab: a row of *)
(* items, each a header and its data, with the lowest free one remembered. *)
(* rt_malloc, rt_realloc and rt_free call it under the heap lock: each     *)
(* call is one action.  Addresses and sizes are bytes from heap_ptr on.    *)
(* Headers of items that were merged away, the pool pointer and the        *)
(* peak-use statistic are left out.  LIVE is history: the blocks given     *)
(* out, with what their owner may use of them.                             *)
(***************************************************************************)
LOCAL INSTANCE Integers
LOCAL INSTANCE FiniteSets
LOCAL INSTANCE FiniteSetsExt
LOCAL INSTANCE Functions
LOCAL INSTANCE Sequences
LOCAL INSTANCE SequencesExt
LOCAL INSTANCE TLC

CONSTANTS
  RT_ALIGN_SIZE,
  MemItemSize,   \* sizeof(struct rt_small_mem_item)
  MIN_SIZE,      \* of data, before it is aligned
  MemSize,       \* what rt_smem_init leaves for the items' data, aligned
  MemRequests    \* sizes asked for, without 0

VARIABLE q       \* struct rt_small_mem, with its items by their address

Aligned(size) == ((size + RT_ALIGN_SIZE - 1) \div RT_ALIGN_SIZE) * RT_ALIGN_SIZE
SIZEOF_STRUCT_MEM == Aligned(MemItemSize)
MIN_SIZE_ALIGNED == Aligned(MIN_SIZE)
HeapEnd == MemSize + SIZEOF_STRUCT_MEM

\* One free item, and an end that is never free.
rt_smem_init ==
  [item |-> (0 :> [used |-> FALSE, next |-> HeapEnd, prev |-> 0])
            @@ (HeapEnd :> [used |-> TRUE, next |-> HeapEnd, prev |-> HeapEnd]),
   lfree |-> 0, used |-> 0, LIVE |-> {}]

MEM_SIZE(g, mem) == g.item[mem].next - mem - SIZEOF_STRUCT_MEM
IsFree(g, mem) == ~g.item[mem].used

\* Item mem becomes a part of its neighbour before it.
Absorbed(g, mem, pmem) ==
  LET item == [g.item EXCEPT ![pmem].next = g.item[mem].next,
                             ![g.item[mem].next].prev = pmem]
  IN [g EXCEPT !.item = Restrict(item, DOMAIN item \ {mem}),
               !.lfree = IF @ = mem THEN pmem ELSE @]

\* Mutant of plug_holes: only the item after is looked at.
plug_holesForward(g, mem) ==
  LET nmem == g.item[mem].next
  IN IF mem # nmem /\ IsFree(g, nmem) THEN Absorbed(g, nmem, mem) ELSE g

plug_holes(g, mem) ==
  LET nmem == g.item[mem].next
      g1 == IF mem # nmem /\ IsFree(g, nmem) THEN Absorbed(g, nmem, mem) ELSE g
      pmem == g1.item[mem].prev
  IN IF mem # pmem /\ IsFree(g1, pmem) THEN Absorbed(g1, mem, pmem) ELSE g1

\* A free item begins size bytes into the data of mem.
SplitAt(g, mem, size) ==
  LET mem2 == mem + SIZEOF_STRUCT_MEM + size
      next == g.item[mem].next
      item == [g.item EXCEPT ![mem].next = mem2,
                             ![next].prev = IF next # HeapEnd THEN mem2 ELSE @]
  IN [g EXCEPT !.item = item @@ (mem2 :> [used |-> FALSE, next |-> next, prev |-> mem])]

RECURSIVE NextFree(_, _)
NextFree(g, mem) ==
  IF IsFree(g, mem) \/ mem = HeapEnd THEN mem ELSE NextFree(g, g.item[mem].next)

\* First fit from the lowest free item on; the end of the heap if there is none.
RECURSIVE FirstFit(_, _, _)
FirstFit(g, size, ptr) ==
  IF ptr > MemSize - size THEN HeapEnd
  ELSE IF IsFree(g, ptr) /\ MEM_SIZE(g, ptr) >= size THEN ptr
  ELSE FirstFit(g, size, g.item[ptr].next)

\* The block, or HeapEnd for RT_NULL.
rt_smem_alloc(g, request) ==
  LET size == IF Aligned(request) < MIN_SIZE_ALIGNED THEN MIN_SIZE_ALIGNED
              ELSE Aligned(request)
      mem == IF size > MemSize THEN HeapEnd ELSE FirstFit(g, size, g.lfree)
      splits == MEM_SIZE(g, mem) >= size + SIZEOF_STRUCT_MEM + MIN_SIZE_ALIGNED
      g1 == IF splits THEN SplitAt(g, mem, size) ELSE g
      g2 == [g1 EXCEPT !.item[mem].used = TRUE, !.used = @ + g1.item[mem].next - mem,
                       !.LIVE = @ \cup {[mem |-> mem, size |-> request]}]
  IN [mem |-> mem,
      g |-> IF mem = HeapEnd THEN g
            ELSE [g2 EXCEPT !.lfree = IF @ = mem THEN NextFree(g2, mem) ELSE @]]

rt_smem_free(g, b) ==
  plug_holes([g EXCEPT !.item[b.mem].used = FALSE,
                       !.lfree = IF b.mem < @ THEN b.mem ELSE @,
                       !.used = @ - (g.item[b.mem].next - b.mem),
                       !.LIVE = @ \ {b}], b.mem)

Resized(g, b, request) == [g EXCEPT !.LIVE = (@ \ {b}) \cup {[b EXCEPT !.size = request]}]

\* The rest is cut off, where it makes an item of its own.
Shrunk(g, b, newsize) ==
  LET mem2 == b.mem + SIZEOF_STRUCT_MEM + newsize
      g1 == SplitAt(g, b.mem, newsize)
  IN plug_holes([g1 EXCEPT !.used = @ - (MEM_SIZE(g, b.mem) - newsize),
                           !.lfree = IF mem2 < @ THEN mem2 ELSE @], mem2)

\* Everything else is a new block and a copy, a shrinking by little too; it
\* may fail, and then the old block stays.
Moved(g, b, request) ==
  LET got == rt_smem_alloc(g, Aligned(request))
  IN IF got.mem = HeapEnd THEN g
     ELSE Resized(rt_smem_free(got.g, b), [mem |-> got.mem, size |-> Aligned(request)], request)

rt_smem_realloc(g, b, request) ==
  LET newsize == Aligned(request)
      size == MEM_SIZE(g, b.mem)
  IN IF newsize > MemSize THEN g
     ELSE IF size = newsize THEN Resized(g, b, request)
     ELSE IF newsize + SIZEOF_STRUCT_MEM + MIN_SIZE < size
     THEN Resized(Shrunk(g, b, newsize), b, request)
     ELSE Moved(g, b, request)

SmallMemStep ==
  \/ \E request \in MemRequests : q' = rt_smem_alloc(q, request).g
  \/ \E b \in q.LIVE :
       \/ q' = rt_smem_free(q, b)
       \/ \E request \in MemRequests : q' = rt_smem_realloc(q, b, request)

-----------------------------------------------------------------------------

\* The items cover the heap one after the other, linked both ways (the end's
\* link back is not kept); no two free ones touch, and lfree is the lowest.
ItemsTile(g) ==
  LET At == DOMAIN g.item
      Inner == At \ {HeapEnd}
  IN /\ {0, HeapEnd} \subseteq At /\ ~IsFree(g, HeapEnd)
     /\ \A mem \in Inner :
          LET next == g.item[mem].next
          IN /\ next \in At /\ MEM_SIZE(g, mem) > 0
             /\ \A other \in At : other <= mem \/ other >= next
             /\ next # HeapEnd => g.item[next].prev = mem
             /\ ~(IsFree(g, mem) /\ IsFree(g, next))
     /\ g.item[0].prev = 0
     /\ g.lfree = Min({mem \in At : IsFree(g, mem)} \cup {HeapEnd})

\* The used items are the blocks given out, each with the room asked for, and
\* the statistic adds up.
BlocksKept(g) ==
  LET UsedItems == {mem \in DOMAIN g.item \ {HeapEnd} : ~IsFree(g, mem)}
  IN /\ {b.mem : b \in g.LIVE} = UsedItems /\ Cardinality(g.LIVE) = Cardinality(UsedItems)
     /\ \A b \in g.LIVE : MEM_SIZE(g, b.mem) >= b.size
     /\ g.used = MapThenSumSet(LAMBDA mem : g.item[mem].next - mem, UsedItems)

\* The small heap loses no byte and gives none twice.
SmallMemAccounted == ItemsTile(q) /\ BlocksKept(q)
=============================================================================
