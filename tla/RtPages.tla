------------------------------ MODULE RtPages ------------------------------
(***************************************************************************)
(* The page allocator components/mm/mm_page.c: free blocks of 2^level      *)
(* pages in a list per level, split and merged with their buddies, and a   *)
(* count of references for a block in use.                                 *)
(*                                                                         *)
(* Its services are functions from one record g (list, the page_list;      *)
(* size_bits and ref_cnt of every struct rt_page) to the next.  Each runs  *)
(* with interrupts disabled.  Pages are page numbers.  The struct rt_page  *)
(* are there from the beginning: until rt_page_cleanup the code reaches    *)
(* them through early_offset, with the same lists.                         *)
(***************************************************************************)
EXTENDS Integers, Sequences, SequencesExt

CONSTANTS
  RT_PAGE_MAX_ORDER,
  RegionStart, RegionEnd,  \* what rt_page_init has left after its own records
  ShadowEnd                \* whole largest blocks from 0 on: all struct rt_page

Page == 0 .. ShadowEnd - 1
Level == 0 .. RT_PAGE_MAX_ORDER - 1
Largest == RT_PAGE_MAX_ORDER - 1
NoPage == -1
ARCH_ADDRESS_WIDTH_BITS == 32    \* as size_bits: not the head of a free block

BlockSize(level) == 2 ^ level

\* The address with bit size_bits inverted.
buddy_get(p, size_bits) ==
  IF (p \div BlockSize(size_bits)) % 2 = 0 THEN p + BlockSize(size_bits)
  ELSE p - BlockSize(size_bits)

page_remove(g, p, size_bits) ==
  [g EXCEPT !.list[size_bits] = Remove(@, p), !.size_bits[p] = ARCH_ADDRESS_WIDTH_BITS]

page_insert(g, p, size_bits) ==
  [g EXCEPT !.list[size_bits] = <<p>> \o @, !.size_bits[p] = size_bits]

-----------------------------------------------------------------------------
(* References *)

_pages_ref_inc(g, p, size_bits) ==
  [g EXCEPT !.ref_cnt[(p \div BlockSize(size_bits)) * BlockSize(size_bits)] = @ + 1]

-----------------------------------------------------------------------------
(* Free *)

\* Mutant of IsFreeBuddy: a free buddy of any size.
IsFreeBuddyAnySize(g, buddy, level) == g.size_bits[buddy] # ARCH_ADDRESS_WIDTH_BITS

IsFreeBuddy(g, buddy, level) == g.size_bits[buddy] = level

RECURSIVE Merged(_, _, _)
Merged(g, p, level) ==
  LET buddy == buddy_get(p, level)
  IN IF level < Largest /\ IsFreeBuddy(g, buddy, level)
     THEN Merged(page_remove(g, buddy, level), IF p < buddy THEN p ELSE buddy, level + 1)
     ELSE page_insert(g, p, level)

\* real: the last reference has gone.
_pages_free(g, p, size_bits) ==
  LET u == [g EXCEPT !.ref_cnt[p] = @ - 1]
  IN IF u.ref_cnt[p] # 0 THEN [pages |-> u, real |-> FALSE]
     ELSE [pages |-> Merged(u, p, size_bits), real |-> TRUE]

-----------------------------------------------------------------------------
(* Allocate *)

\* The lower half goes back to the list, the upper half is divided further.
RECURSIVE Halved(_, _, _, _)
Halved(g, p, level, size_bits) ==
  IF level = size_bits
  THEN [pages |-> [g EXCEPT !.size_bits[p] = ARCH_ADDRESS_WIDTH_BITS, !.ref_cnt[p] = 1],
        page |-> p]
  ELSE Halved(page_insert(g, p, level - 1), buddy_get(p, level - 1), level - 1, size_bits)

\* page: the first of the block, or NoPage.
_pages_alloc(g, size_bits) ==
  LET levels == {l \in Level : l >= size_bits /\ g.list[l] # <<>>}
      level == CHOOSE l \in levels : \A m \in levels : l <= m
      p == Head(g.list[level])
  IN IF levels = {} THEN [pages |-> g, page |-> NoPage]
     ELSE Halved(page_remove(g, p, level), p, level, size_bits)

-----------------------------------------------------------------------------
(* Initialisation *)

\* The largest block that begins at p, is aligned and ends before end.
InitialLevel(p, end) ==
  LET levels == {l \in Level : p % BlockSize(l) = 0 /\ p + BlockSize(l) <= end}
  IN CHOOSE l \in levels : \A m \in levels : m <= l

\* The last loop of rt_page_init.
RECURSIVE Reserved(_, _)
Reserved(g, p) ==
  IF p = RegionEnd THEN g
  ELSE LET level == InitialLevel(p, RegionEnd)
       IN Reserved(page_insert(g, p, level), p + BlockSize(level))

rt_page_init ==
  Reserved([list |-> [l \in Level |-> <<>>],
            size_bits |-> [p \in Page |-> ARCH_ADDRESS_WIDTH_BITS],
            ref_cnt |-> [p \in Page |-> 0]], RegionStart)

\* The loop of rt_page_install.  Only the first page of each largest block gets
\* its fields: what the others hold, given by junk, nobody has written.
RECURSIVE Installed(_, _, _)
Installed(g, p, end) ==
  IF p = end THEN g
  ELSE LET u == [g EXCEPT !.size_bits[p] = ARCH_ADDRESS_WIDTH_BITS, !.ref_cnt[p] = 1]
       IN Installed(_pages_free(u, p, Largest).pages, p + BlockSize(Largest), end)

rt_page_install(g, start, end, junk) ==
  Installed([g EXCEPT !.size_bits = [p \in Page |-> IF p \in start .. end - 1 THEN junk[p]
                                                    ELSE g.size_bits[p]]], start, end)

-----------------------------------------------------------------------------
(* What the lists promise: free blocks and the blocks in use, given as     *)
(* records page, level and refs, share no page and leave none of the       *)
(* memory over; two free buddies are never apart; the heads say so.        *)

PagesOf(b) == b.page .. b.page + BlockSize(b.level) - 1

FreeBlocks(g) == UNION {{[page |-> p, level |-> l] : p \in ToSet(g.list[l])} : l \in Level}

PagesInOrder(g, Memory, Used) ==
  /\ \A l \in Level : IsInjective(g.list[l])
  /\ UNION {PagesOf(b) : b \in FreeBlocks(g) \cup Used} = Memory
  /\ \A b, c \in FreeBlocks(g) \cup Used : b # c => PagesOf(b) \cap PagesOf(c) = {}
  /\ \A b \in FreeBlocks(g) :
       /\ b.page % BlockSize(b.level) = 0
       /\ g.size_bits[b.page] = b.level
       /\ b.level < Largest => buddy_get(b.page, b.level) \notin ToSet(g.list[b.level])
  /\ \A b \in Used :
       g.size_bits[b.page] = ARCH_ADDRESS_WIDTH_BITS /\ g.ref_cnt[b.page] = b.refs
=============================================================================
