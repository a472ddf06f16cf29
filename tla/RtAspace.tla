------------------------------ MODULE RtAspace ------------------------------
(***************************************************************************)
(* Virtual address spaces: the areas of components/mm/mm_aspace.c with the *)
(* tree of RtAvl, the two-level page tables of cortex-a/mmu.c and the      *)
(* frames of mm_object.c, both of which come from the allocator RtPages.   *)
(*                                                                         *)
(* A space is a record a, and each caller has a record: what it is about.  *)
(* bst_lock covers only the choice of an address.  Pages are translated    *)
(* one by one afterwards, without it: a caller can be preempted between    *)
(* reading the level 1 entry and writing it.  Unmapping, which does each   *)
(* page with the scheduler locked, is one step.  Addresses and lengths are *)
(* in pages; page 0 is the null pointer.                                   *)
(***************************************************************************)
EXTENDS RtAvl, RtPages, Functions

CONSTANTS
  Areas,                  \* nodes areas may use, at most one per rt_malloc
  SpaceStart, SpaceSize,
  SectionPages,           \* pages a level 1 entry is for
  PhyStart,               \* frame of the devices callers map, after all memory
  Callers

NoEntry == -1
SpacePages == SpaceStart .. SpaceStart + SpaceSize - 1
Section(v) == v \div SectionPages
Sections == 0 .. Section(SpaceStart + SpaceSize - 1)
NoEntries == [i \in 0 .. SectionPages - 1 |-> NoEntry]
NoArea == [start |-> 0, size |-> 0, mem_obj |-> "none", frames |-> <<>>]

NewSpace(pages) ==
  [tree |-> EmptyTree, area |-> [n \in Nodes |-> NoArea],
   l1 |-> [c \in Sections |-> NoEntry], l2 |-> [p \in Page |-> NoEntries],
   pages |-> pages]

NoCall == [step |-> "idle", node |-> NoNode, v |-> 0, end |-> 0, target |-> 0, table |-> NoPage]

Linked(a) == Below(a.tree, a.tree.root)
AreaPages(x) == x.start .. x.start + x.size - 1

-----------------------------------------------------------------------------
(* Page tables *)

\* rt_hw_mmu_v2p, ARCH_MAP_FAILED being NoEntry.
rt_hw_mmu_v2p(a, v) ==
  IF a.l1[Section(v)] = NoEntry THEN NoEntry ELSE a.l2[a.l1[Section(v)]][v % SectionPages]

_kenrel_unmap_4K(a, v) ==
  LET table == a.l1[Section(v)]
      freed == _pages_free(a.pages, table, 0)
  IN IF rt_hw_mmu_v2p(a, v) = NoEntry THEN a
     ELSE [a EXCEPT !.l2[table][v % SectionPages] = NoEntry, !.pages = freed.pages,
                    !.l1[Section(v)] = IF freed.real THEN NoEntry ELSE @]

RECURSIVE rt_hw_mmu_unmap(_, _, _)
rt_hw_mmu_unmap(a, v, size) ==
  IF size = 0 THEN a ELSE rt_hw_mmu_unmap(_kenrel_unmap_4K(a, v), v + 1, size - 1)

RECURSIVE rt_varea_pgmgr_pop_all(_, _)
rt_varea_pgmgr_pop_all(pages, frames) ==
  IF frames = <<>> THEN pages
  ELSE rt_varea_pgmgr_pop_all(_pages_free(pages, Head(frames), 0).pages, Tail(frames))

_varea_uninstall(a, n) ==
  LET u == rt_hw_mmu_unmap(a, a.area[n].start, a.area[n].size)
  IN [u EXCEPT !.pages = rt_varea_pgmgr_pop_all(u.pages, a.area[n].frames),
               !.tree = util_avl_remove(u.tree, n)]

\* rt_free of the area.
Freed(a, n) ==
  [a EXCEPT !.area[n] = NoArea,
            !.tree = [@ EXCEPT !.left[n] = NoNode, !.right[n] = NoNode,
                               !.parent[n] = NoNode, !.height[n] = 0]]

-----------------------------------------------------------------------------
(* Choosing an address.  Sizes and differences of addresses are unsigned.  *)

_align(v, align) == ((v + align - 1) \div align) * align % Wrap
Gap(from, to) == (to - from) % Wrap

\* va is 0 if there is none.
RECURSIVE _ascending_search(_, _, _, _, _)
_ascending_search(a, n, req_size, align, end) ==
  LET candidate == _align(a.area[n].start + a.area[n].size, align)
      next == util_avl_next(a.tree, n)
      last == IF next = NoNode \/ end < a.area[next].start - 1 THEN end ELSE a.area[next].start - 1
  IN IF n = NoNode \/ a.area[n].start >= end THEN 0
     ELSE IF candidate > end \/ end - candidate + 1 < req_size THEN 0
     ELSE IF next = NoNode \/ Gap(candidate, last + 1) >= req_size THEN candidate
     ELSE _ascending_search(a, next, req_size, align, end)

_find_head_and_asc_search(a, req_size, align, start, end) ==
  LET n == _aspace_bst_search_exceed(a.tree, a.area, start)
      former == _aspace_bst_search(a.tree, a.area, start)
      head == _align(start, align)
      afterFormer == _align(a.area[former].start + a.area[former].size, align)
      Fits(candidate) == Gap(candidate, a.area[n].start) >= req_size
  IN IF n = NoNode THEN IF Gap(head, end + 1) >= req_size THEN head ELSE 0
     ELSE IF Fits(head) /\ former = NoNode THEN head
     ELSE IF Fits(head) /\ Fits(afterFormer) THEN afterFormer
     ELSE _ascending_search(a, n, req_size, align, end)

\* The hint's limits are the space's, as in _mm_aspace_map and rt_kmem_map_phy.
_find_free(a, prefer, req_size, align, fixed) ==
  LET end == SpaceStart + SpaceSize - 1
      aligned == _align(prefer, align)
      n == _aspace_bst_search_overlap(a.tree, a.area,
                                      [start |-> aligned, end |-> aligned + req_size - 1])
      above == _ascending_search(a, n, req_size, align, end)
  IN IF prefer = 0 THEN _find_head_and_asc_search(a, req_size, align, SpaceStart, end)
     ELSE IF n = NoNode THEN aligned
     ELSE IF fixed THEN 0
     ELSE IF above # 0 THEN above
     ELSE _find_head_and_asc_search(a, req_size, align, SpaceStart, a.area[n].start - 1)

-----------------------------------------------------------------------------
(* Mapping *)

NewNode(a) ==
  CHOOSE n \in Areas : a.area[n] = NoArea /\ \A m \in Areas : m < n => a.area[m] # NoArea

\* _varea_create and _varea_install: va was found for n.
WithArea(a, n, va, size, mem_obj) ==
  LET area == [a.area EXCEPT ![n] = [start |-> va, size |-> size, mem_obj |-> mem_obj,
                                     frames |-> <<>>]]
  IN [a EXCEPT !.area = area, !.tree = _aspace_bst_insert(a.tree, area, n)]

\* on_page_fault of rt_mm_dummy_mapper, or the next physical page: the frame
\* to map, or NoPage, and the space with it.
PageFault(a, n, v) ==
  LET got == _pages_alloc(a.pages, 0)
  IN IF a.area[n].mem_obj = "phy" THEN [space |-> a, frame |-> PhyStart + v - a.area[n].start]
     ELSE IF got.page = NoPage THEN [space |-> a, frame |-> NoPage]
     ELSE [space |-> [a EXCEPT !.pages = got.pages, !.area[n].frames = <<got.page>> \o @],
           frame |-> got.page]

Entered(a, v, frame) == [a EXCEPT !.l2[a.l1[Section(v)]][v % SectionPages] = frame]

-----------------------------------------------------------------------------
(* Detaching a space *)

\* The successor is read from the node after it has left the tree.
RECURSIVE DetachedFrom(_, _)
DetachedFrom(a, n) ==
  LET u == _varea_uninstall(a, n)
  IN IF n = NoNode THEN a ELSE DetachedFrom(Freed(u, n), util_avl_next(u.tree, n))

rt_aspace_detach(a) == DetachedFrom(a, util_avl_first(a.tree))
=============================================================================
