------------------------------ MODULE RtMemory ------------------------------
(***************************************************************************)
(* The memory manager of the kernel: an address space and its callers on   *)
(* the page allocator ("space"), or by themselves the page allocator       *)
(* ("pages"), the tree of areas ("tree") and the heaps a configuration may *)
(* have instead of or besides the slab allocator ("small", "memheap").     *)
(***************************************************************************)
EXTENDS RtAspace, RtSmallMem, RtMemheap

CONSTANTS
  Parts,           \* of these, what to run
  Sizes, Prefers, Aligns, \* lengths, addresses and alignments callers ask for
  Taken,           \* pages others may hold when a space is created
  InstallStart,    \* region rt_page_install may add, up to ShadowEnd
  MaxShared        \* bound on the further references, of all blocks

VARIABLES
  part,
  a,               \* the space; its field pages is the allocator
  calls,           \* what each caller is about
  memory, owned    \* pages the allocator has been given; blocks in other use

spaceVars == <<a, calls, memory, owned>>
heapVars == <<q, hp, doing>>
memoryVars == <<part, spaceVars, heapVars>>

Block(p, level, refs) == [page |-> p, level |-> level, refs |-> refs, by |-> <<"user", 0>>]

\* The allocator after others have taken k pages, and their blocks.
RECURSIVE Used(_)
Used(k) ==
  IF k = 0 THEN [pages |-> rt_page_init, owned |-> {}]
  ELSE LET u == Used(k - 1)
           got == _pages_alloc(u.pages, 0)
       IN [pages |-> got.pages, owned |-> u.owned \cup {Block(got.page, 0, 1)}]

Init ==
  /\ part \in Parts
  /\ \E k \in IF part = "space" THEN Taken ELSE {0} :
        a = NewSpace(Used(k).pages) /\ owned = Used(k).owned
  /\ calls = [c \in Callers |-> NoCall]
  /\ memory = RegionStart .. RegionEnd - 1
  /\ q = rt_smem_init
  /\ hp = rt_memheap_init /\ doing = [c \in HeapCallers |-> Nothing]

-----------------------------------------------------------------------------
(* The tree by itself: areas of one page, node n at page n. *)

Insert(n) ==
  /\ n \notin Linked(a)
  /\ a' = WithArea(a, n, n, 1, "none")

RemoveNode(n) ==
  /\ n \in Linked(a)
  /\ a' = Freed([a EXCEPT !.tree = util_avl_remove(@, n)], n)

TreeStep ==
  /\ part = "tree"
  /\ \E n \in Nodes : Insert(n) \/ RemoveNode(n)
  /\ UNCHANGED <<part, calls, memory, owned>>

(* The allocator by itself *)

rt_pages_alloc(level) ==
  LET got == _pages_alloc(a.pages, level)
  IN /\ got.page # NoPage
     /\ a' = [a EXCEPT !.pages = got.pages]
     /\ owned' = owned \cup {Block(got.page, level, 1)}
     /\ UNCHANGED memory

rt_pages_free(b) ==
  LET freed == _pages_free(a.pages, b.page, b.level)
  IN /\ a' = [a EXCEPT !.pages = freed.pages]
     /\ owned' = (owned \ {b}) \cup IF freed.real THEN {} ELSE {[b EXCEPT !.refs = @ - 1]}
     /\ UNCHANGED memory

rt_page_ref_inc(b, p) ==
  /\ MapThenSumSet(LAMBDA x : x.refs - 1, owned) < MaxShared
  /\ a' = [a EXCEPT !.pages = _pages_ref_inc(a.pages, p, b.level)]
  /\ owned' = (owned \ {b}) \cup {[b EXCEPT !.refs = @ + 1]}
  /\ UNCHANGED memory

Install(junk) ==
  /\ InstallStart \notin memory
  /\ a' = [a EXCEPT !.pages = rt_page_install(@, InstallStart, ShadowEnd, [p \in Page |-> junk])]
  /\ memory' = memory \cup (InstallStart .. ShadowEnd - 1)
  /\ UNCHANGED owned

PagesStep ==
  /\ part = "pages"
  /\ \/ \E level \in Level : rt_pages_alloc(level)
     \/ \E b \in owned : rt_pages_free(b) \/ (\E p \in PagesOf(b) : rt_page_ref_inc(b, p))
     \/ \E junk \in Level : Install(junk)
  /\ UNCHANGED <<part, calls>>

-----------------------------------------------------------------------------
(* The space *)

Idle(c) == calls[c].step = "idle"
InUse == {calls[c].node : c \in Callers}

\* A call that has [v, end) of area n to map.
Mapping(n, v, end) == [NoCall EXCEPT !.step = "page", !.node = n, !.v = v, !.end = end]
Goes(c, call) == calls' = [calls EXCEPT ![c] = call]

InRange(prefer, size) ==
  IF prefer = 0 THEN size <= SpaceSize
  ELSE prefer >= SpaceStart /\ prefer + size <= SpaceStart + SpaceSize

\* Up to the release of bst_lock.  Without a free range the call fails.
Choose(c, prefer, size, align, fixed, mem_obj, prefetch) ==
  LET va == _find_free(a, prefer, size, align, fixed)
      n == NewNode(a)
  IN /\ Idle(c) /\ (\E m \in Areas : a.area[m] = NoArea)
     /\ InRange(prefer, size) /\ va # 0
     /\ a' = WithArea(a, n, va, size, mem_obj)
     /\ Goes(c, IF prefetch THEN Mapping(n, va, va + size) ELSE NoCall)

rt_aspace_map(c, prefer, size, align, fixed, prefetch) ==
  Choose(c, prefer, size, align, fixed, "dummy", prefetch)

rt_aspace_map_phy(c, prefer, size, fixed) ==
  Choose(c, prefer, size, 1, fixed, "phy", TRUE)

\* Loading a page again would lose the old one: callers ask v2p first, as
\* _load_mpr_area does.
rt_aspace_load_page(c, v) ==
  LET n == _aspace_bst_search(a.tree, a.area, v)
  IN /\ Idle(c) /\ n # NoNode /\ n \notin InUse
     /\ a.area[n].mem_obj = "dummy" /\ rt_hw_mmu_v2p(a, v) = NoEntry
     /\ Goes(c, Mapping(n, v, v + 1)) /\ UNCHANGED a

\* The page at v is entered in u; on with the next.
Advance(c, u) ==
  /\ a' = u
  /\ Goes(c, IF calls[c].v + 1 = calls[c].end THEN NoCall
             ELSE Mapping(calls[c].node, calls[c].v + 1, calls[c].end))

\* No page left: _do_named_map fails and the area goes; _do_prefetch stops but
\* reports success.
GiveUp(c, u) ==
  LET n == calls[c].node
  IN /\ a' = IF u.area[n].mem_obj = "phy" THEN Freed(_varea_uninstall(u, n), n) ELSE u
     /\ Goes(c, NoCall)

\* _kenrel_map_4K up to the level 1 entry, with the page fault before it.
MapPage(c) ==
  LET v == calls[c].v
      fault == PageFault(a, calls[c].node, v)
      u == fault.space
      table == u.l1[Section(v)]
      got == _pages_alloc(u.pages, 0)
  IN /\ calls[c].step = "page"
     /\ IF fault.frame = NoPage THEN GiveUp(c, u)
        ELSE IF table # NoEntry
        THEN Advance(c, Entered([u EXCEPT !.pages = _pages_ref_inc(@, table, 0)], v, fault.frame))
        ELSE IF got.page = NoPage THEN GiveUp(c, u)
        ELSE /\ a' = [u EXCEPT !.pages = got.pages]
             /\ Goes(c, [calls[c] EXCEPT !.step = "link", !.target = fault.frame,
                                         !.table = got.page])

\* The rest of it: a new table is cleared, linked and given its first entry.
LinkTable(c) ==
  LET v == calls[c].v
      table == calls[c].table
  IN /\ calls[c].step = "link"
     /\ Advance(c, Entered([a EXCEPT !.l2[table] = NoEntries, !.l1[Section(v)] = table],
                           v, calls[c].target))

\* Callers unmap what they have mapped: elsewhere the code has no area to free.
rt_aspace_unmap(c, v) ==
  LET n == _aspace_bst_search(a.tree, a.area, v)
  IN /\ Idle(c) /\ n # NoNode /\ n \notin InUse
     /\ a' = Freed(_varea_uninstall(a, n), n) /\ UNCHANGED calls

\* Once nobody uses it the space is detached and another one created.
Recreate ==
  /\ InUse = {NoNode} /\ Linked(a) # {}
  /\ a' = NewSpace(rt_aspace_detach(a).pages) /\ UNCHANGED calls

SpaceStep ==
  /\ part = "space"
  /\ \/ \E c \in Callers :
          \/ \E v \in SpacePages :
               rt_aspace_load_page(c, v) \/ rt_aspace_unmap(c, v)
          \/ \E prefer \in {0} \cup Prefers, size \in Sizes, fixed \in BOOLEAN :
               \/ \E align \in Aligns, prefetch \in BOOLEAN :
                     rt_aspace_map(c, prefer, size, align, fixed, prefetch)
               \/ rt_aspace_map_phy(c, prefer, size, fixed)
          \/ MapPage(c)
          \/ LinkTable(c)
     \/ Recreate
  /\ UNCHANGED <<part, memory, owned>>

Next ==
  \/ (TreeStep \/ PagesStep \/ SpaceStep) /\ UNCHANGED heapVars
  \/ part = "small" /\ SmallMemStep /\ UNCHANGED <<part, spaceVars, hp, doing>>
  \/ part = "memheap" /\ MemheapStep /\ UNCHANGED <<part, spaceVars, q>>

Spec == Init /\ [][Next]_memoryVars

-----------------------------------------------------------------------------
(* Properties *)

\* Whatever is allocated, resized and freed in whatever order, and whoever
\* comes in between, the heaps lose no byte and give none out twice, and free
\* neighbours are one block.
HeapsAccounted == SmallMemAccounted /\ MemheapAccounted

\* Every area is in the space and apart from the others.
AreasApart ==
  /\ \A n \in Linked(a) : AreaPages(a.area[n]) \subseteq SpacePages
  /\ \A m, n \in Linked(a) : m # n => AreaPages(a.area[m]) \cap AreaPages(a.area[n]) = {}

\* A search for an address finds the area it is in, or the lowest area above.
SearchesFind ==
  \A v \in SpacePages :
    LET At == {n \in Linked(a) : v \in AreaPages(a.area[n])}
        Above == {n \in Linked(a) : v <= a.area[n].start}
    IN /\ _aspace_bst_search(a.tree, a.area, v) \in IF At = {} THEN {NoNode} ELSE At
       /\ _aspace_bst_search_exceed(a.tree, a.area, v) \in
            IF Above = {} THEN {NoNode}
            ELSE {n \in Above : \A m \in Above : a.area[n].start <= a.area[m].start}

\* Pages of area n a call has still to map.
StillToMap(n) == UNION {calls[c].v .. calls[c].end - 1 : c \in {d \in Callers : calls[d].node = n}}

Translation(n, v) == IF a.area[n].mem_obj = "phy" THEN {PhyStart + v - a.area[n].start}
                     ELSE ToSet(a.area[n].frames)

\* What has been mapped physically reads as the physical pages asked for.
PhyIsMapped ==
  \A n \in Linked(a) : a.area[n].mem_obj = "phy" =>
    \A v \in AreaPages(a.area[n]) \ StillToMap(n) : rt_hw_mmu_v2p(a, v) \in Translation(n, v)

\* Nothing is translated outside an area, or to another one's pages.
NothingElseIsMapped ==
  \A v \in SpacePages :
    rt_hw_mmu_v2p(a, v) # NoEntry =>
      \E n \in Linked(a) : v \in AreaPages(a.area[n]) /\ rt_hw_mmu_v2p(a, v) \in Translation(n, v)

\* The tree stays a balanced search tree through every rotation, the areas
\* in it are apart, and the page tables say what the areas say.
AreasInOrder ==
  /\ TreeInOrder(a.tree, a.area, {n \in Nodes : a.area[n] # NoArea})
  /\ AreasApart /\ SearchesFind /\ PhyIsMapped /\ NothingElseIsMapped

Tables ==
  {[page |-> a.l1[c], level |-> 0, by |-> <<"table", c>>,
    refs |-> Cardinality({i \in 0 .. SectionPages - 1 : a.l2[a.l1[c]][i] # NoEntry})] :
     c \in {d \in Sections : a.l1[d] # NoEntry}}
TablesToCome ==
  {[page |-> calls[c].table, level |-> 0, by |-> <<"call", c>>, refs |-> 1] :
     c \in {d \in Callers : calls[d].step = "link"}}
Frames ==
  UNION {{[page |-> a.area[n].frames[i], level |-> 0, by |-> <<"frame", <<n, i>>>>, refs |-> 1] :
            i \in DOMAIN a.area[n].frames} : n \in Nodes}

\* Every page is free exactly once or has its one owner, free buddies are
\* merged, and a table has as many references as entries: so it is released
\* with its last translation, and never before.
PagesAccounted ==
  PagesInOrder(a.pages, memory, owned \cup Tables \cup TablesToCome \cup Frames)
=============================================================================
