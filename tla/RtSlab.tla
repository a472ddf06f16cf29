------------------------------- MODULE RtSlab -------------------------------
(***************************************************************************)
(* The heap of the PS program: RT-Thread's slab allocator (rt_thread/src/  *)
(* slab.c), behind rt_malloc, rt_realloc and rt_free of kservice.c.  Each  *)
(* of these runs under the heap lock, a mutex, so each is one action.      *)
(*                                                                         *)
(* Memory is a row of pages.  Requests from the zone limit on take whole   *)
(* pages; smaller ones are rounded to the chunk size of a zone, which is a *)
(* run of ZonePages pages cut into equal chunks behind a header.  A chunk  *)
(* is <<first page of its zone, index>>.  What blocks contain and the      *)
(* peak-use statistic are left out.  LIVE is history: the blocks given out.*)
(***************************************************************************)
EXTENDS Integers, Sequences, FiniteSets, SequencesExt, FiniteSetsExt

CONSTANTS
  NPages,      \* pages of the heap
  ZonePages,   \* pages of a zone
  Classes,     \* zone indices
  NMax,        \* chunks in a zone of each class, at least 3: zone_limit is a quarter zone
  ChunkSize,   \* size of a chunk of each class
  PageSize,
  LargeSizes,  \* pages asked for by large requests
  ReleaseThresh  \* ZONE_RELEASE_THRESH

ASSUME SlabAssumption ==
  /\ NPages \in Nat \ {0} /\ ZonePages \in Nat \ {0} /\ LargeSizes \subseteq Nat \ {0}
  /\ \A c \in Classes : NMax[c] \in Nat /\ NMax[c] >= 3 /\ ChunkSize[c] \in Nat
  /\ PageSize \in Nat /\ ReleaseThresh \in Nat

VARIABLE h   \* the heap

Pages == 1 .. NPages
Nowhere == 0                      \* RT_NULL
NoZone == [class |-> "none", nfree |-> 0, uindex |-> 0, free |-> <<>>]
FirstN(p, n) == p .. p + n - 1    \* the n pages from p on

(* First fit, taken from the front of the run.                             *)
page_alloc(g, n) ==
  LET i == SelectInSeq(g.page_list, LAMBDA b : b.page >= n)
      b == g.page_list[i]
  IN IF i = 0 THEN [g |-> g, at |-> Nowhere]
     ELSE [g |-> [g EXCEPT !.page_list =
                    IF b.page > n THEN [@ EXCEPT ![i] = [at |-> b.at + n, page |-> b.page - n]]
                    ELSE RemoveAt(@, i)],
           at |-> b.at]

\* Mutant of page_free: a run that fills a gap is joined on one side only.
page_freeOneSide(g, at, n) ==
  LET list == g.page_list
      i == SelectInSeq(list, LAMBDA b : b.at + b.page = at \/ b.at >= at + n)
      b == list[i]
  IN [g EXCEPT !.page_list =
        IF i = 0 THEN Append(list, [at |-> at, page |-> n])
        ELSE IF b.at + b.page = at THEN [list EXCEPT ![i].page = @ + n]
        ELSE IF b.at = at + n THEN [list EXCEPT ![i] = [at |-> at, page |-> b.page + n]]
        ELSE InsertAt(list, i, [at |-> at, page |-> n])]

(* The run joins the one before it, and with it the one after, or the one  *)
(* after, or stands alone; runs are kept by address.                       *)
page_free(g, at, n) ==
  LET list == g.page_list
      i == SelectInSeq(list, LAMBDA b : b.at + b.page = at \/ b.at >= at + n)
      b == list[i]
      grown == [b EXCEPT !.page = @ + n]
      bridges == i < Len(list) /\ grown.at + grown.page = list[i + 1].at
  IN [g EXCEPT !.page_list =
        IF i = 0 THEN Append(list, [at |-> at, page |-> n])
        ELSE IF b.at + b.page = at
        THEN IF bridges
             THEN RemoveAt([list EXCEPT ![i].page = @ + n + list[i + 1].page], i + 1)
             ELSE [list EXCEPT ![i] = grown]
        ELSE IF b.at = at + n THEN [list EXCEPT ![i] = [at |-> at, page |-> b.page + n]]
        ELSE InsertAt(list, i, [at |-> at, page |-> n])]

Memusage(g, from, use) ==
  [g EXCEPT !.memusage = [p \in Pages |-> IF p \in FirstN(from, ZonePages)
                                          THEN use[p - from] ELSE @[p]]]

\* The block is given out.
Gives(g, b, size) == [g |-> [g EXCEPT !.used = @ + size, !.LIVE = @ \cup {b}], b |-> b]
Nothing == [kind |-> "null"]
Large(at, n) == [kind |-> "large", at |-> at, chunk |-> 0, size |-> n]
Small(chunk, c) == [kind |-> "small", at |-> chunk[1], chunk |-> chunk[2], size |-> c]

AllocLarge(g, n) ==
  LET run == page_alloc(g, n)
  IN IF run.at = Nowhere THEN [g |-> g, b |-> Nothing]
     ELSE Gives([run.g EXCEPT !.memusage[run.at] = [type |-> "LARGE", size |-> n]],
                Large(run.at, n), n * PageSize)

(* A zone with room is used from its never used part first, then from its  *)
(* free list; it leaves zone_array when it is full.                        *)
AllocFrom(g, c) ==
  LET z == Head(g.zone_array[c])
      zone == g.zone[z]
      fresh == zone.uindex + 1 # NMax[c]
      chunk == IF fresh THEN <<z, zone.uindex + 1>> ELSE Head(zone.free)
      left == [zone EXCEPT !.nfree = @ - 1,
                           !.uindex = IF fresh THEN @ + 1 ELSE @,
                           !.free = IF fresh THEN @ ELSE Tail(@)]
  IN Gives([g EXCEPT !.zone[z] = left,
                     !.zone_array[c] = IF left.nfree = 0 THEN Tail(@) ELSE @],
           Small(chunk, c), ChunkSize[c])

(* A new zone is one kept in zone_free, whose pages are still marked, or   *)
(* newly taken pages.                                                      *)
AllocZone(g, c) ==
  LET run == page_alloc(g, ZonePages)
      kept == g.zone_free # <<>>
      z == IF kept THEN Head(g.zone_free) ELSE run.at
      marked == Memusage(run.g, z, [off \in 0 .. ZonePages - 1 |->
                                      [type |-> "SMALL", size |-> off]])
      g1 == IF kept THEN [g EXCEPT !.zone_free = Tail(@)] ELSE marked
      zone == [class |-> c, nfree |-> NMax[c] - 1, uindex |-> 0, free |-> <<>>]
  IN IF z = Nowhere THEN [g |-> g, b |-> Nothing]
     ELSE Gives([g1 EXCEPT !.zone[z] = zone, !.zone_array[c] = <<z>> \o @],
                Small(<<z, 0>>, c), ChunkSize[c])

rt_slab_alloc(g, req) ==
  IF req.kind = "large" THEN AllocLarge(g, req.size)
  ELSE IF g.zone_array[req.size] # <<>> THEN AllocFrom(g, req.size)
  ELSE AllocZone(g, req.size)

FreeLarge(g, p) ==
  LET n == g.memusage[p].size
  IN page_free([g EXCEPT !.memusage[p].size = 0, !.used = @ - n * PageSize], p, n)

(* A zone that is entirely free is kept for any class, unless it is the    *)
(* only one of its class with room; beyond the threshold its pages go back.*)
(* Its header is cleared before it is used again, so it is cleared here.   *)
FreeZone(g, z) ==
  LET c == g.zone[z].class
      kept == [g EXCEPT !.zone_array[c] = RemoveFirst(@, z), !.zone_free = <<z>> \o @,
                       !.zone[z] = NoZone]
      gone == Memusage([kept EXCEPT !.zone_free = Tail(@)], z,
                       [off \in 0 .. ZonePages - 1 |-> [type |-> "FREE", size |-> 0]])
  IN IF g.zone[z].nfree # NMax[c] \/ Len(g.zone_array[c]) = 1 THEN g
     ELSE IF Len(kept.zone_free) > ReleaseThresh THEN page_free(gone, z, ZonePages)
     ELSE kept

(* The page of the pointer says how far back the zone begins.              *)
FreeSmall(g, chunk, p) ==
  LET z == p - g.memusage[p].size
      zone == g.zone[z]
      c == zone.class
      left == [zone EXCEPT !.free = <<chunk>> \o @, !.nfree = @ + 1]
      g1 == [g EXCEPT !.zone[z] = left,
                      !.used = @ - ChunkSize[c],
                      !.zone_array[c] = IF zone.nfree = 0 THEN <<z>> \o @ ELSE @]
  IN FreeZone(g1, z)

\* The page a block begins in.
Page(b) == IF b.kind = "large" THEN b.at
           ELSE b.at + (b.chunk * ZonePages) \div NMax[b.size]
rt_slab_free(g, b) ==
  LET g1 == [g EXCEPT !.LIVE = @ \ {b}]
  IN IF g.memusage[Page(b)].type = "LARGE" THEN FreeLarge(g1, Page(b))
     ELSE FreeSmall(g1, <<b.at, b.chunk>>, Page(b))

(* A chunk whose class stays the same is kept; else a new block is taken,  *)
(* and the old one given back, or kept when there is no new one.           *)
rt_slab_realloc(g, b, req) ==
  LET new == rt_slab_alloc(g, req)
  IN IF b.kind = "small" /\ req = [kind |-> "small", size |-> b.size] THEN g
     ELSE IF new.b = Nothing THEN g
     ELSE rt_slab_free(new.g, b)

----------------------------------------------------------------------------
Requests == [kind : {"large"}, size : LargeSizes] \cup [kind : {"small"}, size : Classes]

rt_malloc == \E req \in Requests : h' = rt_slab_alloc(h, req).g
rt_free == \E b \in h.LIVE : h' = rt_slab_free(h, b)
rt_realloc == \E b \in h.LIVE, req \in Requests : h' = rt_slab_realloc(h, b, req)

(* The page allocator is given all pages, then memusage takes the first.   *)
HeapObject ==
  page_alloc([page_list |-> <<[at |-> 1, page |-> NPages]>>,
              memusage |-> [p \in Pages |-> [type |-> "FREE", size |-> 0]],
              zone |-> [p \in Pages |-> NoZone],
              zone_array |-> [c \in Classes |-> <<>>], zone_free |-> <<>>,
              used |-> 0, LIVE |-> {}], 1).g

HeapStep == rt_malloc \/ rt_free \/ rt_realloc

----------------------------------------------------------------------------
ZonesOf(c) == {h.zone_array[c][i] : i \in DOMAIN h.zone_array[c]}
Kept == {h.zone_free[i] : i \in DOMAIN h.zone_free}
ChunksOf(z) == {b.chunk : b \in {b \in h.LIVE : b.kind = "small" /\ b.at = z}}
\* Zones in use: with room, or full of live chunks.
Zones == (UNION {ZonesOf(c) : c \in Classes}) \cup {b.at : b \in {b \in h.LIVE : b.kind = "small"}}

(* Every page has one use: memusage, a free run, a large block, a zone in  *)
(* use or a zone kept.  So blocks never overlap each other or the lists.   *)
(* Free runs are in order and never touch, so that a run that is free is   *)
(* found whole.                                                            *)
PagesAccounted ==
  LET runs == [i \in DOMAIN h.page_list |-> FirstN(h.page_list[i].at, h.page_list[i].page)]
      larges == {b \in h.LIVE : b.kind = "large"}
      used == MapThenSumSet(LAMBDA b : b.size, larges)
              + ZonePages * (Cardinality(Zones) + Len(h.zone_free))
      places == UNION ({runs[i] : i \in DOMAIN runs} \cup {{1}}
                       \cup {FirstN(b.at, b.size) : b \in larges}
                       \cup {FirstN(z, ZonePages) : z \in Zones \cup Kept})
  IN /\ places = Pages
     /\ 1 + used + MapThenSumSet(LAMBDA i : h.page_list[i].page, DOMAIN h.page_list) = NPages
     /\ \A i \in 1 .. Len(h.page_list) - 1 :
          h.page_list[i].at + h.page_list[i].page < h.page_list[i + 1].at

(* Every chunk of a zone in use is live, never used or in its free list,   *)
(* and only one of these; nfree counts the last two, and the zone is in    *)
(* the list of its class while there are any.                              *)
ZonesAccounted ==
  \A z \in Zones :
    LET zone == h.zone[z]
        given == ChunksOf(z)
        back == {chunk[2] : chunk \in {zone.free[i] : i \in DOMAIN zone.free}}
        fresh == zone.uindex + 1 .. NMax[zone.class] - 1
    IN /\ given \cup back \cup fresh = 0 .. NMax[zone.class] - 1
       /\ given \cap back = {} /\ given \cap fresh = {} /\ back \cap fresh = {}
       /\ Len(zone.free) = Cardinality(back)
       /\ zone.nfree = Cardinality(back \cup fresh)
       /\ {c \in Classes : z \in ZonesOf(c)} = IF zone.nfree > 0 THEN {zone.class} ELSE {}

(* The page of a block leads free and realloc to where it came from: its   *)
(* page count, or the header of its zone with its chunk size; and used is  *)
(* what the live blocks take.                                              *)
FreeFindsOwner ==
  /\ \A b \in h.LIVE :
       LET use == h.memusage[Page(b)]
       IN IF b.kind = "large" THEN use = [type |-> "LARGE", size |-> b.size]
          ELSE /\ use.type = "SMALL" /\ Page(b) - use.size = b.at
               /\ h.zone[b.at].class = b.size
  /\ h.used = MapThenSumSet(LAMBDA b : IF b.kind = "large" THEN b.size * PageSize
                                       ELSE ChunkSize[b.size], h.LIVE)

(* Memory is neither lost nor given out twice, and what is freed goes back *)
(* to where it came from: the three above.                                 *)
HeapAccounted == PagesAccounted /\ ZonesAccounted /\ FreeFindsOwner
=============================================================================
