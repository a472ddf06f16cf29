------------------------------ MODULE HeapProofs ------------------------------
(***************************************************************************)
(* The heap of RtSlab never loses memory and never gives it out twice, for *)
(* any number of pages, any page and zone size, any chunk classes and any  *)
(* requests: HeapAccounted holds in every state of the kernel.             *)
(*                                                                         *)
(* The argument: the free runs of pages and the regions in use (the page   *)
(* table, the large blocks, the zones) hold every page once, each zone has *)
(* its chunks live, free or not used yet, and the lists, marks and counts  *)
(* say so.  That is SlabInv, which each operation keeps because it moves   *)
(* one run, one region or one chunk; HeapAccounted follows from it by      *)
(* counting.                                                               *)
(***************************************************************************)
EXTENDS RtThreadProofs

-------------------------------------------------------------------------------
(* Sums over finite sets.  MapThenSumSet is a recursive function on subsets;   *)
(* SumOver is it for a function f, and each form the heaps use is shown below  *)
(* to be a SumOver.                                                            *)

\* The sum of the numbers of f over S.
SumOver(f, S) == (CHOOSE g : SumFold(g, f, S, SUBSET S))[S]

\* What holds of a set if of the set without any one element, holds of all.
LEMMA SetsGrow ==
  ASSUME NEW S, IsFiniteSet(S), NEW G, {} \in G,
         \A I \in SUBSET S : I # {} /\ (\A x \in I : I \ {x} \in G) => I \in G
  PROVE  S \in G
<1> DEFINE N == {k \in Nat : \A I \in SUBSET S : Cardinality(I) <= k => I \in G}
<1>0. ASSUME NEW I \in SUBSET S
      PROVE  /\ IsFiniteSet(I) /\ Cardinality(I) \in Nat /\ (Cardinality(I) = 0 <=> I = {})
             /\ \A x \in I : Cardinality(I \ {x}) = Cardinality(I) - 1
  <2>1. IsFiniteSet(I)
    BY FS_Subset
  <2>2. Cardinality(I) \in Nat
    BY <2>1, FS_CardinalityType
  <2>3. Cardinality(I) = 0 <=> I = {}
    BY <2>1, FS_EmptySet
  <2>4. \A x \in I : Cardinality(I \ {x}) = Cardinality(I) - 1
    BY <2>1, FS_RemoveElement
  <2> QED BY <2>1, <2>2, <2>3, <2>4
<1>1. 0 \in N
  <2>1. ASSUME NEW I \in SUBSET S, Cardinality(I) <= 0 PROVE I \in G
    <3>1. Cardinality(I) \in Nat /\ (Cardinality(I) = 0 <=> I = {})
      BY <1>0
    <3>2. I = {}
      BY <2>1, <3>1
    <3> QED BY <3>2
  <2> QED BY <2>1
<1>2. ASSUME NEW k \in N PROVE k + 1 \in N
  <2>0. k \in Nat /\ k + 1 \in Nat /\ \A I \in SUBSET S : Cardinality(I) <= k => I \in G
    BY <1>2
  <2> SUFFICES ASSUME NEW I \in SUBSET S, Cardinality(I) <= k + 1, I # {} PROVE I \in G
    BY <2>0
  <2>1. ASSUME NEW x \in I PROVE I \ {x} \in G
    <3>1. Cardinality(I \ {x}) <= k /\ I \ {x} \in SUBSET S
      BY <1>0, <2>0
    <3> QED BY <2>0, <3>1
  <2> QED BY <2>1
<1>3. N \in SUBSET Nat
  OBVIOUS
<1> HIDE DEF N
<1>4. N = Nat
  BY <1>1, <1>2, <1>3, UpFromZero
<1>5. PICK n \in N : n = Cardinality(S)
  BY <1>4, FS_CardinalityType
<1>6. Cardinality(S) <= n
  BY <1>4, <1>5
<1> QED BY <1>6 DEF N

\* Two functions that add up, agree where what they add up agrees.
LEMMA SumFoldsAgree ==
  ASSUME NEW S, IsFiniteSet(S), NEW T \in SUBSET S, NEW f, NEW e, NEW g, NEW x,
         SumFold(g, f, S, SUBSET S), SumFold(x, e, T, SUBSET T), \A t \in T : f[t] = e[t]
  PROVE  g[T] = x[T]
<1> DEFINE G == {I \in SUBSET T : g[I] = x[I]}
<1>1. IsFiniteSet(T)
  BY FS_Subset
<1>2. {} \in G
  BY DEF SumFold
<1>3. ASSUME NEW I \in SUBSET T, I # {}, I \ {AnyOf(I)} \in G PROVE I \in G
  <2>1. AnyOf(I) \in T /\ I \in SUBSET S
    BY <1>1, <1>3, OneOut
  <2>2. g[I] = f[AnyOf(I)] + g[I \ {AnyOf(I)}] /\ x[I] = e[AnyOf(I)] + x[I \ {AnyOf(I)}]
    BY <1>3, <2>1 DEF SumFold
  <2> QED BY <1>3, <2>1, <2>2
<1> HIDE DEF G
<1>4. T \in G
  BY <1>1, <1>2, <1>3, SetsUp
<1> QED BY <1>4 DEF G

\* SumOver is such a function at the whole set.
SumsOf(g, f, S) ==
  SumFold(g, f, S, SUBSET S) /\ g[{}] = 0 /\ \A T \in SUBSET S : SumOver(f, T) = g[T]

\* There is one.
LEMMA SumIsFold ==
  ASSUME NEW f, NEW S, IsFiniteSet(S)
  PROVE  \E g : SumsOf(g, f, S)
<1>1. PICK g : SumFold(g, f, S, SUBSET S)
  BY SumFoldExists
<1>2. ASSUME NEW T \in SUBSET S PROVE SumOver(f, T) = g[T]
  <2>1. IsFiniteSet(T)
    BY FS_Subset
  <2>2. \E x : SumFold(x, f, T, SUBSET T)
    BY <2>1, SumFoldExists
  <2>3. PICK x : x = CHOOSE y : SumFold(y, f, T, SUBSET T)
    OBVIOUS
  <2>4. SumFold(x, f, T, SUBSET T)
    BY <2>2, <2>3
  <2>5. g[T] = x[T]
    BY <1>1, <2>4, SumFoldsAgree
  <2> QED BY <2>3, <2>5 DEF SumOver
<1>3. g[{}] = 0
  BY <1>1 DEF SumFold
<1>4. SumsOf(g, f, S)
  BY <1>1, <1>2, <1>3 DEF SumsOf
<1> QED BY <1>4

\* Any element can be taken out of a sum first.
LEMMA SumTakes ==
  ASSUME NEW f, NEW S, IsFiniteSet(S), \A x \in S : f[x] \in Int
  PROVE  /\ SumOver(f, S) \in Int /\ SumOver(f, {}) = 0
         /\ \A x \in S : SumOver(f, S) = f[x] + SumOver(f, S \ {x})
<1>10. PICK g : SumsOf(g, f, S)
  BY SumIsFold
<1>1. SumFold(g, f, S, SUBSET S) /\ g[{}] = 0 /\ \A T \in SUBSET S : SumOver(f, T) = g[T]
  BY <1>10 DEF SumsOf
<1>2. ASSUME NEW T \in SUBSET S PROVE g[T] \in Int
  <2> DEFINE H == {I \in SUBSET T : g[I] \in Int}
  <2>1. IsFiniteSet(T)
    BY FS_Subset
  <2>2. {} \in H
    BY <1>1
  <2>3. ASSUME NEW I \in SUBSET T, I # {}, I \ {AnyOf(I)} \in H PROVE I \in H
    <3>1. AnyOf(I) \in I /\ I \in SUBSET S
      BY <2>1, <2>3, OneOut
    <3>2. g[I] = f[AnyOf(I)] + g[I \ {AnyOf(I)}]
      BY <1>1, <2>3, <3>1 DEF SumFold
    <3>3. f[AnyOf(I)] \in Int
      BY <3>1
    <3> QED BY <2>3, <3>2, <3>3
  <2> HIDE DEF H
  <2>4. T \in H
    BY <2>1, <2>2, <2>3, SetsUp
  <2> QED BY <2>4 DEF H
<1> DEFINE G == {I \in SUBSET S : \A y \in I : g[I] = f[y] + g[I \ {y}]}
<1>3. {} \in G
  OBVIOUS
<1>4. ASSUME NEW I \in SUBSET S, I # {}, \A x \in I : I \ {x} \in G PROVE I \in G
  <2>1. PICK v \in S : v = AnyOf(I) /\ v \in I
    BY <1>4, OneOut, FS_Subset
  <2>2. g[I] = f[v] + g[I \ {v}]
    BY <1>1, <1>4, <2>1 DEF SumFold
  <2>3. ASSUME NEW y \in I, y # v PROVE g[I] = f[y] + g[I \ {y}]
    <3>1. PICK J \in SUBSET S : J = (I \ {v}) \ {y} /\ J = (I \ {y}) \ {v}
      OBVIOUS
    <3>2. g[I \ {v}] = f[y] + g[J]
      BY <1>4, <2>1, <2>3, <3>1
    <3>3. g[I \ {y}] = f[v] + g[J]
      BY <1>4, <2>1, <2>3, <3>1
    <3>4. f[v] \in Int /\ f[y] \in Int /\ g[J] \in Int
      BY <1>2
    <3> QED BY <2>2, <3>2, <3>3, <3>4
  <2> QED BY <2>1, <2>2, <2>3
<1> HIDE DEF G
<1>5. S \in G
  BY <1>3, <1>4, SetsGrow
<1> QED BY <1>1, <1>2, <1>5 DEF G

\* The least of a set of numbers, as the operator has it.
LEMMA MinOf ==
  ASSUME NEW I \in SUBSET Nat, I # {}
  PROVE  Min(I) \in I /\ \A j \in I : Min(I) <= j
<1>1. \E i \in I : \A j \in I : i <= j
  BY LeastOf
<1> QED BY <1>1 DEF Min

-------------------------------------------------------------------------------
(* Free pages: the runs of page_list, what page_alloc takes out of them and  *)
(* what page_free puts back.                                                 *)

\* A run of pages, and the pages that runs hold.
Run == [at : Nat, page : Nat]
Holds(r, p) == r.at <= p /\ p < r.at + r.page
FreePages(list) == {p \in Pages : \E i \in 1 .. Len(list) : Holds(list[i], p)}

\* Runs of the heap, in order, that do not touch.
RunFits(r) == r \in Run /\ 1 <= r.at /\ 1 <= r.page /\ r.at + r.page <= NPages + 1
Before(r, e) == r.at + r.page < e.at
RunsOk(list) ==
  /\ list \in Seq(Run) /\ \A i \in 1 .. Len(list) : RunFits(list[i])
  /\ \A i, j \in 1 .. Len(list) : i < j => Before(list[i], list[j])

\* No page is in two of them.
LEMMA RunsApart ==
  ASSUME NEW list, RunsOk(list), NEW i \in 1 .. Len(list), NEW j \in 1 .. Len(list), i # j,
         NEW p \in Pages, Holds(list[i], p)
  PROVE  ~Holds(list[j], p)
<1>1. RunFits(list[i]) /\ RunFits(list[j]) /\ p \in Nat /\ i \in Nat /\ j \in Nat
  BY SlabAssumption DEF RunsOk, Pages
<1>2. Before(list[i], list[j]) \/ Before(list[j], list[i])
  BY <1>1 DEF RunsOk
<1> QED BY <1>1, <1>2 DEF Before, Holds, RunFits, Run

\* A run taken out of the list.
LEMMA RunGone ==
  ASSUME NEW list, RunsOk(list), NEW i \in 1 .. Len(list)
  PROVE  /\ RunsOk(RemoveAt(list, i))
         /\ FreePages(RemoveAt(list, i)) = {p \in FreePages(list) : ~Holds(list[i], p)}
<1>1. list \in Seq(Run) /\ Len(list) \in Nat
  BY DEF RunsOk
<1>2. PICK e \in Seq(Run) : /\ e = RemoveAt(list, i) /\ Len(e) = Len(list) - 1
                            /\ \A j \in 1 .. Len(list) - 1 :
                                 e[j] = IF j < i THEN list[j] ELSE list[j + 1]
  BY <1>1, Deleted, Zenon
<1>3. \A j \in 1 .. Len(e) : \E k \in 1 .. Len(list) :
        k # i /\ e[j] = list[k] /\ k = IF j < i THEN j ELSE j + 1
  BY <1>1, <1>2
<1>4. \A k \in 1 .. Len(list) : k # i => \E j \in 1 .. Len(e) : e[j] = list[k]
  <2> SUFFICES ASSUME NEW k \in 1 .. Len(list), k # i PROVE \E j \in 1 .. Len(e) : e[j] = list[k]
    OBVIOUS
  <2>1. CASE k < i
    <3>1. k \in 1 .. Len(e) /\ e[k] = list[k]
      BY <1>1, <1>2, <2>1
    <3> QED BY <3>1
  <2>2. CASE k > i
    <3>1. k - 1 \in 1 .. Len(e) /\ e[k - 1] = list[k]
      BY <1>1, <1>2, <2>2
    <3> QED BY <3>1
  <2> QED BY <1>1, <2>1, <2>2
<1>5. RunsOk(e)
  <2>1. ASSUME NEW j \in 1 .. Len(e) PROVE RunFits(e[j])
    BY <1>3 DEF RunsOk
  <2>2. ASSUME NEW j \in 1 .. Len(e), NEW k \in 1 .. Len(e), j < k PROVE Before(e[j], e[k])
    <3>1. PICK a \in 1 .. Len(list) : e[j] = list[a] /\ a = IF j < i THEN j ELSE j + 1
      BY <1>3
    <3>2. PICK b \in 1 .. Len(list) : e[k] = list[b] /\ b = IF k < i THEN k ELSE k + 1
      BY <1>3
    <3>3. a < b
      BY <1>1, <1>2, <2>2, <3>1, <3>2
    <3> QED BY <3>1, <3>2, <3>3 DEF RunsOk
  <2> QED BY <2>1, <2>2 DEF RunsOk
<1>6. ASSUME NEW p \in Pages PROVE p \in FreePages(e) <=> p \in FreePages(list) /\ ~Holds(list[i], p)
  <2>1. ASSUME p \in FreePages(e) PROVE p \in FreePages(list) /\ ~Holds(list[i], p)
    <3>1. PICK j \in 1 .. Len(e) : Holds(e[j], p)
      BY <2>1 DEF FreePages
    <3>2. PICK k \in 1 .. Len(list) : k # i /\ Holds(list[k], p)
      BY <1>3, <3>1
    <3> QED BY <3>2, RunsApart DEF FreePages
  <2>2. ASSUME p \in FreePages(list), ~Holds(list[i], p) PROVE p \in FreePages(e)
    <3>1. PICK k \in 1 .. Len(list) : Holds(list[k], p)
      BY <2>2 DEF FreePages
    <3>2. \E j \in 1 .. Len(e) : e[j] = list[k]
      BY <1>4, <2>2, <3>1
    <3> QED BY <3>1, <3>2 DEF FreePages
  <2> QED BY <2>1, <2>2
<1>7. FreePages(e) = {p \in FreePages(list) : ~Holds(list[i], p)}
  BY <1>6 DEF FreePages
<1> QED BY <1>2, <1>5, <1>7

\* A run keeps the order in the place of run i, or in front of it.
FitsAt(list, i, r) == \A j \in 1 .. Len(list) : /\ j < i => Before(list[j], r)
                                                /\ j > i => Before(r, list[j])
FitsBefore(list, i, r) == \A j \in 1 .. Len(list) : /\ j < i => Before(list[j], r)
                                                    /\ j >= i => Before(r, list[j])

\* The list with a run replaced, or added.
Replaces(e, list, i, r) ==
  /\ RunsOk(e)
  /\ \A p \in Pages : p \in FreePages(e) <=> Holds(r, p) \/ (p \in FreePages(list) /\ ~Holds(list[i], p))
Adds(e, list, r) ==
  /\ RunsOk(e)
  /\ \A p \in Pages : p \in FreePages(e) <=> Holds(r, p) \/ p \in FreePages(list)

\* A run put where another was.
LEMMA RunChanged ==
  ASSUME NEW list, RunsOk(list), NEW i \in 1 .. Len(list), NEW r, RunFits(r),
         FitsAt(list, i, r)
  PROVE  Replaces([list EXCEPT ![i] = r], list, i, r)
<1>1. list \in Seq(Run) /\ Len(list) \in Nat /\ r \in Run
  BY DEF RunsOk, RunFits
<1>2. PICK e \in Seq(Run) : /\ e = [list EXCEPT ![i] = r] /\ Len(e) = Len(list)
                            /\ \A j \in 1 .. Len(list) : e[j] = IF j = i THEN r ELSE list[j]
  <2>1. /\ [list EXCEPT ![i] = r] \in Seq(Run) /\ Len([list EXCEPT ![i] = r]) = Len(list)
        /\ \A j \in 1 .. Len(list) : [list EXCEPT ![i] = r][j] = IF j = i THEN r ELSE list[j]
    BY <1>1, ExceptSeq
  <2> QED BY <2>1, Zenon
<1>3. RunsOk(e)
  <2>1. ASSUME NEW j \in 1 .. Len(e) PROVE RunFits(e[j])
    BY <1>2 DEF RunsOk
  <2>2. ASSUME NEW j \in 1 .. Len(e), NEW k \in 1 .. Len(e), j < k PROVE Before(e[j], e[k])
    BY <1>1, <1>2, <2>2 DEF RunsOk, FitsAt
  <2> QED BY <2>1, <2>2 DEF RunsOk
<1>4. ASSUME NEW p \in Pages
      PROVE  p \in FreePages(e) <=> Holds(r, p) \/ (p \in FreePages(list) /\ ~Holds(list[i], p))
  <2>1. ASSUME p \in FreePages(e), ~Holds(r, p)
        PROVE  p \in FreePages(list) /\ ~Holds(list[i], p)
    <3>1. PICK j \in 1 .. Len(list) : Holds(e[j], p)
      BY <1>2, <2>1 DEF FreePages
    <3>2. j # i /\ e[j] = list[j]
      BY <1>2, <2>1, <3>1
    <3> QED BY <3>1, <3>2, RunsApart DEF FreePages
  <2>2. ASSUME Holds(r, p) PROVE p \in FreePages(e)
    <3>1. i \in 1 .. Len(e) /\ e[i] = r
      BY <1>2
    <3> QED BY <2>2, <3>1 DEF FreePages
  <2>3. ASSUME p \in FreePages(list), ~Holds(list[i], p) PROVE p \in FreePages(e)
    <3>1. PICK k \in 1 .. Len(list) : Holds(list[k], p)
      BY <2>3 DEF FreePages
    <3>2. e[k] = list[k]
      BY <1>2, <2>3, <3>1
    <3> QED BY <1>2, <3>1, <3>2 DEF FreePages
  <2> QED BY <2>1, <2>2, <2>3
<1> QED BY <1>2, <1>3, <1>4 DEF Replaces

\* A run put between two others.
LEMMA RunPut ==
  ASSUME NEW list, RunsOk(list), NEW i \in 1 .. Len(list) + 1, NEW r, RunFits(r),
         FitsBefore(list, i, r), NEW e \in Seq(Run), PutAt(list, i, r, e)
  PROVE  Adds(e, list, r)
<1>1. list \in Seq(Run) /\ Len(list) \in Nat /\ i \in Nat
  BY DEF RunsOk
<1>2. /\ Len(e) = Len(list) + 1
      /\ \A j \in 1 .. Len(e) : e[j] = IF j < i THEN list[j] ELSE IF j = i THEN r ELSE list[j - 1]
  BY DEF PutAt
<1>3. ASSUME NEW j \in 1 .. Len(e)
      PROVE  \/ j = i /\ e[j] = r
             \/ j < i /\ j \in 1 .. Len(list) /\ e[j] = list[j]
             \/ j > i /\ j - 1 \in 1 .. Len(list) /\ j - 1 >= i /\ e[j] = list[j - 1]
  BY <1>1, <1>2
<1>4. ASSUME NEW k \in 1 .. Len(list) PROVE \E j \in 1 .. Len(e) : e[j] = list[k]
  <2>1. CASE k < i
    <3>1. k \in 1 .. Len(e) /\ e[k] = list[k]
      BY <1>1, <1>2, <2>1
    <3> QED BY <3>1
  <2>2. CASE k >= i
    <3>1. k + 1 \in 1 .. Len(e) /\ ~(k + 1 < i) /\ k + 1 # i /\ (k + 1) - 1 = k
      BY <1>1, <1>2, <2>2
    <3>2. e[k + 1] = list[k]
      BY <1>2, <3>1
    <3> QED BY <3>1, <3>2
  <2> QED BY <1>1, <2>1, <2>2
<1>5. RunsOk(e)
  <2>1. ASSUME NEW j \in 1 .. Len(e) PROVE RunFits(e[j])
    BY <1>3 DEF RunsOk
  <2>2. ASSUME NEW j \in 1 .. Len(e), NEW k \in 1 .. Len(e), j < k PROVE Before(e[j], e[k])
    <3>1. \/ j = i /\ e[j] = r
          \/ j < i /\ j \in 1 .. Len(list) /\ e[j] = list[j]
          \/ j > i /\ j - 1 \in 1 .. Len(list) /\ j - 1 >= i /\ e[j] = list[j - 1]
      BY <1>3
    <3>2. \/ k = i /\ e[k] = r
          \/ k < i /\ k \in 1 .. Len(list) /\ e[k] = list[k]
          \/ k > i /\ k - 1 \in 1 .. Len(list) /\ k - 1 >= i /\ e[k] = list[k - 1]
      BY <1>3
    <3>3. \A a, b \in 1 .. Len(list) : a < b => Before(list[a], list[b])
      BY DEF RunsOk
    <3>4. j \in Nat /\ k \in Nat
      OBVIOUS
    <3>5. CASE j = i /\ e[j] = r
      <4>1. k > i /\ k - 1 \in 1 .. Len(list) /\ k - 1 >= i /\ e[k] = list[k - 1]
        BY <2>2, <3>2, <3>4, <3>5
      <4> QED BY <1>1, <3>5, <4>1 DEF FitsBefore
    <3>6. CASE j < i /\ j \in 1 .. Len(list) /\ e[j] = list[j]
      BY <1>1, <2>2, <3>2, <3>3, <3>4, <3>6 DEF FitsBefore
    <3>7. CASE j > i /\ j - 1 \in 1 .. Len(list) /\ j - 1 >= i /\ e[j] = list[j - 1]
      <4>1. k - 1 \in 1 .. Len(list) /\ e[k] = list[k - 1] /\ j - 1 < k - 1
        BY <1>1, <2>2, <3>2, <3>4, <3>7
      <4> QED BY <3>3, <3>7, <4>1
    <3> QED BY <3>1, <3>5, <3>6, <3>7
  <2> QED BY <2>1, <2>2 DEF RunsOk
<1>6. ASSUME NEW p \in Pages PROVE p \in FreePages(e) <=> Holds(r, p) \/ p \in FreePages(list)
  <2>1. ASSUME p \in FreePages(e), ~Holds(r, p) PROVE p \in FreePages(list)
    <3>1. PICK j \in 1 .. Len(e) : Holds(e[j], p)
      BY <2>1 DEF FreePages
    <3>2. \E k \in 1 .. Len(list) : e[j] = list[k]
      BY <1>3, <2>1, <3>1
    <3> QED BY <3>1, <3>2 DEF FreePages
  <2>2. ASSUME Holds(r, p) PROVE p \in FreePages(e)
    <3>1. i \in 1 .. Len(e) /\ e[i] = r
      BY <1>1, <1>2
    <3> QED BY <2>2, <3>1 DEF FreePages
  <2>3. ASSUME p \in FreePages(list) PROVE p \in FreePages(e)
    BY <1>4, <2>3 DEF FreePages
  <2> QED BY <2>1, <2>2, <2>3
<1> QED BY <1>5, <1>6 DEF Adds

\* What page_alloc does to the list: the pages it gives were free and are not.
AllocatesPages(g, n, r, list) ==
  \/ r = [g |-> g, at |-> Nowhere]
  \/ /\ r.at \in Nat \ {0} /\ r.at + n <= NPages + 1 /\ r = [g |-> [g EXCEPT !.page_list = list], at |-> r.at]
     /\ RunsOk(list)
     /\ \A p \in Pages : /\ p \in FirstN(r.at, n) => p \in FreePages(g.page_list)
                         /\ p \in FreePages(list) <=> p \in FreePages(g.page_list) /\ p \notin FirstN(r.at, n)

\* page_alloc does that.
LEMMA PageAlloc ==
  ASSUME NEW g, NEW n \in Nat \ {0}, RunsOk(g.page_list)
  PROVE  \E list : AllocatesPages(g, n, page_alloc(g, n), list)
<1> DEFINE old == g.page_list
           i == SelectInSeq(old, LAMBDA b : b.page >= n)
           I == {k \in 1 .. Len(old) : old[k].page >= n}
<1>1. old \in Seq(Run) /\ Len(old) \in Nat
  BY DEF RunsOk
<1>2. i = IF I # {} THEN Min(I) ELSE 0
  BY Zenon DEF SelectInSeq
<1>3. i = 0 \/ i \in I
  <2>1. I \in SUBSET Nat
    OBVIOUS
  <2> HIDE DEF I, i
  <2> QED BY <1>2, <2>1, MinOf
<1> HIDE DEF i
<1>4. CASE i = 0
  <2>1. page_alloc(g, n) = [g |-> g, at |-> Nowhere]
    BY <1>4 DEF page_alloc, i
  <2> QED BY <2>1 DEF AllocatesPages
<1>5. CASE i \in I
  <2>1. PICK b \in Run : b = old[i] /\ RunFits(b) /\ b.page >= n /\ i \in 1 .. Len(old) /\ i # 0
    BY <1>1, <1>5 DEF RunsOk
  <2> DEFINE left == [at |-> b.at + n, page |-> b.page - n]
             list == IF b.page > n THEN [old EXCEPT ![i] = left] ELSE RemoveAt(old, i)
  <2>2. page_alloc(g, n) = [g |-> [g EXCEPT !.page_list = list], at |-> b.at]
    BY <2>1 DEF page_alloc, i
  <2>3. b.at \in Nat \ {0} /\ b.at + n <= NPages + 1
    BY <2>1, SlabAssumption DEF RunFits, Run
  <2>4. \A p \in Pages : p \in FirstN(b.at, n) <=> b.at <= p /\ p < b.at + n
    BY <2>3 DEF FirstN, Pages
  <2>5. ASSUME NEW p \in Pages, p \in FirstN(b.at, n) PROVE p \in FreePages(old)
    <3>1. Holds(b, p)
      BY <2>1, <2>4, <2>5, SlabAssumption DEF Holds, RunFits, Run, Pages
    <3> QED BY <2>1, <3>1 DEF FreePages
  <2>6. /\ RunsOk(list)
        /\ \A p \in Pages : p \in FreePages(list) <=> p \in FreePages(old) /\ p \notin FirstN(b.at, n)
    <3>1. CASE b.page > n
      <4>1. RunFits(left)
        BY <2>1, <3>1, SlabAssumption DEF RunFits, Run
      <4>2. ASSUME NEW j \in 1 .. Len(old)
            PROVE  /\ j < i => Before(old[j], left)
                   /\ j > i => Before(left, old[j])
        <5>1. /\ j < i => Before(old[j], b)
              /\ j > i => Before(b, old[j])
          BY <2>1 DEF RunsOk
        <5>2. RunFits(old[j])
          BY DEF RunsOk
        <5> QED BY <2>1, <3>1, <5>1, <5>2 DEF Before, RunFits, Run
      <4>3. Replaces([old EXCEPT ![i] = left], old, i, left)
        BY <2>1, <4>1, <4>2, RunChanged DEF FitsAt
      <4>4. ASSUME NEW p \in Pages
            PROVE  Holds(left, p) \/ (p \in FreePages(old) /\ ~Holds(old[i], p))
                     <=> p \in FreePages(old) /\ p \notin FirstN(b.at, n)
        <5>1. p \in Nat
          BY SlabAssumption DEF Pages
        <5>2. Holds(b, p) <=> Holds(left, p) \/ p \in FirstN(b.at, n)
          BY <2>1, <2>4, <3>1, <5>1 DEF Holds, RunFits, Run
        <5>3. ~(Holds(left, p) /\ p \in FirstN(b.at, n))
          BY <2>1, <2>4, <5>1 DEF Holds, RunFits, Run
        <5>4. Holds(b, p) => p \in FreePages(old)
          BY <2>1 DEF FreePages
        <5> QED BY <2>1, <5>2, <5>3, <5>4
      <4> QED BY <3>1, <4>3, <4>4 DEF Replaces
    <3>2. CASE ~(b.page > n)
      <4>1. /\ RunsOk(RemoveAt(old, i))
            /\ FreePages(RemoveAt(old, i)) = {p \in FreePages(old) : ~Holds(old[i], p)}
        BY <2>1, RunGone
      <4>2. ASSUME NEW p \in Pages PROVE Holds(b, p) <=> p \in FirstN(b.at, n)
        BY <2>1, <2>4, <3>2, SlabAssumption DEF Holds, RunFits, Run, Pages
      <4> QED BY <2>1, <3>2, <4>1, <4>2
    <3> QED BY <3>1, <3>2
  <2> HIDE DEF list
  <2>7. AllocatesPages(g, n, page_alloc(g, n), list)
    <3>1. page_alloc(g, n).at = b.at
      BY <2>2
    <3> QED BY <2>2, <2>3, <2>5, <2>6, <3>1 DEF AllocatesPages
  <2> QED BY <2>7
<1> QED BY <1>3, <1>4, <1>5

\* What page_free does to the list: the pages given back are free too.
FreesPages(old, at, n, list) ==
  /\ RunsOk(list)
  /\ \A p \in Pages : p \in FreePages(list) <=> p \in FreePages(old) \/ p \in FirstN(at, n)

\* page_free does that.
LEMMA PageFree ==
  ASSUME NEW g, NEW at \in Nat \ {0}, NEW n \in Nat \ {0}, at + n <= NPages + 1,
         RunsOk(g.page_list), \A p \in FirstN(at, n) : p \notin FreePages(g.page_list)
  PROVE  \E list : /\ page_free(g, at, n) = [g EXCEPT !.page_list = list]
                   /\ FreesPages(g.page_list, at, n, list)
<1>1. PICK old \in Seq(Run) : old = g.page_list /\ RunsOk(old) /\ Len(old) \in Nat
  BY DEF RunsOk
<1> DEFINE i == SelectInSeq(old, LAMBDA e : e.at + e.page = at \/ e.at >= at + n)
           I == {k \in 1 .. Len(old) : old[k].at + old[k].page = at \/ old[k].at >= at + n}
<1>2. i = IF I # {} THEN Min(I) ELSE 0
  BY Zenon DEF SelectInSeq
<1> HIDE DEF i
<1>3. PICK r \in Run : r = [at |-> at, page |-> n] /\ r.at = at /\ r.page = n /\ RunFits(r)
  <2>1. [at |-> at, page |-> n] \in Run /\ RunFits([at |-> at, page |-> n])
    BY DEF RunFits, Run
  <2> QED BY <2>1
<1>4. \A p \in Pages : p \in FirstN(at, n) <=> Holds(r, p)
  BY <1>3 DEF FirstN, Pages, Holds
<1>5. NPages \in Nat /\ FirstN(at, n) \in SUBSET Pages
  BY SlabAssumption DEF FirstN, Pages
<1>6. ASSUME NEW j \in 1 .. Len(old)
      PROVE  RunFits(old[j]) /\ (old[j].at + old[j].page <= at \/ old[j].at >= at + n)
  <2>1. PICK x \in Nat, y \in Nat : /\ x = old[j].at /\ y = old[j].page /\ x >= 1 /\ y >= 1
                                    /\ x + y <= NPages + 1 /\ RunFits(old[j])
    BY <1>1 DEF RunsOk, RunFits, Run
  <2>2. \A p \in Pages : x <= p /\ p < x + y => p \in FreePages(old)
    BY <2>1 DEF Holds, FreePages
  <2>3. ~(x <= at /\ at < x + y)
    BY <1>1, <1>3, <1>5, <2>2 DEF FirstN, Pages
  <2>4. ~(at <= x /\ x < at + n)
    <3>1. ASSUME at <= x, x < at + n PROVE FALSE
      <4>1. x \in Pages /\ x \in FirstN(at, n)
        BY <1>5, <2>1, <3>1 DEF FirstN, Pages
      <4>2. x \notin FreePages(old)
        BY <1>1, <4>1
      <4>3. x <= x /\ x < x + y
        BY <2>1
      <4> QED BY <2>2, <4>1, <4>2, <4>3
    <3> QED BY <3>1
  <2>5. x + y <= at \/ x >= at + n
    BY <2>3, <2>4
  <2> QED BY <2>1, <2>5
<1>7. \A j, k \in 1 .. Len(old) : j < k => Before(old[j], old[k])
  BY <1>1 DEF RunsOk
\* Runs that are not found lie before, with a gap.
<1>8. ASSUME NEW j \in 1 .. Len(old), j \notin I PROVE Before(old[j], r)
  <2>1. PICK x \in Nat, y \in Nat : x = old[j].at /\ y = old[j].page
    BY <1>6 DEF RunFits, Run
  <2>2. x + y <= at \/ x >= at + n
    BY <1>6, <2>1
  <2>3. x + y # at /\ ~(x >= at + n)
    BY <1>8, <2>1
  <2>4. x + y < at
    BY <2>1, <2>2, <2>3
  <2> QED BY <1>3, <2>1, <2>4 DEF Before
<1>9. CASE I = {}
  <2>1. i = 0
    BY <1>2, <1>9
  <2>2. page_free(g, at, n) = [g EXCEPT !.page_list = Append(old, r)]
    BY <1>1, <1>3, <2>1 DEF page_free, i
  <2>3. Append(old, r) \in Seq(Run) /\ PutAt(old, Len(old) + 1, r, Append(old, r))
    BY <1>1, <1>3 DEF PutAt
  <2>4. PICK list \in Seq(Run), k \in Nat : /\ k = Len(old) + 1 /\ list = Append(old, r)
                                             /\ PutAt(old, k, r, list)
    <3>1. PICK k \in Nat : k = Len(old) + 1
      BY <1>1
    <3>2. PICK list \in Seq(Run) : list = Append(old, r) /\ PutAt(old, k, r, list)
      BY <2>3, <3>1, Zenon
    <3> QED BY <3>1, <3>2, Zenon
  <2>5. k \in 1 .. Len(old) + 1
    BY <1>1, <2>4
  <2>6. FitsBefore(old, k, r)
    BY <1>1, <1>8, <1>9, <2>4 DEF FitsBefore
  <2>7. Adds(list, old, r)
    BY <1>1, <1>3, <2>4, <2>5, <2>6, RunPut
  <2>8. FreesPages(old, at, n, list)
    BY <1>4, <2>7 DEF FreesPages, Adds
  <2> QED BY <1>1, <2>2, <2>4, <2>8
<1>10. CASE I # {}
  <2>1. i \in I /\ \A j \in I : i <= j
    <3>1. I \in SUBSET Nat
      OBVIOUS
    <3> HIDE DEF I
    <3>2. Min(I) \in I /\ \A j \in I : Min(I) <= j
      BY <1>10, <3>1, MinOf
    <3> QED BY <1>2, <1>10, <3>2
  <2>2. PICK b \in Run : b = old[i] /\ RunFits(b)
    BY <1>1, <1>6, <2>1
  <2>3. PICK x \in Nat, y \in Nat : x = b.at /\ y = b.page
    BY <2>2 DEF Run
  <2>31. x >= 1 /\ y >= 1
    BY <2>2, <2>3 DEF RunFits
  <2>32. b = [at |-> x, page |-> y]
    BY <2>3 DEF Run
  <2>33. x + y <= NPages + 1
    BY <2>2, <2>3 DEF RunFits
  <2>4. /\ i \in 1 .. Len(old) /\ i \in Nat /\ i # 0 /\ (x + y = at \/ x >= at + n)
        /\ \A j \in 1 .. Len(old) : j < i => Before(old[j], r) /\ Before(old[j], b)
        /\ \A j \in 1 .. Len(old) : j > i => Before(b, old[j])
    <3>1. i \in 1 .. Len(old) /\ i \in Nat /\ i # 0 /\ (x + y = at \/ x >= at + n)
      BY <2>1, <2>2, <2>3
    <3>2. ASSUME NEW j \in 1 .. Len(old), j < i PROVE j \notin I
      BY <2>1, <3>1, <3>2
    <3> HIDE DEF I
    <3> QED BY <1>7, <1>8, <2>2, <3>1, <3>2
  <2> HIDE DEF I
  <2>5. CASE x + y = at /\ i < Len(old) /\ old[i + 1].at = at + n
    <3>1. i + 1 \in 1 .. Len(old)
      BY <1>1, <2>4, <2>5
    <3>2. PICK next \in Run, z \in Nat : /\ next = old[i + 1] /\ RunFits(next) /\ next.at = at + n
                                         /\ z = next.page
      BY <1>1, <1>6, <2>5, <3>1 DEF Run, RunFits
    <3>21. z >= 1 /\ at + n + z <= NPages + 1
      BY <3>2 DEF RunFits
    <3>3. PICK joined \in Run : /\ joined = [at |-> x, page |-> y + n + z] /\ joined.at = x
                               /\ joined.page = y + n + z /\ RunFits(joined)
      <4>1. [at |-> x, page |-> y + n + z] \in Run /\ RunFits([at |-> x, page |-> y + n + z])
        <5>1. x + (y + n + z) = at + n + z
          BY <2>5
        <5>2. y + n + z \in Nat /\ y + n + z >= 1
          BY <2>31
        <5> QED BY <1>5, <2>31, <3>21, <5>1, <5>2 DEF RunFits, Run
      <4> QED BY <4>1
    <3> DEFINE wide == [old EXCEPT ![i] = joined]
    <3>4. page_free(g, at, n) = [g EXCEPT !.page_list = RemoveAt(wide, i + 1)]
      <4>1. [old EXCEPT ![i].page = y + n + z] = wide
        <5>1. [b EXCEPT !.page = y + n + z] = joined
          BY <2>32, <3>3
        <5> QED BY <1>1, <2>2, <5>1
      <4> QED <5>1. i # 0 /\ b = old[i] /\ b.at + b.page = at /\ (i < Len(old) /\ b.at + (b.page + n) = old[i + 1].at)
              /\ b.page + n + old[i + 1].page = y + n + z
          <6>1. x + (y + n) = at + n
            BY <2>5
          <6> QED BY <2>2, <2>3, <2>4, <2>5, <3>2, <6>1
        <5>2. [b EXCEPT !.page = b.page + n] = [at |-> x, page |-> y + n]
          BY <2>3, <2>32
        <5> QED BY <1>1, <2>3, <4>1, <5>1, <5>2 DEF page_free, i
    <3>5. PICK e \in Seq(Run) : /\ RunsOk(e) /\ Len(e) = Len(old) - 1
                                /\ FreePages(e) = {p \in FreePages(old) : ~Holds(next, p)}
                                /\ \A j \in 1 .. Len(old) - 1 :
                                     e[j] = IF j < i + 1 THEN old[j] ELSE old[j + 1]
      <4>1. PICK e \in Seq(Run) : /\ e = RemoveAt(old, i + 1) /\ Len(e) = Len(old) - 1
                                  /\ \A j \in 1 .. Len(old) - 1 :
                                       e[j] = IF j < i + 1 THEN old[j] ELSE old[j + 1]
        <5>1. PICK k \in 1 .. Len(old) : k = i + 1
          BY <3>1
        <5>2. /\ RemoveAt(old, k) \in Seq(Run) /\ Len(RemoveAt(old, k)) = Len(old) - 1
              /\ \A j \in 1 .. Len(old) - 1 :
                   RemoveAt(old, k)[j] = IF j < k THEN old[j] ELSE old[j + 1]
          BY <1>1, Deleted, Zenon
        <5> QED BY <5>1, <5>2, Zenon
      <4>2. RunsOk(e) /\ FreePages(e) = {p \in FreePages(old) : ~Holds(next, p)}
        BY <1>1, <3>1, <3>2, <4>1, RunGone
      <4> QED BY <4>1, <4>2
    <3>6. i \in 1 .. Len(e) /\ e[i] = b
      BY <1>1, <2>2, <2>4, <2>5, <3>5
    <3>7. RemoveAt(wide, i + 1) = [e EXCEPT ![i] = joined]
      <4>1. PICK v \in Seq(Run) : v = wide /\ Len(v) = Len(old)
                                  /\ \A j \in 1 .. Len(old) : v[j] = IF j = i THEN joined ELSE old[j]
        <5>1. /\ [old EXCEPT ![i] = joined] \in Seq(Run) /\ Len([old EXCEPT ![i] = joined]) = Len(old)
              /\ \A j \in 1 .. Len(old) : [old EXCEPT ![i] = joined][j] = IF j = i THEN joined ELSE old[j]
          BY <1>1, <2>4, <3>3, ExceptSeq
        <5> QED BY <5>1, Zenon
      <4>2. PICK u \in Seq(Run) : /\ u = RemoveAt(v, i + 1) /\ Len(u) = Len(v) - 1
                                  /\ \A j \in 1 .. Len(v) - 1 : u[j] = IF j < i + 1 THEN v[j] ELSE v[j + 1]
        <5>1. PICK k \in 1 .. Len(v) : k = i + 1
          BY <3>1, <4>1
        <5>2. /\ RemoveAt(v, k) \in Seq(Run) /\ Len(RemoveAt(v, k)) = Len(v) - 1
              /\ \A j \in 1 .. Len(v) - 1 :
                   RemoveAt(v, k)[j] = IF j < k THEN v[j] ELSE v[j + 1]
          BY <1>1, Deleted, Zenon
        <5> QED BY <5>1, <5>2, Zenon
      <4>3. PICK t \in Seq(Run) : /\ t = [e EXCEPT ![i] = joined] /\ Len(t) = Len(e)
                                  /\ \A j \in 1 .. Len(e) : t[j] = IF j = i THEN joined ELSE e[j]
        <5>1. /\ [e EXCEPT ![i] = joined] \in Seq(Run) /\ Len([e EXCEPT ![i] = joined]) = Len(e)
              /\ \A j \in 1 .. Len(e) : [e EXCEPT ![i] = joined][j] = IF j = i THEN joined ELSE e[j]
          BY <3>3, <3>6, ExceptSeq
        <5> QED BY <5>1, Zenon
      <4>4. Len(u) = Len(t) /\ Len(u) = Len(old) - 1
        BY <1>1, <3>5, <4>1, <4>2, <4>3
      <4>5. ASSUME NEW j \in 1 .. Len(old) - 1 PROVE u[j] = t[j]
        <5>0. j \in 1 .. Len(old) /\ j + 1 \in 1 .. Len(old) /\ j \in Nat
          BY <1>1
        <5>1. CASE j < i + 1
          <6>1. u[j] = v[j] /\ e[j] = old[j] /\ j \in 1 .. Len(old)
            BY <3>5, <4>1, <4>2, <5>0, <5>1
          <6>2. j \in 1 .. Len(e)
            BY <3>5
          <6> QED BY <4>1, <4>3, <6>1, <6>2
        <5>2. CASE ~(j < i + 1)
          <6>1. u[j] = v[j + 1] /\ e[j] = old[j + 1] /\ j + 1 \in 1 .. Len(old) /\ j + 1 # i /\ j # i
            <7>1. j # i /\ j + 1 # i
              BY <2>4, <5>0, <5>2
            <7> QED BY <3>5, <4>1, <4>2, <5>0, <5>2, <7>1
          <6>2. j \in 1 .. Len(e)
            BY <3>5
          <6> QED BY <4>1, <4>3, <6>1, <6>2
        <5> QED BY <5>1, <5>2
      <4>6. u = t
        BY <4>4, <4>5, SeqEqual
      <4> QED BY <4>1, <4>2, <4>3, <4>6
    <3>8. ASSUME NEW j \in 1 .. Len(e)
          PROVE  /\ j < i => Before(e[j], joined)
                 /\ j > i => Before(joined, e[j])
      <4>1. PICK f \in Nat, d \in Nat : f = e[j].at /\ d = e[j].page
        BY <3>5 DEF RunsOk, RunFits, Run
      <4>2. CASE j < i
        <5>1. j \in 1 .. Len(old) /\ e[j] = old[j] /\ Before(old[j], b)
          BY <1>1, <2>4, <3>5, <4>2
        <5>2. Before(e[j], b)
          BY <5>1
        <5>3. joined.at = b.at
          BY <2>3, <3>3
        <5>4. Before(e[j], joined)
          BY <5>2, <5>3 DEF Before
        <5> QED BY <2>4, <4>2, <5>4
      <4>3. CASE j > i
        <5>8. j \in 1 .. Len(old) - 1 /\ i < j /\ i \in Nat
          BY <2>4, <3>5, <4>3
        <5>1. j + 1 \in 1 .. Len(old) /\ i + 1 < j + 1
          BY <1>1, <5>8
        <5>9. j \in 1 .. Len(old) - 1 /\ ~(j < i + 1)
          BY <1>1, <2>4, <3>5, <4>3
        <5>2. e[j] = old[j + 1]
          BY <3>5, <5>9
        <5>3. Before(next, e[j])
          BY <1>7, <3>1, <3>2, <5>1, <5>2
        <5>4. at + n + z < f
          BY <3>2, <4>1, <5>3 DEF Before
        <5>5. x + (y + n + z) < f
          BY <2>5, <5>4
        <5> QED BY <2>4, <3>3, <4>1, <4>3, <5>5 DEF Before
      <4> QED BY <4>2, <4>3
    <3>9. PICK list : list = RemoveAt(wide, i + 1) /\ Replaces(list, e, i, joined)
      <4>1. PICK list : list = [e EXCEPT ![i] = joined]
        OBVIOUS
      <4>3. FitsAt(e, i, joined)
        BY <3>8 DEF FitsAt
      <4>2. Replaces(list, e, i, joined)
        BY <3>3, <3>5, <3>6, <4>1, <4>3, RunChanged
      <4> QED BY <3>6, <3>7, <4>1, <4>2, Zenon
    <3>10. ASSUME NEW p \in Pages
          PROVE  Holds(joined, p) \/ (p \in FreePages(e) /\ ~Holds(b, p))
                   <=> p \in FreePages(old) \/ p \in FirstN(at, n)
      <4>0. p \in Nat
        BY <1>5 DEF Pages
      <4>1. /\ Holds(joined, p) <=> x <= p /\ p < x + (y + n + z)
            /\ Holds(b, p) <=> x <= p /\ p < x + y
            /\ Holds(next, p) <=> at + n <= p /\ p < at + n + z
            /\ Holds(r, p) <=> at <= p /\ p < at + n
        BY <1>3, <2>3, <3>2, <3>3 DEF Holds
      <4>2. Holds(joined, p) <=> Holds(b, p) \/ Holds(next, p) \/ Holds(r, p)
        BY <2>5, <2>31, <3>21, <4>0, <4>1
      <4>3. /\ Holds(b, p) => p \in FreePages(old)
            /\ Holds(next, p) => p \in FreePages(old)
        BY <2>2, <2>4, <3>1, <3>2 DEF FreePages
      <4> QED BY <1>4, <3>5, <4>2, <4>3
    <3> QED BY <1>1, <3>4, <3>6, <3>9, <3>10 DEF FreesPages, Replaces
  <2>6. CASE x + y = at /\ ~(i < Len(old) /\ old[i + 1].at = at + n)
    <3>1. PICK grown \in Run : /\ grown = [at |-> x, page |-> y + n] /\ grown.at = x
                              /\ grown.page = y + n /\ RunFits(grown)
      <4>1. [at |-> x, page |-> y + n] \in Run /\ RunFits([at |-> x, page |-> y + n])
        <5>1. x + (y + n) = at + n
          BY <2>6
        <5> QED BY <1>5, <2>31, <5>1 DEF RunFits, Run
      <4> QED BY <4>1
    <3>2. page_free(g, at, n) = [g EXCEPT !.page_list = [old EXCEPT ![i] = grown]]
      <4>1. [b EXCEPT !.page = y + n] = grown
        BY <2>32, <3>1
      <4>2. x + (y + n) = at + n
        BY <2>6
      <4> QED BY <1>1, <2>2, <2>3, <2>4, <2>6, <3>1, <4>1, <4>2 DEF page_free, i
    <3>3. ASSUME NEW j \in 1 .. Len(old)
          PROVE  /\ j < i => Before(old[j], grown)
                 /\ j > i => Before(grown, old[j])
      <4>1. PICK f \in Nat, d \in Nat : f = old[j].at /\ d = old[j].page
        BY <1>6 DEF RunFits, Run
      <4>2. CASE j < i
        BY <2>3, <2>4, <3>1, <4>2 DEF Before
      <4>3. CASE j > i
        <5>1. i + 1 \in 1 .. Len(old)
          BY <1>1, <2>4, <4>3
        <5>2. PICK c \in Nat, a \in Nat : c = old[i + 1].at /\ a = old[i + 1].page /\ (c + a <= at \/ c >= at + n)
          BY <1>6, <5>1 DEF RunFits, Run
        <5>3. Before(b, old[i + 1])
          BY <2>4, <5>1
        <5>4. at < c /\ c # at + n /\ a >= 0
          BY <1>1, <2>3, <2>4, <2>6, <4>3, <5>2, <5>3 DEF Before
        <5>9. c + a <= at \/ c >= at + n
          BY <5>2
        <5>5. c > at + n
          BY <5>4, <5>9
        <5>6. j = i + 1 \/ Before(old[i + 1], old[j])
          BY <1>1, <1>7, <2>4, <4>3, <5>1
        <5>7. f >= c
          BY <4>1, <5>2, <5>6 DEF Before
        <5>8. x + (y + n) < f
          BY <2>6, <5>5, <5>7
        <5> QED BY <2>4, <3>1, <4>1, <4>3, <5>8 DEF Before
      <4> QED BY <4>2, <4>3
    <3>4. PICK list : list = [old EXCEPT ![i] = grown] /\ Replaces(list, old, i, grown)
      <4>1. PICK list : list = [old EXCEPT ![i] = grown]
        OBVIOUS
      <4>3. FitsAt(old, i, grown)
        BY <3>3 DEF FitsAt
      <4>2. Replaces(list, old, i, grown)
        BY <1>1, <2>4, <3>1, <4>1, <4>3, RunChanged
      <4> QED BY <2>2, <4>1, <4>2, Zenon
    <3>5. ASSUME NEW p \in Pages
          PROVE  Holds(grown, p) \/ (p \in FreePages(old) /\ ~Holds(b, p))
                   <=> p \in FreePages(old) \/ p \in FirstN(at, n)
      <4>0. p \in Nat
        BY <1>5 DEF Pages
      <4>1. Holds(grown, p) <=> Holds(b, p) \/ Holds(r, p)
        BY <1>3, <2>3, <2>6, <3>1, <4>0 DEF Holds
      <4>2. Holds(b, p) => p \in FreePages(old)
        BY <2>2, <2>4 DEF FreePages
      <4> QED BY <1>4, <4>1, <4>2
    <3> QED BY <1>1, <2>2, <3>2, <3>4, <3>5 DEF FreesPages, Replaces
  <2>7. CASE x + y # at /\ x = at + n
    <3>1. PICK front \in Run : /\ front = [at |-> at, page |-> y + n] /\ front.at = at
                              /\ front.page = y + n /\ RunFits(front)
      <4>1. [at |-> at, page |-> y + n] \in Run /\ RunFits([at |-> at, page |-> y + n])
        <5>1. at + (y + n) = x + y
          BY <2>7
        <5> QED BY <1>5, <2>31, <2>33, <5>1 DEF RunFits, Run
      <4> QED BY <4>1
    <3>2. page_free(g, at, n) = [g EXCEPT !.page_list = [old EXCEPT ![i] = front]]
      BY <1>1, <2>2, <2>3, <2>4, <2>7, <3>1 DEF page_free, i
    <3>3. ASSUME NEW j \in 1 .. Len(old)
          PROVE  /\ j < i => Before(old[j], front)
                 /\ j > i => Before(front, old[j])
      <4>1. PICK f \in Nat, d \in Nat : f = old[j].at /\ d = old[j].page
        BY <1>6 DEF RunFits, Run
      <4>2. j < i => Before(old[j], front)
        BY <1>3, <2>4, <3>1 DEF Before
      <4>3. j > i => Before(front, old[j])
        BY <2>3, <2>4, <2>7, <3>1, <4>1 DEF Before
      <4> QED BY <4>2, <4>3
    <3>4. PICK list : list = [old EXCEPT ![i] = front] /\ Replaces(list, old, i, front)
      <4>1. PICK list : list = [old EXCEPT ![i] = front]
        OBVIOUS
      <4>3. FitsAt(old, i, front)
        BY <3>3 DEF FitsAt
      <4>2. Replaces(list, old, i, front)
        BY <1>1, <2>4, <3>1, <4>1, <4>3, RunChanged
      <4> QED BY <2>2, <4>1, <4>2, Zenon
    <3>5. ASSUME NEW p \in Pages
          PROVE  Holds(front, p) \/ (p \in FreePages(old) /\ ~Holds(b, p))
                   <=> p \in FreePages(old) \/ p \in FirstN(at, n)
      <4>0. p \in Nat
        BY <1>5 DEF Pages
      <4>1. Holds(front, p) <=> Holds(b, p) \/ Holds(r, p)
        BY <1>3, <2>3, <2>7, <3>1, <4>0 DEF Holds
      <4>2. Holds(b, p) => p \in FreePages(old)
        BY <2>2, <2>4 DEF FreePages
      <4> QED BY <1>4, <4>1, <4>2
    <3> QED BY <1>1, <2>2, <3>2, <3>4, <3>5 DEF FreesPages, Replaces
  <2>8. CASE x + y # at /\ x # at + n
    <3>1. page_free(g, at, n) = [g EXCEPT !.page_list = InsertAt(old, i, r)]
      BY <1>1, <1>3, <2>2, <2>3, <2>4, <2>8 DEF page_free, i
    <3>2. i \in 1 .. Len(old) + 1
      BY <1>1, <2>4
    <3>3. PICK list \in Seq(Run) : list = InsertAt(old, i, r) /\ PutAt(old, i, r, list)
      <4>1. InsertAt(old, i, r) \in Seq(Run) /\ PutAt(old, i, r, InsertAt(old, i, r))
        BY <1>1, <1>3, <3>2, Inserted
      <4> QED BY <4>1, Zenon
    <3>4. Before(r, b)
      <4>1. at + n < x
        BY <2>4, <2>8
      <4> QED BY <1>3, <2>3, <4>1 DEF Before
    <3>5. ASSUME NEW j \in 1 .. Len(old)
          PROVE  /\ j < i => Before(old[j], r)
                 /\ j >= i => Before(r, old[j])
      <4>1. PICK f \in Nat, d \in Nat : f = old[j].at /\ d = old[j].page
        BY <1>6 DEF RunFits, Run
      <4>2. j > i => Before(r, old[j])
        <5> SUFFICES ASSUME j > i PROVE Before(r, old[j])
          OBVIOUS
        <5>1. x + y < f /\ at + n < x
          BY <1>3, <2>3, <2>4, <3>4, <4>1 DEF Before
        <5>2. at + n < f
          BY <5>1
        <5> QED BY <1>3, <4>1, <5>2 DEF Before
      <4>3. j = i => Before(r, old[j])
        BY <2>2, <3>4
      <4> QED BY <2>4, <4>2, <4>3
    <3>6. Adds(list, old, r)
      <4>1. FitsBefore(old, i, r)
        BY <3>5 DEF FitsBefore
      <4> QED BY <1>1, <1>3, <3>2, <3>3, <4>1, RunPut
    <3> QED BY <1>1, <1>4, <3>1, <3>3, <3>6 DEF FreesPages, Adds
  <2> QED BY <2>4, <2>5, <2>6, <2>7, <2>8
<1> QED BY <1>9, <1>10

-------------------------------------------------------------------------------
(* The invariant, and what it says of single regions.                        *)

\* A region of pages with one use.
Region == [at : Nat, page : Nat, use : {"table", "large", "zone"}]
RegionFits(r) == r \in Region /\ 1 <= r.at /\ 1 <= r.page /\ r.at + r.page <= NPages + 1

\* Every page is in a free run or in one region.
Accounted(list, T) ==
  /\ RunsOk(list) /\ \A r \in T : RegionFits(r)
  /\ \A r, e \in T : \A p \in Pages : Holds(r, p) /\ Holds(e, p) => r = e
  /\ \A p \in Pages : p \in FreePages(list) <=> \A r \in T : ~Holds(r, p)

\* The regions of a heap: the table, the large blocks, the zones in use and the zones kept.
TableRegion == [at |-> 1, page |-> 1, use |-> "table"]
LargeRegion(b) == [at |-> b.at, page |-> b.size, use |-> "large"]
ZoneRegion(z) == [at |-> z, page |-> ZonePages, use |-> "zone"]
InUse(g) == {z \in Pages : g.zone[z] # NoZone}
Taken(g) ==
  {TableRegion} \cup {LargeRegion(b) : b \in {b \in g.LIVE : b.kind = "large"}}
    \cup {ZoneRegion(z) : z \in InUse(g) \cup Members(g.zone_free)}

\* The shapes the heap is made of.
Usage == [type : {"FREE", "LARGE", "SMALL"}, size : Nat]
ZoneData == [class : Classes \cup {"none"}, nfree : Int, uindex : Int, free : Seq(Pages \X Nat)]
HeapBlock == [kind : {"large"}, at : Pages, chunk : {0}, size : Nat]
               \cup [kind : {"small"}, at : Pages, chunk : Nat, size : Classes]
HeapData == [page_list : Seq(Run), memusage : [Pages -> Usage], zone : [Pages -> ZoneData],
             zone_array : [Classes -> Seq(Pages)], zone_free : Seq(Pages), used : Int,
             LIVE : SUBSET HeapBlock]

\* The chunks of a zone that are live.
ChunksIn(live, z) == {b.chunk : b \in {b \in live : b.kind = "small" /\ b.at = z}}

\* A chunk of a zone is live, in its free list or not used yet, which last says.
ChunksOk(z, n, last, free, given) ==
  /\ last \in -1 .. n - 1
  /\ \A i \in 1 .. Len(free) : free[i][1] = z /\ free[i][2] \in 0 .. last
  /\ \A i, j \in 1 .. Len(free) : free[i][2] = free[j][2] => i = j
  /\ \A k \in 0 .. n - 1 : k \in given <=> k <= last /\ \A i \in 1 .. Len(free) : free[i][2] # k

\* A zone in use, whose nfree counts the chunks that are not live.
ZoneOk(zone, z, given) ==
  /\ zone.class \in Classes
  /\ zone.nfree = Len(zone.free) + NMax[zone.class] - 1 - zone.uindex
  /\ ChunksOk(z, NMax[zone.class], zone.uindex, zone.free, given)

\* A live chunk is of the class of its zone.
ChunkOk(g, b) ==
  LET zone == g.zone[b.at]
  IN zone # NoZone /\ zone.class = b.size /\ b.chunk \in 0 .. NMax[b.size] - 1

\* The list of a class has the zones of that class with room.
ListOk(g, c) ==
  /\ IsInjective(g.zone_array[c])
  /\ \A z \in Pages : z \in Members(g.zone_array[c])
                        <=> g.zone[z] # NoZone /\ g.zone[z].class = c /\ g.zone[z].nfree > 0

\* The pages of blocks and zones are marked.
MarksOk(g) ==
  /\ \A b \in g.LIVE : b.kind = "large" => g.memusage[b.at] = [type |-> "LARGE", size |-> b.size]
  /\ \A z \in InUse(g) \cup Members(g.zone_free) : \A p \in FirstN(z, ZonePages) :
       g.memusage[p] = [type |-> "SMALL", size |-> p - z]

\* The bytes that blocks take.
BytesOf(b) == IF b.kind = "large" THEN b.size * PageSize ELSE ChunkSize[b.size]
Bytes(live) == SumOver([b \in live |-> BytesOf(b)], live)

\* The inductive invariant.
SlabInv(g) ==
  /\ g \in HeapData /\ IsFiniteSet(g.LIVE)
  /\ Accounted(g.page_list, Taken(g))
  /\ \A z \in InUse(g) : ZoneOk(g.zone[z], z, ChunksIn(g.LIVE, z))
  /\ \A b \in g.LIVE : b.kind = "small" => ChunkOk(g, b)
  /\ \A c \in Classes : ListOk(g, c)
  /\ IsInjective(g.zone_free) /\ \A z \in Members(g.zone_free) : g.zone[z] = NoZone
  /\ MarksOk(g)
  /\ g.used = Bytes(g.LIVE)

\* A region put where the pages were free.
LEMMA RegionTaken ==
  ASSUME NEW old, NEW T, Accounted(old, T), NEW list, RunsOk(list), NEW r, RegionFits(r),
         \A p \in Pages : Holds(r, p) => p \in FreePages(old),
         \A p \in Pages : p \in FreePages(list) <=> p \in FreePages(old) /\ ~Holds(r, p)
  PROVE  /\ Accounted(list, T \cup {r})
         /\ \A e \in T : e # r /\ \A p \in Pages : ~(Holds(e, p) /\ Holds(r, p))
<1>1. r.at \in Pages /\ Holds(r, r.at)
  BY SlabAssumption DEF RegionFits, Region, Pages, Holds
<1>2. \A e \in T : \A p \in Pages : ~(Holds(e, p) /\ Holds(r, p))
  BY DEF Accounted
<1>3. \A e \in T : e # r
  BY <1>1, <1>2
<1>4. Accounted(list, T \cup {r})
  BY <1>2 DEF Accounted
<1> QED BY <1>2, <1>3, <1>4

\* A region whose pages are free again.
LEMMA RegionGone ==
  ASSUME NEW old, NEW T, Accounted(old, T), NEW list, RunsOk(list), NEW r \in T,
         \A p \in Pages : p \in FreePages(list) <=> p \in FreePages(old) \/ Holds(r, p)
  PROVE  Accounted(list, T \ {r})
<1>1. ASSUME NEW p \in Pages PROVE p \in FreePages(list) <=> \A e \in T \ {r} : ~Holds(e, p)
  BY DEF Accounted
<1> QED BY <1>1 DEF Accounted

\* Regions begin in different pages, and hold the page they begin in.
LEMMA RegionAt ==
  ASSUME NEW old, NEW T, Accounted(old, T), NEW r \in T
  PROVE  /\ r.at \in Pages /\ Holds(r, r.at) /\ \A p : p \in FirstN(r.at, r.page) <=> p \in Pages /\ Holds(r, p)
         /\ \A e \in T : e.at = r.at => e = r
<1>1. /\ RegionFits(r) /\ r.at \in Pages /\ Holds(r, r.at)
  BY SlabAssumption DEF Accounted, RegionFits, Region, Pages, Holds
<1>2. \A p : p \in FirstN(r.at, r.page) <=> p \in Pages /\ Holds(r, p)
  <2>1. PICK x \in Nat, y \in Nat : x = r.at /\ y = r.page /\ 1 <= x /\ x + y <= NPages + 1 /\ NPages \in Nat
    BY <1>1, SlabAssumption DEF RegionFits, Region
  <2>2. \A p : p \in x .. x + y - 1 <=> p \in 1 .. NPages /\ x <= p /\ p < x + y
    BY <2>1
  <2> QED BY <2>1, <2>2 DEF FirstN, Pages, Holds
<1>3. ASSUME NEW e \in T, e.at = r.at PROVE e = r
  <2>1. Holds(e, r.at)
    BY <1>3, SlabAssumption DEF Accounted, RegionFits, Region, Holds
  <2> QED BY <1>1, <2>1 DEF Accounted
<1> QED BY <1>1, <1>2, <1>3

-------------------------------------------------------------------------------
(* Sums that change by one element, and blocks of whole pages.               *)

\* A sum is of what it adds up.
LEMMA SumSame ==
  ASSUME NEW S, IsFiniteSet(S), NEW f, NEW e, \A x \in S : f[x] = e[x]
  PROVE  SumOver(f, S) = SumOver(e, S)
<1>10. PICK g : SumsOf(g, f, S)
  BY SumIsFold
<1>1. SumFold(g, f, S, SUBSET S) /\ g[{}] = 0 /\ \A T \in SUBSET S : SumOver(f, T) = g[T]
  BY <1>10 DEF SumsOf
<1>20. PICK k : SumsOf(k, e, S)
  BY SumIsFold
<1>2. SumFold(k, e, S, SUBSET S) /\ k[{}] = 0 /\ \A T \in SUBSET S : SumOver(e, T) = k[T]
  BY <1>20 DEF SumsOf
<1>3. g[S] = k[S]
  <2>1. S \in SUBSET S
    OBVIOUS
  <2> QED BY <1>1, <1>2, <2>1, SumFoldsAgree
<1> QED BY <1>1, <1>2, <1>3

\* One more element.
LEMMA SumMore ==
  ASSUME NEW S, IsFiniteSet(S), NEW v, v \notin S, NEW f, NEW e, \A x \in S : f[x] = e[x],
         \A x \in S \cup {v} : e[x] \in Int
  PROVE  SumOver(f, S) \in Int /\ SumOver(e, S \cup {v}) = SumOver(f, S) + e[v]
<1>1. IsFiniteSet(S \cup {v}) /\ (S \cup {v}) \ {v} = S /\ v \in S \cup {v}
  BY FS_AddElement
<1>2. SumOver(e, S \cup {v}) = e[v] + SumOver(e, S)
  BY <1>1, SumTakes
<1>3. SumOver(e, S) = SumOver(f, S)
  BY SumSame
<1>4. SumOver(e, S) \in Int
  BY SumTakes
<1>5. e[v] \in Int
  OBVIOUS
<1> QED BY <1>2, <1>3, <1>4, <1>5

\* The bytes of live blocks, with one block more and without one.
LEMMA BytesMore ==
  ASSUME NEW live \in SUBSET HeapBlock, IsFiniteSet(live), NEW b \in HeapBlock, b \notin live
  PROVE  /\ Bytes(live) \in Int /\ BytesOf(b) \in Nat /\ Bytes(live \cup {b}) = Bytes(live) + BytesOf(b)
         /\ IsFiniteSet(live \cup {b})
<1>1. ASSUME NEW x \in HeapBlock PROVE BytesOf(x) \in Nat
  <2>1. CASE x.kind = "large"
    <3>1. PICK n \in Nat, k \in Nat : n = x.size /\ k = PageSize
      BY <2>1, SlabAssumption DEF HeapBlock
    <3>2. n * k \in Nat
      OBVIOUS
    <3> QED BY <2>1, <3>1, <3>2 DEF BytesOf
  <2>2. CASE x.kind # "large"
    <3>1. x.size \in Classes
      BY <2>2 DEF HeapBlock
    <3> QED BY <2>2, <3>1, SlabAssumption DEF BytesOf
  <2> QED BY <2>1, <2>2
<1> DEFINE f == [x \in live |-> BytesOf(x)]
           e == [x \in live \cup {b} |-> BytesOf(x)]
<1>2. \A x \in live : f[x] = e[x]
  OBVIOUS
<1>3. \A x \in live \cup {b} : e[x] \in Int
  BY <1>1
<1>4. e[b] = BytesOf(b)
  OBVIOUS
<1>5. Bytes(live) = SumOver(f, live) /\ Bytes(live \cup {b}) = SumOver(e, live \cup {b})
  BY Zenon DEF Bytes
<1> HIDE DEF f, e
<1>6. SumOver(f, live) \in Int /\ SumOver(e, live \cup {b}) = SumOver(f, live) + e[b]
  BY <1>2, <1>3, SumMore
<1>7. IsFiniteSet(live \cup {b})
  BY FS_AddElement
<1> QED BY <1>1, <1>4, <1>5, <1>6, <1>7

\* The bytes without one of the blocks.
LEMMA BytesLess ==
  ASSUME NEW live \in SUBSET HeapBlock, IsFiniteSet(live), NEW b \in live
  PROVE  /\ Bytes(live) \in Int /\ BytesOf(b) \in Nat /\ Bytes(live \ {b}) = Bytes(live) - BytesOf(b)
         /\ Bytes(live \ {b}) \in Int /\ IsFiniteSet(live \ {b})
<1>1. PICK less \in SUBSET HeapBlock : less = live \ {b} /\ IsFiniteSet(less) /\ b \notin less /\ b \in HeapBlock
  BY FS_RemoveElement
<1>2. less \cup {b} = live
  BY <1>1
<1>3. Bytes(less) \in Int /\ BytesOf(b) \in Nat /\ Bytes(live) = Bytes(less) + BytesOf(b)
  BY <1>1, <1>2, BytesMore
<1> QED BY <1>1, <1>3

\* The parts of the invariant that say where the zones and the blocks are.
LEMMA InvParts ==
  ASSUME NEW g, SlabInv(g)
  PROVE  /\ g \in HeapData /\ IsFiniteSet(g.LIVE) /\ Accounted(g.page_list, Taken(g))
         /\ \A b \in g.LIVE : b.kind = "large" => LargeRegion(b) \in Taken(g)
         /\ \A z \in InUse(g) \cup Members(g.zone_free) : ZoneRegion(z) \in Taken(g)
<1> QED BY DEF SlabInv, Taken

\* A large block is given out.
LEMMA LargeGiven ==
  ASSUME NEW g, SlabInv(g), NEW n \in Nat \ {0}
  PROVE  SlabInv(AllocLarge(g, n).g) /\ g.LIVE \subseteq AllocLarge(g, n).g.LIVE
<1>1. PICK list : AllocatesPages(g, n, page_alloc(g, n), list)
  BY PageAlloc DEF SlabInv, Accounted
<1>2. CASE page_alloc(g, n) = [g |-> g, at |-> Nowhere]
  BY <1>2 DEF AllocLarge
<1>3. CASE page_alloc(g, n) # [g |-> g, at |-> Nowhere]
  <2>1. PICK at \in Nat \ {0} :
          /\ at + n <= NPages + 1 /\ page_alloc(g, n) = [g |-> [g EXCEPT !.page_list = list], at |-> at]
          /\ RunsOk(list)
          /\ \A p \in Pages : /\ p \in FirstN(at, n) => p \in FreePages(g.page_list)
                              /\ p \in FreePages(list) <=> p \in FreePages(g.page_list) /\ p \notin FirstN(at, n)
    BY <1>1, <1>3 DEF AllocatesPages
  <2>2. g \in HeapData /\ IsFiniteSet(g.LIVE) /\ Accounted(g.page_list, Taken(g))
    BY DEF SlabInv
  <2>3. PICK b \in HeapBlock : b = Large(at, n) /\ b.kind = "large" /\ b.at = at /\ b.size = n /\ at \in Pages
    <3>1. at \in Pages
      BY <2>1, SlabAssumption DEF Pages
    <3>2. Large(at, n) \in HeapBlock
      BY <3>1 DEF Large, HeapBlock
    <3> QED BY <3>1, <3>2 DEF Large
  <2>4. PICK r : r = LargeRegion(b) /\ r.at = at /\ r.page = n /\ RegionFits(r)
    <3>1. LargeRegion(b) = [at |-> at, page |-> n, use |-> "large"]
      BY <2>3 DEF LargeRegion
    <3>2. RegionFits([at |-> at, page |-> n, use |-> "large"])
      BY <2>1 DEF RegionFits, Region
    <3> QED BY <3>1, <3>2
  <2>5. \A p \in Pages : p \in FirstN(at, n) <=> Holds(r, p)
    BY <2>1, <2>4 DEF FirstN, Pages, Holds
  <2>6. /\ Accounted(list, Taken(g) \cup {r})
        /\ \A e \in Taken(g) : e # r /\ \A p \in Pages : ~(Holds(e, p) /\ Holds(r, p))
    <3>1. /\ \A p \in Pages : Holds(r, p) => p \in FreePages(g.page_list)
          /\ \A p \in Pages : p \in FreePages(list) <=> p \in FreePages(g.page_list) /\ ~Holds(r, p)
      BY <2>1, <2>5
    <3> QED BY <2>1, <2>2, <2>4, <3>1, RegionTaken
  <2>7. Holds(r, at)
    BY <2>4 DEF Holds, RegionFits, Region
  <2>8. PICK e : /\ e = AllocLarge(g, n).g /\ e \in HeapData /\ e.page_list = list
                 /\ e.memusage = [g.memusage EXCEPT ![at] = [type |-> "LARGE", size |-> n]]
                 /\ e.zone = g.zone /\ e.zone_array = g.zone_array /\ e.zone_free = g.zone_free
                 /\ e.used = g.used + n * PageSize /\ e.LIVE = g.LIVE \cup {b}
    <3>1. list \in Seq(Run) /\ n * PageSize \in Int /\ [type |-> "LARGE", size |-> n] \in Usage
      BY <2>1, SlabAssumption DEF RunsOk, Usage
    <3>2. AllocLarge(g, n).g = [g EXCEPT !.page_list = list, !.memusage[at] = [type |-> "LARGE", size |-> n],
                                         !.used = @ + n * PageSize, !.LIVE = @ \cup {b}]
      <4>1. AllocLarge(g, n) =
              Gives([[g EXCEPT !.page_list = list] EXCEPT !.memusage[at] = [type |-> "LARGE", size |-> n]],
                    b, n * PageSize)
        <5>1. PICK run : run = page_alloc(g, n) /\ run.at = at /\ run.g = [g EXCEPT !.page_list = list]
          BY <2>1
        <5>2. at # 0
          OBVIOUS
        <5> QED BY <2>3, <5>1, <5>2 DEF AllocLarge, Nowhere
      <4> QED BY <2>2, <4>1 DEF Gives, HeapData
    <3>3. [g.memusage EXCEPT ![at] = [type |-> "LARGE", size |-> n]] \in [Pages -> Usage]
      BY <2>2, <3>1 DEF HeapData
    <3>4. g.LIVE \cup {b} \in SUBSET HeapBlock /\ g.used + n * PageSize \in Int
      BY <2>2, <2>3, <3>1 DEF HeapData
    <3> QED BY <2>2, <3>1, <3>2, <3>3, <3>4 DEF HeapData
  <2>9. InUse(e) = InUse(g)
    BY <2>8 DEF InUse
  <2>10. Taken(e) = Taken(g) \cup {r}
    BY <2>3, <2>4, <2>8, <2>9 DEF Taken
  <2>11. b \notin g.LIVE
    BY <2>3, <2>4, <2>6, <2>7 DEF Taken
  <2>12. ASSUME NEW z \in InUse(e) PROVE ZoneOk(e.zone[z], z, ChunksIn(e.LIVE, z))
    <3>1. ChunksIn(e.LIVE, z) = ChunksIn(g.LIVE, z)
      BY <2>3, <2>8 DEF ChunksIn
    <3> QED BY <2>8, <2>9, <3>1 DEF SlabInv
  <2>13. ASSUME NEW a \in e.LIVE, a.kind = "small" PROVE ChunkOk(e, a)
    BY <2>3, <2>8, <2>13 DEF SlabInv, ChunkOk
  <2>14. ASSUME NEW c \in Classes PROVE ListOk(e, c)
    BY <2>8 DEF SlabInv, ListOk
  <2>15. MarksOk(e)
    <3>1. ASSUME NEW a \in e.LIVE, a.kind = "large"
          PROVE  e.memusage[a.at] = [type |-> "LARGE", size |-> a.size]
      <4>1. CASE a = b
        BY <2>2, <2>3, <2>8, <4>1 DEF HeapData
      <4>2. CASE a # b
        <5>1. a \in g.LIVE /\ LargeRegion(a) \in Taken(g)
          BY <2>8, <3>1, <4>2 DEF Taken
        <5>2. a.at \in Pages /\ Holds(LargeRegion(a), a.at)
          BY <2>2, <5>1, RegionAt DEF LargeRegion
        <5>3. a.at # at
          BY <2>3, <2>6, <2>7, <5>1, <5>2
        <5>4. g.memusage[a.at] = [type |-> "LARGE", size |-> a.size]
          BY <3>1, <5>1 DEF SlabInv, MarksOk
        <5> QED BY <2>2, <2>8, <5>2, <5>3, <5>4 DEF HeapData
      <4> QED BY <4>1, <4>2
    <3>2. ASSUME NEW z \in InUse(e) \cup Members(e.zone_free), NEW p \in FirstN(z, ZonePages)
          PROVE  e.memusage[p] = [type |-> "SMALL", size |-> p - z]
      <4>1. z \in InUse(g) \cup Members(g.zone_free) /\ ZoneRegion(z) \in Taken(g)
        BY <2>8, <2>9 DEF Taken
      <4>2. p \in Pages /\ Holds(ZoneRegion(z), p)
        BY <2>2, <4>1, RegionAt DEF ZoneRegion
      <4>3. p # at
        BY <2>3, <2>6, <2>7, <4>1, <4>2
      <4>4. g.memusage[p] = [type |-> "SMALL", size |-> p - z]
        BY <4>1 DEF SlabInv, MarksOk
      <4> QED BY <2>2, <2>8, <4>2, <4>3, <4>4 DEF HeapData
    <3> QED BY <3>1, <3>2 DEF MarksOk
  <2>16. IsFiniteSet(e.LIVE) /\ e.used = Bytes(e.LIVE)
    <3>1. g.LIVE \in SUBSET HeapBlock
      BY <2>2 DEF HeapData
    <3>2. Bytes(g.LIVE \cup {b}) = Bytes(g.LIVE) + BytesOf(b) /\ IsFiniteSet(g.LIVE \cup {b})
      BY <2>2, <2>11, <3>1, BytesMore
    <3>3. BytesOf(b) = n * PageSize
      BY <2>3 DEF BytesOf
    <3> QED BY <2>8, <3>2, <3>3 DEF SlabInv
  <2>17. /\ IsInjective(e.zone_free) /\ \A z \in Members(e.zone_free) : e.zone[z] = NoZone
    BY <2>8 DEF SlabInv
  <2>18. SlabInv(e)
    BY <2>6, <2>8, <2>10, <2>12, <2>13, <2>14, <2>15, <2>16, <2>17 DEF SlabInv
  <2> QED BY <2>8, <2>18
<1> QED BY <1>2, <1>3

\* Regions of one use and one place are the same.
LEMMA LargeApart ==
  ASSUME NEW g, SlabInv(g), NEW b \in g.LIVE, b.kind = "large"
  PROVE  /\ \A a \in g.LIVE : a.kind = "large" /\ a # b => a.at # b.at
         /\ \A z \in InUse(g) \cup Members(g.zone_free) : b.at \notin FirstN(z, ZonePages)
<1>1. g \in HeapData /\ Accounted(g.page_list, Taken(g)) /\ LargeRegion(b) \in Taken(g)
  BY DEF SlabInv, Taken
<1>2. ASSUME NEW a \in g.LIVE, a.kind = "large", a.at = b.at PROVE a = b
  <2>1. LargeRegion(a) \in Taken(g)
    BY <1>2 DEF Taken
  <2>2. LargeRegion(a) = LargeRegion(b)
    BY <1>1, <1>2, <2>1, RegionAt DEF LargeRegion
  <2>3. a \in HeapBlock /\ b \in HeapBlock
    BY <1>1 DEF HeapData
  <2> QED BY <1>2, <2>2, <2>3 DEF LargeRegion, HeapBlock
<1>3. ASSUME NEW z \in InUse(g) \cup Members(g.zone_free) PROVE b.at \notin FirstN(z, ZonePages)
  <2>1. ZoneRegion(z) \in Taken(g) /\ ZoneRegion(z).at = z /\ ZoneRegion(z).page = ZonePages
    BY DEF Taken, ZoneRegion
  <2>2. LargeRegion(b) # ZoneRegion(z) /\ LargeRegion(b).at = b.at
    BY DEF LargeRegion, ZoneRegion
  <2>3. b.at \in Pages /\ Holds(LargeRegion(b), b.at)
    BY <1>1, <2>2, RegionAt
  <2>4. b.at \in FirstN(z, ZonePages) => Holds(ZoneRegion(z), b.at)
    BY <1>1, <2>1, RegionAt
  <2> QED BY <1>1, <2>1, <2>2, <2>3, <2>4 DEF Accounted
<1> QED BY <1>2, <1>3

\* A large block is given back.
LEMMA LargeBack ==
  ASSUME NEW g, SlabInv(g), NEW b \in g.LIVE, b.kind = "large"
  PROVE  SlabInv(FreeLarge([g EXCEPT !.LIVE = @ \ {b}], b.at))
<1>1. /\ g \in HeapData /\ IsFiniteSet(g.LIVE) /\ Accounted(g.page_list, Taken(g)) /\ LargeRegion(b) \in Taken(g)
      /\ b \in HeapBlock /\ g.LIVE \in SUBSET HeapBlock
  BY DEF SlabInv, Taken, HeapData
<1>20. PICK r : r = LargeRegion(b)
  OBVIOUS
<1>2. PICK at \in Nat \ {0}, n \in Nat \ {0} :
        /\ at = b.at /\ n = b.size /\ r = LargeRegion(b) /\ r.at = at /\ r.page = n /\ at + n <= NPages + 1
        /\ at \in Pages /\ r \in Taken(g)
  <2>1. RegionFits(LargeRegion(b)) /\ LargeRegion(b).at = b.at /\ LargeRegion(b).page = b.size
    BY <1>1 DEF Accounted, LargeRegion
  <2>2. b.at \in Pages
    BY <1>1 DEF HeapBlock
  <2> QED BY <1>1, <1>20, <2>1, <2>2 DEF RegionFits, Region
<1>3. g.memusage[at] = [type |-> "LARGE", size |-> n]
  BY <1>2 DEF SlabInv, MarksOk
<1> DEFINE mem == [g.memusage EXCEPT ![at] = [type |-> "LARGE", size |-> 0]]
           g2 == [g EXCEPT !.memusage = mem, !.used = @ - n * PageSize, !.LIVE = @ \ {b}]
<1>4. mem \in [Pages -> Usage]
  BY <1>1 DEF HeapData, Usage
<1>5. FreeLarge([g EXCEPT !.LIVE = @ \ {b}], b.at) = page_free(g2, at, n)
  <2>1. [g.memusage EXCEPT ![at].size = 0] = mem
    <3>1. [g.memusage[at] EXCEPT !.size = 0] = [type |-> "LARGE", size |-> 0]
      BY <1>3
    <3>2. [g.memusage EXCEPT ![at].size = 0] = [g.memusage EXCEPT ![at] = [g.memusage[at] EXCEPT !.size = 0]]
      OBVIOUS
    <3> QED BY <3>1, <3>2
  <2> HIDE DEF mem
  <2>2. PICK g1 : /\ g1 = [g EXCEPT !.LIVE = @ \ {b}] /\ g1.memusage = g.memusage /\ g1.used = g.used
                  /\ [g1 EXCEPT !.memusage = mem, !.used = g.used - n * PageSize] = g2
    <3>1. PICK left : left = g.used - n * PageSize
      OBVIOUS
    <3>2. [[g EXCEPT !.LIVE = @ \ {b}] EXCEPT !.memusage = mem, !.used = left] =
            [g EXCEPT !.memusage = mem, !.used = left, !.LIVE = @ \ {b}]
      BY <1>1 DEF HeapData
    <3>3. [g EXCEPT !.LIVE = @ \ {b}].memusage = g.memusage /\ [g EXCEPT !.LIVE = @ \ {b}].used = g.used
      BY <1>1 DEF HeapData
    <3> QED BY <3>1, <3>2, <3>3
  <2>3. g1.memusage[at].size = n
    BY <1>3, <2>2
  <2>4. FreeLarge(g1, at) = page_free([g1 EXCEPT !.memusage = [g1.memusage EXCEPT ![at].size = 0],
                                                 !.used = g1.used - n * PageSize], at, n)
    BY <2>3 DEF FreeLarge
  <2> QED BY <1>2, <2>1, <2>2, <2>4
<1>6. g2.page_list = g.page_list
  BY <1>1 DEF HeapData
<1>7. PICK list : page_free(g2, at, n) = [g2 EXCEPT !.page_list = list] /\ FreesPages(g.page_list, at, n, list)
  <2>1. RunsOk(g2.page_list)
    BY <1>1, <1>6 DEF Accounted
  <2>2. \A p \in FirstN(at, n) : p \notin FreePages(g2.page_list)
    BY <1>1, <1>2, <1>6, RegionAt DEF Accounted
  <2> HIDE DEF g2
  <2> QED BY <1>2, <1>6, <2>1, <2>2, PageFree
<1>8. PICK e : /\ e = FreeLarge([g EXCEPT !.LIVE = @ \ {b}], b.at) /\ e \in HeapData /\ e.page_list = list
               /\ e.memusage = mem
               /\ e.zone = g.zone /\ e.zone_array = g.zone_array /\ e.zone_free = g.zone_free
               /\ e.used = g.used - n * PageSize /\ e.LIVE = g.LIVE \ {b}
  <2>1. list \in Seq(Run) /\ g.LIVE \ {b} \in SUBSET HeapBlock
    BY <1>1, <1>7 DEF FreesPages, RunsOk
  <2>2. n * PageSize \in Int
    BY SlabAssumption
  <2>3. g.used - n * PageSize \in Int
    BY <1>1, <2>2 DEF HeapData
  <2>4. FreeLarge([g EXCEPT !.LIVE = @ \ {b}], b.at) =
          [g EXCEPT !.page_list = list, !.memusage = mem, !.used = @ - n * PageSize, !.LIVE = @ \ {b}]
    BY <1>1, <1>5, <1>7 DEF HeapData
  <2> HIDE DEF mem
  <2> QED BY <1>1, <1>4, <2>1, <2>3, <2>4 DEF HeapData
<1> HIDE DEF g2, mem
<1>9. InUse(e) = InUse(g)
  BY <1>8 DEF InUse
<1>10. Taken(e) = Taken(g) \ {r}
  <2>1. ASSUME NEW a \in g.LIVE, a.kind = "large" PROVE LargeRegion(a) = r <=> a = b
    BY <1>2, <2>1, LargeApart DEF LargeRegion
  <2>2. TableRegion # r /\ \A z : ZoneRegion(z) # r
    BY <1>2 DEF TableRegion, ZoneRegion, LargeRegion
  <2> QED BY <1>8, <1>9, <2>1, <2>2 DEF Taken
<1>11. Accounted(list, Taken(e))
  <2>1. RunsOk(list) /\ \A p \in Pages : p \in FreePages(list) <=> p \in FreePages(g.page_list) \/ Holds(r, p)
    <3>1. \A p \in Pages : p \in FirstN(at, n) <=> Holds(r, p)
      BY <1>1, <1>2, RegionAt
    <3> QED BY <1>7, <3>1 DEF FreesPages
  <2> QED BY <1>1, <1>2, <1>10, <2>1, RegionGone
<1>12. ASSUME NEW z \in InUse(e) PROVE ZoneOk(e.zone[z], z, ChunksIn(e.LIVE, z))
  <2>1. ChunksIn(e.LIVE, z) = ChunksIn(g.LIVE, z)
    BY <1>8 DEF ChunksIn
  <2> QED BY <1>8, <1>9, <2>1 DEF SlabInv
<1>13. ASSUME NEW a \in e.LIVE, a.kind = "small" PROVE ChunkOk(e, a)
  BY <1>8, <1>13 DEF SlabInv, ChunkOk
<1>14. ASSUME NEW c \in Classes PROVE ListOk(e, c)
  <2>1. ListOk(g, c) /\ e.zone = g.zone /\ e.zone_array = g.zone_array
    BY <1>8 DEF SlabInv
  <2> QED BY <2>1 DEF ListOk
<1>30. ASSUME NEW p \in Pages, p # at PROVE e.memusage[p] = g.memusage[p]
  BY <1>1, <1>2, <1>8, <1>30 DEF HeapData, mem
<1>15. MarksOk(e)
  <2>1. ASSUME NEW a \in e.LIVE, a.kind = "large"
        PROVE  e.memusage[a.at] = [type |-> "LARGE", size |-> a.size]
    <3>0. a \in g.LIVE /\ a # b
      BY <1>8, <2>1
    <3>1. a \in g.LIVE /\ a.at # at
      BY <1>2, <2>1, <3>0, LargeApart
    <3>2. a.at \in Pages /\ g.memusage[a.at] = [type |-> "LARGE", size |-> a.size]
      BY <1>1, <2>1, <3>1 DEF SlabInv, MarksOk, HeapBlock
    <3> QED BY <1>30, <3>1, <3>2
  <2>2. ASSUME NEW z \in InUse(e) \cup Members(e.zone_free), NEW p \in FirstN(z, ZonePages)
        PROVE  e.memusage[p] = [type |-> "SMALL", size |-> p - z]
    <3>1. z \in InUse(g) \cup Members(g.zone_free) /\ ZoneRegion(z) \in Taken(g)
      BY <1>8, <1>9 DEF Taken
    <3>2. p \in Pages
      BY <1>1, <3>1, RegionAt DEF ZoneRegion
    <3>3. p # at
      BY <1>2, <3>1, LargeApart
    <3>4. g.memusage[p] = [type |-> "SMALL", size |-> p - z]
      BY <3>1 DEF SlabInv, MarksOk
    <3> QED BY <1>30, <3>2, <3>3, <3>4
  <2> QED BY <2>1, <2>2 DEF MarksOk
<1>16. IsFiniteSet(e.LIVE) /\ e.used = Bytes(e.LIVE)
  <2>1. Bytes(g.LIVE \ {b}) = Bytes(g.LIVE) - BytesOf(b) /\ IsFiniteSet(g.LIVE \ {b})
    BY <1>1, BytesLess
  <2>2. BytesOf(b) = n * PageSize
    BY <1>2 DEF BytesOf
  <2> QED BY <1>8, <2>1, <2>2 DEF SlabInv
<1>17. /\ IsInjective(e.zone_free) /\ \A z \in Members(e.zone_free) : e.zone[z] = NoZone
  BY <1>8 DEF SlabInv
<1>18. SlabInv(e)
  BY <1>8, <1>11, <1>12, <1>13, <1>14, <1>15, <1>16, <1>17 DEF SlabInv
<1> QED BY <1>8, <1>18

\* The first element of a list without duplicates taken away, and one put in front.
LEMMA FirstGone ==
  ASSUME NEW S, NEW seq \in Seq(S), IsInjective(seq), seq # <<>>
  PROVE  /\ Tail(seq) \in Seq(S) /\ IsInjective(Tail(seq)) /\ Head(seq) \in Members(seq) /\ Head(seq) \in S
         /\ Members(Tail(seq)) = Members(seq) \ {Head(seq)}
<1>1. PICK e \in Seq(S) : /\ e = Tail(seq) /\ Len(e) = Len(seq) - 1 /\ Len(seq) \in Nat /\ Len(seq) >= 1
                          /\ \A j \in 1 .. Len(e) : e[j] = seq[j + 1]
  <2>1. /\ Tail(seq) \in Seq(S) /\ Len(Tail(seq)) = Len(seq) - 1
        /\ \A j \in 1 .. Len(Tail(seq)) : Tail(seq)[j] = seq[j + 1]
    BY HeadTailProperties
  <2>2. Len(seq) \in Nat /\ Len(seq) >= 1
    BY EmptySeq, LenProperties
  <2> QED BY <2>1, <2>2
<1>2. Head(seq) = seq[1] /\ 1 \in 1 .. Len(seq)
  BY <1>1
<1>3. ASSUME NEW j \in 1 .. Len(e) PROVE j + 1 \in 1 .. Len(seq) /\ j + 1 # 1 /\ e[j] = seq[j + 1]
  BY <1>1
<1>4. \A j, k \in 1 .. Len(seq) : seq[j] = seq[k] => j = k
  BY Indexed
<1>5. \A j, k \in 1 .. Len(e) : e[j] = e[k] => j = k
  <2> SUFFICES ASSUME NEW j \in 1 .. Len(e), NEW k \in 1 .. Len(e), e[j] = e[k] PROVE j = k
    OBVIOUS
  <2>1. j + 1 = k + 1
    BY <1>3, <1>4
  <2> QED BY <2>1
<1>6. ASSUME NEW k \in 1 .. Len(seq), k # 1 PROVE k - 1 \in 1 .. Len(e) /\ e[k - 1] = seq[k]
  BY <1>1, <1>6
<1>7. Members(e) = Members(seq) \ {seq[1]}
  <2>1. ASSUME NEW x \in Members(e) PROVE x \in Members(seq) \ {seq[1]}
    BY <1>2, <1>3, <1>4 DEF Members
  <2>2. ASSUME NEW x \in Members(seq) \ {seq[1]} PROVE x \in Members(e)
    <3>1. PICK k \in 1 .. Len(seq) : k # 1 /\ seq[k] = x
      BY <2>2 DEF Members
    <3>2. k - 1 \in 1 .. Len(e) /\ e[k - 1] = x
      BY <1>6, <3>1
    <3> QED BY <3>2 DEF Members
  <2> QED BY <2>1, <2>2
<1>8. IsInjective(e)
  BY <1>5, Indexed
<1>9. seq[1] \in S /\ seq[1] \in Members(seq)
  BY <1>2 DEF Members
<1> QED BY <1>1, <1>2, <1>7, <1>8, <1>9

\* Zones have pages of their own, and are in use or kept.
LEMMA ZonesApart ==
  ASSUME NEW g, SlabInv(g), NEW z \in InUse(g) \cup Members(g.zone_free)
  PROVE  /\ z \in Pages /\ z \in FirstN(z, ZonePages) /\ FirstN(z, ZonePages) \subseteq Pages
         /\ \A y \in InUse(g) \cup Members(g.zone_free) :
              y # z => \A p \in FirstN(z, ZonePages) : p \notin FirstN(y, ZonePages)
         /\ z \in InUse(g) <=> z \notin Members(g.zone_free)
<1>1. g \in HeapData /\ Accounted(g.page_list, Taken(g))
  BY DEF SlabInv
<1>2. ASSUME NEW y \in InUse(g) \cup Members(g.zone_free)
      PROVE  /\ ZoneRegion(y) \in Taken(g) /\ y \in Pages /\ Holds(ZoneRegion(y), y)
             /\ \A p : p \in FirstN(y, ZonePages) <=> p \in Pages /\ Holds(ZoneRegion(y), p)
  <2>1. PICK r : r = ZoneRegion(y) /\ r.at = y /\ r.page = ZonePages /\ r \in Taken(g)
    BY DEF Taken, ZoneRegion
  <2> QED BY <1>1, <2>1, RegionAt
<1>3. ASSUME NEW y \in InUse(g) \cup Members(g.zone_free), y # z, NEW p \in FirstN(z, ZonePages)
      PROVE  p \notin FirstN(y, ZonePages)
  <2>1. ZoneRegion(y) # ZoneRegion(z)
    BY <1>3 DEF ZoneRegion
  <2> QED BY <1>1, <1>2, <2>1 DEF Accounted
<1>4. z \in InUse(g) <=> z \notin Members(g.zone_free)
  BY DEF SlabInv, InUse
<1> QED BY <1>2, <1>3, <1>4

-------------------------------------------------------------------------------
(* Zones that come: pages are taken for a zone, and the zone is opened.      *)

\* Pages taken for a zone, which are kept.
AddsZone(g, e, at) ==
  /\ at \in Nat \ {0} /\ at + ZonePages <= NPages + 1 /\ RunsOk(e.page_list)
  /\ \A p \in Pages :
       /\ p \in FirstN(at, ZonePages) => p \in FreePages(g.page_list)
       /\ p \in FreePages(e.page_list) <=> p \in FreePages(g.page_list) /\ p \notin FirstN(at, ZonePages)
       /\ e.memusage[p] = IF p \in FirstN(at, ZonePages) THEN [type |-> "SMALL", size |-> p - at]
                          ELSE g.memusage[p]
  /\ e.zone = g.zone /\ e.zone_array = g.zone_array /\ e.zone_free = <<at>> \o g.zone_free
  /\ e.used = g.used /\ e.LIVE = g.LIVE

\* Then the heap is in order with a zone more in zone_free.
LEMMA ZoneComes ==
  ASSUME NEW g, SlabInv(g), NEW at, NEW e \in HeapData, AddsZone(g, e, at)
  PROVE  SlabInv(e)
<1>0. PICK list : list = e.page_list
  OBVIOUS
<1> USE <1>0 DEF AddsZone
<1>1. g \in HeapData /\ IsFiniteSet(g.LIVE) /\ Accounted(g.page_list, Taken(g))
  BY DEF SlabInv
<1>2. PICK r : r = ZoneRegion(at) /\ r.at = at /\ r.page = ZonePages /\ RegionFits(r)
  <2>1. RegionFits([at |-> at, page |-> ZonePages, use |-> "zone"])
    BY SlabAssumption DEF RegionFits, Region
  <2> QED BY <2>1 DEF ZoneRegion
<1>3. \A p \in Pages : p \in FirstN(at, ZonePages) <=> Holds(r, p)
  BY <1>2, SlabAssumption DEF FirstN, Pages, Holds
<1>4. /\ Accounted(list, Taken(g) \cup {r})
      /\ \A a \in Taken(g) : a # r /\ \A p \in Pages : ~(Holds(a, p) /\ Holds(r, p))
  <2>1. /\ \A p \in Pages : Holds(r, p) => p \in FreePages(g.page_list)
        /\ \A p \in Pages : p \in FreePages(list) <=> p \in FreePages(g.page_list) /\ ~Holds(r, p)
    BY <1>3
  <2>2. RunsOk(list) /\ RegionFits(r)
    BY <1>2
  <2> QED BY <1>1, <2>1, <2>2, RegionTaken
<1>5. at \in Pages /\ at \notin InUse(g) /\ at \notin Members(g.zone_free) /\ g.zone[at] = NoZone
  <2>1. at \in Pages
    BY SlabAssumption DEF Pages
  <2> QED BY <1>2, <1>4, <2>1 DEF Taken, InUse
<1>6. AddsTo(<<at>> \o g.zone_free, Pages, g.zone_free, at)
  BY <1>1, <1>5, Added DEF SlabInv, HeapData
<1>7. InUse(e) = InUse(g) /\ Members(e.zone_free) = Members(g.zone_free) \cup {at} /\ IsInjective(e.zone_free)
  BY <1>6 DEF InUse, AddsTo
<1>8. Taken(e) = Taken(g) \cup {r}
  BY <1>2, <1>7 DEF Taken
<1>9. ASSUME NEW z \in InUse(e) PROVE ZoneOk(e.zone[z], z, ChunksIn(e.LIVE, z))
  BY <1>7 DEF SlabInv
<1>10. ASSUME NEW b \in e.LIVE, b.kind = "small" PROVE ChunkOk(e, b)
  BY <1>10 DEF SlabInv, ChunkOk
<1>11. ASSUME NEW c \in Classes PROVE ListOk(e, c)
  <2>1. ListOk(g, c)
    BY DEF SlabInv
  <2> QED BY <2>1 DEF ListOk
<1>12. \A z \in Members(e.zone_free) : e.zone[z] = NoZone
  BY <1>5, <1>7 DEF SlabInv
<1>13. MarksOk(e)
  <2>1. ASSUME NEW b \in e.LIVE, b.kind = "large"
        PROVE  e.memusage[b.at] = [type |-> "LARGE", size |-> b.size]
    <3>1. PICK a : a = LargeRegion(b) /\ a.at = b.at /\ a \in Taken(g)
      BY <2>1 DEF Taken, LargeRegion
    <3>2. b.at \in Pages /\ Holds(a, b.at)
      BY <1>1, <3>1, RegionAt
    <3>3. g.memusage[b.at] = [type |-> "LARGE", size |-> b.size]
      BY <2>1 DEF SlabInv, MarksOk
    <3> QED BY <1>3, <1>4, <3>1, <3>2, <3>3
  <2>2. ASSUME NEW z \in InUse(e) \cup Members(e.zone_free), NEW p \in FirstN(z, ZonePages)
        PROVE  e.memusage[p] = [type |-> "SMALL", size |-> p - z]
    <3>1. CASE z = at
      <4>1. p \in Pages
        BY <2>2, <3>1, SlabAssumption DEF FirstN, Pages
      <4> QED BY <2>2, <3>1, <4>1
    <3>2. CASE z # at
      <4>1. z \in InUse(g) \cup Members(g.zone_free)
        BY <1>7, <3>2
      <4>2. PICK a : a = ZoneRegion(z) /\ a.at = z /\ a.page = ZonePages /\ a \in Taken(g)
        BY <4>1 DEF Taken, ZoneRegion
      <4>3. p \in Pages /\ Holds(a, p)
        BY <1>1, <4>2, RegionAt
      <4>4. g.memusage[p] = [type |-> "SMALL", size |-> p - z]
        BY <4>1 DEF SlabInv, MarksOk
      <4> QED BY <1>3, <1>4, <4>2, <4>3, <4>4
    <3> QED BY <3>1, <3>2
  <2> QED BY <2>1, <2>2 DEF MarksOk
<1>14. e.used = Bytes(e.LIVE)
  BY DEF SlabInv
<1> QED BY <1>1, <1>4, <1>7, <1>8, <1>9, <1>10, <1>11, <1>12, <1>13, <1>14 DEF SlabInv

\* A zone with no chunk used yet.
NewZone(c) == [class |-> c, nfree |-> NMax[c], uindex |-> -1, free |-> <<>>]

\* A zone that is in order is there.
LEMMA ZoneThere ==
  ASSUME NEW zone, NEW z, NEW given, ZoneOk(zone, z, given)
  PROVE  zone # NoZone /\ zone.class \in Classes
<1>1. zone.class \in Classes
  BY DEF ZoneOk
<1>2. CASE zone = NoZone
  <2>1. zone.nfree = 0 /\ zone.uindex = 0 /\ zone.free = <<>>
    BY <1>2 DEF NoZone
  <2>2. 0 = 0 + NMax[zone.class] - 1 - 0
    BY <2>1 DEF ZoneOk
  <2> QED BY <1>1, <2>2, SlabAssumption
<1> QED BY <1>1, <1>2

\* A zone that was kept is used for a class.
OpensZone(g, e, z, c) ==
  /\ z = Head(g.zone_free) /\ e.zone_free = Tail(g.zone_free)
  /\ e.page_list = g.page_list /\ e.memusage = g.memusage /\ e.zone = [g.zone EXCEPT ![z] = NewZone(c)]
  /\ e.zone_array = [g.zone_array EXCEPT ![c] = <<z>> \o @] /\ e.used = g.used /\ e.LIVE = g.LIVE

\* The heap is in order with the zone in use for its class.
LEMMA ZoneOpens ==
  ASSUME NEW g, SlabInv(g), NEW c \in Classes, g.zone_free # <<>>, NEW z, NEW e \in HeapData,
         OpensZone(g, e, z, c)
  PROVE  SlabInv(e)
<1> USE DEF OpensZone
<1>1. g \in HeapData /\ IsFiniteSet(g.LIVE) /\ Accounted(g.page_list, Taken(g))
  BY DEF SlabInv
<1>2. /\ z \in Members(g.zone_free) /\ z \in Pages /\ g.zone[z] = NoZone
      /\ Members(e.zone_free) = Members(g.zone_free) \ {z} /\ IsInjective(e.zone_free)
  BY <1>1, FirstGone DEF SlabInv, HeapData
<1>3. ASSUME NEW y \in Pages, y # z PROVE e.zone[y] = g.zone[y]
  BY <1>1, <1>3 DEF HeapData
<1>4. e.zone[z] = NewZone(c)
  BY <1>1, <1>2 DEF HeapData
<1>5. ZoneOk(NewZone(c), z, ChunksIn(e.LIVE, z))
  <2>1. ChunksIn(e.LIVE, z) = {}
    BY <1>2 DEF ChunksIn, SlabInv, ChunkOk
  <2>2. PICK n \in Nat : n = NMax[c] /\ n >= 3
    BY SlabAssumption
  <2>3. /\ NewZone(c).class = c /\ NewZone(c).uindex = -1 /\ NewZone(c).free = <<>> /\ NewZone(c).nfree = n
    BY <2>2 DEF NewZone
  <2>4. Len(<<>>) = 0
    OBVIOUS
  <2>5. -1 \in -1 .. n - 1 /\ n = 0 + n - 1 - (-1)
    BY <2>2
  <2>6. 1 .. 0 = {} /\ \A k \in 0 .. n - 1 : ~(k <= -1)
    BY <2>2
  <2> QED BY <2>1, <2>2, <2>3, <2>4, <2>5, <2>6 DEF ZoneOk, ChunksOk
<1>6. NewZone(c) # NoZone /\ NewZone(c).class = c /\ NewZone(c).nfree > 0
  <2>1. NewZone(c).class = c /\ NewZone(c).nfree > 0
    BY SlabAssumption DEF NewZone
  <2> QED BY <1>5, <2>1, ZoneThere
<1>7. InUse(e) = InUse(g) \cup {z}
  BY <1>2, <1>3, <1>4, <1>6 DEF InUse
<1>8. InUse(e) \cup Members(e.zone_free) = InUse(g) \cup Members(g.zone_free)
  BY <1>2, <1>7
<1>9. Taken(e) = Taken(g)
  BY <1>8 DEF Taken
<1>10. ASSUME NEW y \in InUse(e) PROVE ZoneOk(e.zone[y], y, ChunksIn(e.LIVE, y))
  <2>1. CASE y = z
    BY <1>4, <1>5, <2>1
  <2>2. CASE y # z
    <3>1. y \in InUse(g) /\ y \in Pages
      BY <1>7, <2>2 DEF InUse
    <3> QED BY <1>3, <2>2, <3>1 DEF SlabInv
  <2> QED BY <2>1, <2>2
<1>11. ASSUME NEW b \in e.LIVE, b.kind = "small" PROVE ChunkOk(e, b)
  <2>1. ChunkOk(g, b) /\ b.at \in Pages
    BY <1>1, <1>11 DEF SlabInv, HeapData, HeapBlock
  <2>2. b.at # z
    BY <1>2, <2>1 DEF ChunkOk
  <2> QED BY <1>3, <2>1, <2>2 DEF ChunkOk
<1>12. ASSUME NEW d \in Classes PROVE ListOk(e, d)
  <2>1. ListOk(g, d) /\ g.zone_array \in [Classes -> Seq(Pages)]
    BY <1>1 DEF SlabInv, HeapData
  <2>2. z \notin Members(g.zone_array[d])
    BY <1>2, <2>1 DEF ListOk
  <2>3. CASE d = c
    <3>1. e.zone_array[d] = <<z>> \o g.zone_array[d]
      BY <2>1, <2>3
    <3>2. AddsTo(<<z>> \o g.zone_array[d], Pages, g.zone_array[d], z)
      BY <1>2, <2>1, <2>2, Added DEF ListOk
    <3>3. IsInjective(e.zone_array[d]) /\ Members(e.zone_array[d]) = Members(g.zone_array[d]) \cup {z}
      BY <3>1, <3>2 DEF AddsTo
    <3> QED BY <1>3, <1>4, <1>6, <2>1, <2>3, <3>3 DEF ListOk
  <2>4. CASE d # c
    <3>1. e.zone_array[d] = g.zone_array[d]
      BY <2>1, <2>4
    <3> QED BY <1>3, <1>4, <1>6, <2>1, <2>2, <2>4, <3>1 DEF ListOk
  <2> QED BY <2>3, <2>4
<1>13. \A y \in Members(e.zone_free) : e.zone[y] = NoZone
  <2>1. ASSUME NEW y \in Members(e.zone_free) PROVE e.zone[y] = NoZone
    <3>1. y \in Members(g.zone_free) /\ y # z
      BY <1>2
    <3>2. y \in Pages /\ g.zone[y] = NoZone
      BY <3>1, ZonesApart DEF SlabInv
    <3> QED BY <1>3, <3>1, <3>2
  <2> QED BY <2>1
<1>14. MarksOk(e)
  BY <1>8 DEF SlabInv, MarksOk
<1>15. e.used = Bytes(e.LIVE)
  BY DEF SlabInv
<1> QED BY <1>1, <1>2, <1>9, <1>10, <1>11, <1>12, <1>13, <1>14, <1>15 DEF SlabInv

-------------------------------------------------------------------------------
(* Chunks given out and taken back: one zone changes.                        *)

\* A zone in use changes, with the chunks of it that are live and the list of its class.
ChangesZone(g, e, z, left, list) ==
  LET c == g.zone[z].class
  IN /\ e.page_list = g.page_list /\ e.memusage = g.memusage /\ e.zone_free = g.zone_free
     /\ e.zone = [g.zone EXCEPT ![z] = left] /\ e.zone_array = [g.zone_array EXCEPT ![c] = list]
     /\ left.class = c /\ ZoneOk(left, z, ChunksIn(e.LIVE, z)) /\ IsInjective(list)
     /\ Members(list) = IF left.nfree > 0 THEN Members(g.zone_array[c]) \cup {z}
                        ELSE Members(g.zone_array[c]) \ {z}
     /\ \A b : b.kind = "large" => (b \in e.LIVE <=> b \in g.LIVE)
     /\ \A y \in InUse(g) : y # z => ChunksIn(e.LIVE, y) = ChunksIn(g.LIVE, y)
     /\ \A b \in e.LIVE : \/ b \in g.LIVE
                          \/ b.kind = "small" /\ b.at = z /\ b.size = c /\ b.chunk \in 0 .. NMax[c] - 1

\* The heap is in order after that.
LEMMA ZoneChanges ==
  ASSUME NEW g, SlabInv(g), NEW z \in InUse(g), NEW e \in HeapData, NEW left, NEW list,
         ChangesZone(g, e, z, left, list), IsFiniteSet(e.LIVE), e.used = Bytes(e.LIVE)
  PROVE  SlabInv(e)
<1>0. PICK c : c = g.zone[z].class
  OBVIOUS
<1> USE <1>0 DEF ChangesZone
<1>1. /\ g \in HeapData /\ Accounted(g.page_list, Taken(g)) /\ z \in Pages
      /\ g.zone \in [Pages -> ZoneData] /\ g.zone_array \in [Classes -> Seq(Pages)]
  BY DEF SlabInv, HeapData, InUse
<1>2. left # NoZone /\ c \in Classes
  BY ZoneThere
<1>3. ASSUME NEW y \in Pages, y # z PROVE e.zone[y] = g.zone[y]
  BY <1>1, <1>3
<1>4. e.zone[z] = left
  BY <1>1
<1>5. InUse(e) = InUse(g)
  BY <1>1, <1>2, <1>3, <1>4 DEF InUse
<1>6. Taken(e) = Taken(g)
  <2>1. {b \in e.LIVE : b.kind = "large"} = {b \in g.LIVE : b.kind = "large"}
    OBVIOUS
  <2> QED BY <1>5, <2>1 DEF Taken
<1>7. ASSUME NEW y \in InUse(e) PROVE ZoneOk(e.zone[y], y, ChunksIn(e.LIVE, y))
  <2>1. CASE y = z
    BY <1>4, <2>1
  <2>2. CASE y # z
    <3>1. y \in InUse(g) /\ y \in Pages
      BY <1>5, <2>2 DEF InUse
    <3>2. e.zone[y] = g.zone[y] /\ ChunksIn(e.LIVE, y) = ChunksIn(g.LIVE, y)
      BY <1>3, <2>2, <3>1
    <3>3. ZoneOk(g.zone[y], y, ChunksIn(g.LIVE, y))
      BY <3>1 DEF SlabInv
    <3> QED BY <3>2, <3>3
  <2> QED BY <2>1, <2>2
<1>8. ASSUME NEW b \in e.LIVE, b.kind = "small" PROVE ChunkOk(e, b)
  <2>1. CASE b \in g.LIVE
    <3>1. ChunkOk(g, b) /\ b.at \in Pages
      BY <1>1, <1>8, <2>1 DEF SlabInv, HeapData, HeapBlock
    <3>2. e.zone[b.at] # NoZone /\ e.zone[b.at].class = g.zone[b.at].class
      BY <1>2, <1>3, <1>4, <3>1 DEF ChunkOk
    <3> QED BY <3>1, <3>2 DEF ChunkOk
  <2>2. CASE b \notin g.LIVE
    <3>1. b.at = z /\ b.size = c /\ b.chunk \in 0 .. NMax[c] - 1
      BY <2>2
    <3> QED BY <1>2, <1>4, <3>1 DEF ChunkOk
  <2> QED BY <2>1, <2>2
<1>9. ASSUME NEW d \in Classes PROVE ListOk(e, d)
  <2>1. ListOk(g, d)
    BY DEF SlabInv
  <2>2. CASE d = c
    <3>1. e.zone_array[d] = list
      BY <1>1, <2>2
    <3>2. \A y \in Pages : y \in Members(e.zone_array[d])
                             <=> e.zone[y] # NoZone /\ e.zone[y].class = d /\ e.zone[y].nfree > 0
      BY <1>2, <1>3, <1>4, <2>1, <2>2, <3>1 DEF ListOk
    <3> QED BY <3>1, <3>2 DEF ListOk
  <2>3. CASE d # c
    <3>1. e.zone_array[d] = g.zone_array[d]
      BY <1>1, <2>3
    <3>2. z \notin Members(g.zone_array[d])
      BY <1>1, <2>1, <2>3 DEF ListOk
    <3>3. \A y \in Pages : y \in Members(e.zone_array[d])
                             <=> e.zone[y] # NoZone /\ e.zone[y].class = d /\ e.zone[y].nfree > 0
      BY <1>3, <1>4, <2>1, <2>3, <3>1, <3>2 DEF ListOk
    <3> QED BY <2>1, <3>1, <3>3 DEF ListOk
  <2> QED BY <2>2, <2>3
<1>10. IsInjective(e.zone_free) /\ \A y \in Members(e.zone_free) : e.zone[y] = NoZone
  <2>1. ASSUME NEW y \in Members(g.zone_free) PROVE e.zone[y] = NoZone
    <3>1. y \in Pages /\ y # z /\ g.zone[y] = NoZone
      BY ZonesApart DEF SlabInv
    <3> QED BY <1>3, <3>1
  <2> QED BY <2>1 DEF SlabInv
<1>11. MarksOk(e)
  <2>1. ASSUME NEW b \in e.LIVE, b.kind = "large"
        PROVE  e.memusage[b.at] = [type |-> "LARGE", size |-> b.size]
    <3>1. b \in g.LIVE
      BY <2>1
    <3> QED BY <2>1, <3>1 DEF SlabInv, MarksOk
  <2>2. ASSUME NEW y \in InUse(e) \cup Members(e.zone_free), NEW p \in FirstN(y, ZonePages)
        PROVE  e.memusage[p] = [type |-> "SMALL", size |-> p - y]
    BY <1>5 DEF SlabInv, MarksOk
  <2> QED BY <2>1, <2>2 DEF MarksOk
<1> QED BY <1>1, <1>6, <1>7, <1>8, <1>9, <1>10, <1>11 DEF SlabInv

\* What a zone has left when a chunk of it is given out.
ChunkTaken(zone) ==
  IF zone.uindex + 1 # NMax[zone.class]
  THEN [zone EXCEPT !.nfree = @ - 1, !.uindex = @ + 1]
  ELSE [zone EXCEPT !.nfree = @ - 1, !.free = Tail(@)]
FirstChunk(zone, z) ==
  IF zone.uindex + 1 # NMax[zone.class] THEN <<z, zone.uindex + 1>> ELSE Head(zone.free)

\* The chunk was not live, and the zone stays in order.
LEMMA ZoneGives ==
  ASSUME NEW zone \in ZoneData, NEW z \in Pages, NEW given, ZoneOk(zone, z, given), zone.nfree > 0
  PROVE  \E k \in Nat :
           /\ FirstChunk(zone, z) = <<z, k>> /\ k \in 0 .. NMax[zone.class] - 1 /\ k \notin given
           /\ ChunkTaken(zone) \in ZoneData /\ ChunkTaken(zone).class = zone.class
           /\ ChunkTaken(zone).nfree = zone.nfree - 1
           /\ ZoneOk(ChunkTaken(zone), z, given \cup {k})
<1>1. PICK c \in Classes, n \in Nat, last \in Int, free \in Seq(Pages \X Nat), m \in Int, len \in Nat :
        /\ c = zone.class /\ n = NMax[c] /\ n >= 3 /\ last = zone.uindex /\ free = zone.free /\ m = zone.nfree
        /\ len = Len(free)
  <2>1. zone.class \in Classes
    BY ZoneThere
  <2>2. NMax[zone.class] \in Nat /\ NMax[zone.class] >= 3
    BY <2>1, SlabAssumption
  <2>3. /\ zone.uindex \in Int /\ zone.nfree \in Int /\ zone.free \in Seq(Pages \X Nat)
    BY DEF ZoneData
  <2>4. Len(zone.free) \in Nat
    BY <2>3, LenProperties
  <2> QED BY <2>1, <2>2, <2>3, <2>4
<1>2. zone = [class |-> c, nfree |-> m, uindex |-> last, free |-> free]
  BY <1>1 DEF ZoneData
<1>3. -1 <= last /\ last <= n - 1 /\ m = len + n - 1 - last /\ m > 0 /\ n >= 3
  BY <1>1 DEF ZoneOk, ChunksOk
<1>4. ASSUME NEW i \in 1 .. len PROVE free[i][1] = z /\ free[i][2] \in 0 .. last
  BY <1>1 DEF ZoneOk, ChunksOk
<1>10. ASSUME NEW i \in 1 .. len, NEW j \in 1 .. len, free[i][2] = free[j][2] PROVE i = j
  BY <1>1, <1>10 DEF ZoneOk, ChunksOk
<1>5. ASSUME NEW k \in 0 .. n - 1 PROVE k \in given <=> k <= last /\ \A i \in 1 .. len : free[i][2] # k
  BY <1>1 DEF ZoneOk, ChunksOk
<1>6. ASSUME NEW last2 \in Int, NEW rest \in Seq(Pages \X Nat), NEW k,
             m - 1 = Len(rest) + n - 1 - last2, ChunksOk(z, n, last2, rest, given \cup {k}),
             NEW left, left = [class |-> c, nfree |-> m - 1, uindex |-> last2, free |-> rest]
      PROVE  /\ ZoneOk(left, z, given \cup {k}) /\ left \in ZoneData /\ left.class = zone.class
             /\ left.nfree = zone.nfree - 1
  <2>1. left.class = c /\ left.nfree = m - 1 /\ left.uindex = last2 /\ left.free = rest
    BY <1>6
  <2>2. ZoneOk(left, z, given \cup {k})
    BY <1>1, <1>6, <2>1 DEF ZoneOk
  <2>3. left \in ZoneData
    BY <1>6 DEF ZoneData
  <2> QED BY <1>1, <2>1, <2>2, <2>3
<1>7. CASE last + 1 # n
  <2>1. PICK k \in Nat : k = last + 1
    BY <1>3
  <2>2. FirstChunk(zone, z) = <<z, k>>
    BY <1>1, <1>7, <2>1 DEF FirstChunk
  <2>3. ChunkTaken(zone) = [class |-> c, nfree |-> m - 1, uindex |-> k, free |-> free]
    <3>1. zone.uindex + 1 # NMax[zone.class]
      BY <1>1, <1>7
    <3>2. ChunkTaken(zone) = [zone EXCEPT !.nfree = @ - 1, !.uindex = @ + 1]
      BY <3>1 DEF ChunkTaken
    <3> QED BY <1>2, <2>1, <3>2
  <2>4. k \in 0 .. n - 1 /\ k \notin given
    <3>1. k \in 0 .. n - 1 /\ ~(k <= last)
      BY <1>3, <1>7, <2>1
    <3> QED BY <1>5, <3>1
  <2>5. -1 <= k /\ k <= n - 1 /\ m - 1 = len + n - 1 - k
    BY <1>3, <1>7, <2>1
  <2>6. \A x \in 0 .. last : x \in 0 .. k /\ x # k
    BY <2>1
  <2>7. \A i \in 1 .. len : free[i][1] = z /\ free[i][2] \in 0 .. k /\ free[i][2] # k
    BY <1>4, <2>6
  <2>8. ASSUME NEW x \in 0 .. n - 1
        PROVE  x \in given \cup {k} <=> x <= k /\ \A i \in 1 .. len : free[i][2] # x
    <3>1. CASE x = k
      BY <2>1, <2>7, <3>1
    <3>2. CASE x # k
      <4>1. x <= k <=> x <= last
        BY <2>1, <3>2
      <4> QED BY <1>5, <3>2, <4>1
    <3> QED BY <3>1, <3>2
  <2>9. PICK left : left = [class |-> c, nfree |-> m - 1, uindex |-> k, free |-> free]
    OBVIOUS
  <2>11. k \in -1 .. n - 1 /\ k \in Int
    BY <2>5
  <2>12. ChunksOk(z, n, k, free, given \cup {k})
    BY <1>1, <1>10, <2>7, <2>8, <2>11 DEF ChunksOk
  <2>10. /\ ZoneOk(left, z, given \cup {k}) /\ left \in ZoneData /\ left.class = zone.class
         /\ left.nfree = zone.nfree - 1
    BY <1>1, <1>6, <2>5, <2>9, <2>11, <2>12
  <2> QED BY <1>1, <2>2, <2>3, <2>4, <2>9, <2>10
<1>8. CASE last + 1 = n
  <2>1. len > 0 /\ free # <<>> /\ 1 \in 1 .. len
    <3>1. len > 0
      BY <1>3, <1>8
    <3> QED BY <1>1, <3>1, EmptySeq
  <2>2. PICK rest \in Seq(Pages \X Nat), t \in Nat :
          rest = Tail(free) /\ t = Len(rest) /\ t = len - 1 /\ \A j \in 1 .. t : rest[j] = free[j + 1]
    <3>1. /\ Tail(free) \in Seq(Pages \X Nat) /\ Len(Tail(free)) = Len(free) - 1
          /\ \A j \in 1 .. Len(Tail(free)) : Tail(free)[j] = free[j + 1]
      BY <2>1, HeadTailProperties
    <3>2. len - 1 \in Nat
      BY <2>1
    <3> QED BY <1>1, <3>1, <3>2
  <2>3. PICK k \in Nat : k = free[1][2] /\ free[1] = <<z, k>> /\ Head(free) = <<z, k>>
    <3>1. free[1] \in Pages \X Nat
      BY <1>1, <2>1, ElementOfSeq
    <3>2. free[1][1] = z
      BY <1>4, <2>1
    <3>3. Head(free) = free[1]
      OBVIOUS
    <3> QED BY <3>1, <3>2, <3>3
  <2>4. FirstChunk(zone, z) = <<z, k>>
    BY <1>1, <1>8, <2>3 DEF FirstChunk
  <2>5. ChunkTaken(zone) = [class |-> c, nfree |-> m - 1, uindex |-> last, free |-> rest]
    <3>1. ~(zone.uindex + 1 # NMax[zone.class])
      BY <1>1, <1>8
    <3>2. ChunkTaken(zone) = [zone EXCEPT !.nfree = @ - 1, !.free = Tail(@)]
      BY <3>1 DEF ChunkTaken
    <3> QED BY <1>2, <2>2, <3>2
  <2>6. k \in 0 .. n - 1 /\ k \notin given /\ k <= last
    <3>1. free[1][2] \in 0 .. last
      BY <1>4, <2>1
    <3>2. k \in 0 .. n - 1 /\ k <= last
      BY <1>3, <2>3, <3>1
    <3> QED BY <1>5, <2>1, <2>3, <3>2
  <2>7. m - 1 = t + n - 1 - last
    <3>1. m = len + n - 1 - last
      BY <1>3
    <3>2. t = len - 1
      BY <2>2
    <3> QED BY <3>1, <3>2
  <2>8. ASSUME NEW i \in 1 .. t PROVE i + 1 \in 1 .. len /\ i + 1 # 1 /\ rest[i] = free[i + 1]
    BY <2>2
  <2>9. \A i \in 1 .. t : rest[i][1] = z /\ rest[i][2] \in 0 .. last
    BY <1>4, <2>8
  <2>10. ASSUME NEW i \in 1 .. t, NEW j \in 1 .. t, rest[i][2] = rest[j][2] PROVE i = j
    <3>0. rest[i] = free[i + 1] /\ rest[j] = free[j + 1] /\ i + 1 \in 1 .. len /\ j + 1 \in 1 .. len
      BY <2>8
    <3>1. PICK x \in 1 .. len, y \in 1 .. len : x = i + 1 /\ y = j + 1 /\ free[x][2] = free[y][2]
      BY <2>10, <3>0
    <3>2. x = y
      BY <1>10, <3>1
    <3> QED BY <3>1, <3>2
  <2>11. ASSUME NEW x \in 0 .. n - 1
         PROVE  x \in given \cup {k} <=> x <= last /\ \A i \in 1 .. t : rest[i][2] # x
    <3>1. CASE x = k
      <4>1. ASSUME NEW i \in 1 .. t, rest[i][2] = k PROVE FALSE
        <5>1. i + 1 = 1
          BY <1>10, <2>1, <2>3, <2>8, <4>1
        <5> QED BY <2>8, <5>1
      <4> QED BY <2>6, <3>1, <4>1
    <3>2. CASE x # k
      <4>1. ASSUME NEW i \in 1 .. len, free[i][2] = x PROVE \E j \in 1 .. t : rest[j][2] = x
        <5>1. i # 1
          BY <2>3, <3>2, <4>1
        <5>2. i - 1 \in 1 .. t /\ (i - 1) + 1 = i
          BY <2>2, <5>1
        <5> QED BY <2>2, <4>1, <5>2
      <4>2. ASSUME NEW i \in 1 .. t, rest[i][2] = x PROVE \E j \in 1 .. len : free[j][2] = x
        BY <2>8, <4>2
      <4> QED BY <1>5, <3>2, <4>1, <4>2
    <3> QED BY <3>1, <3>2
  <2>12. PICK left : left = [class |-> c, nfree |-> m - 1, uindex |-> last, free |-> rest]
    OBVIOUS
  <2>14. last \in -1 .. n - 1
    BY <1>3
  <2>15. ChunksOk(z, n, last, rest, given \cup {k})
    BY <2>2, <2>9, <2>10, <2>11, <2>14 DEF ChunksOk
  <2>13. /\ ZoneOk(left, z, given \cup {k}) /\ left \in ZoneData /\ left.class = zone.class
         /\ left.nfree = zone.nfree - 1
    BY <1>6, <2>2, <2>7, <2>12, <2>15
  <2> QED BY <1>1, <2>4, <2>5, <2>6, <2>12, <2>13
<1> QED BY <1>7, <1>8

\* A heap with other fields, where they are of their kinds.
LEMMA HeapWith ==
  ASSUME NEW g \in HeapData, NEW list \in Seq(Run), NEW mem \in [Pages -> Usage],
         NEW zone \in [Pages -> ZoneData], NEW lists \in [Classes -> Seq(Pages)], NEW kept \in Seq(Pages),
         NEW used \in Int, NEW live \in SUBSET HeapBlock, NEW e,
         e = [g EXCEPT !.page_list = list, !.memusage = mem, !.zone = zone, !.zone_array = lists,
                       !.zone_free = kept, !.used = used, !.LIVE = live]
  PROVE  /\ e \in HeapData /\ e.page_list = list /\ e.memusage = mem /\ e.zone = zone /\ e.zone_array = lists
         /\ e.zone_free = kept /\ e.used = used /\ e.LIVE = live
  BY DEF HeapData

\* The kinds of the fields.
LEMMA HeapFields ==
  ASSUME NEW g \in HeapData
  PROVE  /\ g.page_list \in Seq(Run) /\ g.memusage \in [Pages -> Usage] /\ g.zone \in [Pages -> ZoneData]
         /\ g.zone_array \in [Classes -> Seq(Pages)] /\ g.zone_free \in Seq(Pages) /\ g.used \in Int
         /\ g.LIVE \in SUBSET HeapBlock
  BY DEF HeapData

\* A zone in a list of its class is in use and has room.
LEMMA ZoneListed ==
  ASSUME NEW g, SlabInv(g), NEW c \in Classes, NEW z \in Members(g.zone_array[c])
  PROVE  z \in InUse(g) /\ z \in Pages /\ g.zone[z].class = c /\ g.zone[z].nfree > 0
<1>1. ListOk(g, c) /\ g.zone_array[c] \in Seq(Pages)
  BY DEF SlabInv, HeapData
<1>2. z \in Pages
  BY <1>1 DEF Members
<1> QED BY <1>1, <1>2 DEF ListOk, InUse

\* A chunk is given out from the first zone of its class.
LEMMA ChunkGiven ==
  ASSUME NEW g, SlabInv(g), NEW c \in Classes, g.zone_array[c] # <<>>
  PROVE  SlabInv(AllocFrom(g, c).g) /\ g.LIVE \subseteq AllocFrom(g, c).g.LIVE
<1>1. /\ g \in HeapData /\ IsFiniteSet(g.LIVE) /\ g.LIVE \in SUBSET HeapBlock /\ g.used = Bytes(g.LIVE)
      /\ g.zone \in [Pages -> ZoneData] /\ g.zone_array \in [Classes -> Seq(Pages)] /\ ListOk(g, c)
  BY DEF SlabInv, HeapData
<1>2. PICK old \in Seq(Pages) : old = g.zone_array[c] /\ IsInjective(old) /\ old # <<>>
  BY <1>1 DEF ListOk
<1>3. PICK z \in Pages : /\ z = Head(old) /\ z \in Members(old) /\ Tail(old) \in Seq(Pages)
                         /\ IsInjective(Tail(old)) /\ Members(Tail(old)) = Members(old) \ {z}
  BY <1>2, FirstGone
<1>4. z \in InUse(g) /\ g.zone[z].class = c /\ g.zone[z].nfree > 0
  BY <1>2, <1>3, ZoneListed
<1>5. PICK zone \in ZoneData : zone = g.zone[z] /\ ZoneOk(zone, z, ChunksIn(g.LIVE, z)) /\ zone.class = c
                               /\ zone.nfree > 0
  BY <1>1, <1>4 DEF SlabInv
<1>6. PICK k \in Nat :
        /\ FirstChunk(zone, z) = <<z, k>> /\ k \in 0 .. NMax[c] - 1 /\ k \notin ChunksIn(g.LIVE, z)
        /\ ChunkTaken(zone) \in ZoneData /\ ChunkTaken(zone).class = c
        /\ ChunkTaken(zone).nfree = zone.nfree - 1
        /\ ZoneOk(ChunkTaken(zone), z, ChunksIn(g.LIVE, z) \cup {k})
  BY <1>5, ZoneGives
<1>7. PICK left \in ZoneData : left = ChunkTaken(zone)
  BY <1>6
<1>8. PICK b \in HeapBlock : /\ b = Small(<<z, k>>, c) /\ b.kind = "small" /\ b.at = z /\ b.chunk = k
                             /\ b.size = c
  <2>1. PICK x : x = [kind |-> "small", at |-> z, chunk |-> k, size |-> c]
    OBVIOUS
  <2>2. x \in HeapBlock
    BY <2>1 DEF HeapBlock
  <2>3. Small(<<z, k>>, c) = x
    BY <2>1 DEF Small
  <2> QED BY <2>1, <2>2, <2>3
<1>9. b \notin g.LIVE
  BY <1>6, <1>8 DEF ChunksIn
<1>10. PICK list \in Seq(Pages) :
         /\ list = IF left.nfree = 0 THEN Tail(old) ELSE old
         /\ IsInjective(list)
         /\ Members(list) = IF left.nfree > 0 THEN Members(old) \cup {z} ELSE Members(old) \ {z}
  <2>1. left.nfree \in Int /\ left.nfree >= 0
    <3>1. zone.nfree \in Int /\ zone.nfree > 0 /\ left.nfree = zone.nfree - 1
      BY <1>5, <1>6, <1>7 DEF ZoneData
    <3> QED BY <3>1
  <2>2. CASE left.nfree = 0
    <3>1. ~(left.nfree > 0)
      BY <2>2
    <3> QED BY <1>3, <2>2, <3>1
  <2>3. CASE left.nfree # 0
    <3>1. left.nfree > 0
      BY <2>1, <2>3
    <3> QED BY <1>2, <1>3, <2>3, <3>1
  <2> QED BY <2>2, <2>3
<1>11. /\ Bytes(g.LIVE) \in Int /\ BytesOf(b) \in Nat /\ Bytes(g.LIVE \cup {b}) = Bytes(g.LIVE) + BytesOf(b)
       /\ IsFiniteSet(g.LIVE \cup {b}) /\ BytesOf(b) = ChunkSize[c]
  <2>1. BytesOf(b) = ChunkSize[c]
    BY <1>8 DEF BytesOf
  <2> QED BY <1>1, <1>9, <2>1, BytesMore
<1>12. PICK zone2 \in [Pages -> ZoneData], lists2 \in [Classes -> Seq(Pages)], used2 \in Int,
            live2 \in SUBSET HeapBlock :
         /\ zone2 = [g.zone EXCEPT ![z] = left] /\ lists2 = [g.zone_array EXCEPT ![c] = list]
         /\ used2 = g.used + ChunkSize[c] /\ live2 = g.LIVE \cup {b}
  <2>1. /\ [g.zone EXCEPT ![z] = left] \in [Pages -> ZoneData]
        /\ [g.zone_array EXCEPT ![c] = list] \in [Classes -> Seq(Pages)]
    BY <1>1
  <2>2. g.used + ChunkSize[c] \in Int /\ g.LIVE \cup {b} \in SUBSET HeapBlock
    BY <1>1, <1>11
  <2> QED BY <2>1, <2>2
<1>13. AllocFrom(g, c).g = [g EXCEPT !.zone = zone2, !.zone_array = lists2, !.used = used2, !.LIVE = live2]
  <2>1. zone.uindex + 1 # NMax[c] => left = [zone EXCEPT !.nfree = @ - 1, !.uindex = @ + 1]
    BY <1>5, <1>7 DEF ChunkTaken
  <2>2. ~(zone.uindex + 1 # NMax[c]) => left = [zone EXCEPT !.nfree = @ - 1, !.free = Tail(@)]
    BY <1>5, <1>7 DEF ChunkTaken
  <2>3. left = [zone EXCEPT !.nfree = @ - 1, !.uindex = IF zone.uindex + 1 # NMax[c] THEN @ + 1 ELSE @,
                            !.free = IF zone.uindex + 1 # NMax[c] THEN @ ELSE Tail(@)]
    <3>1. CASE zone.uindex + 1 # NMax[c]
      BY <1>5, <2>1, <3>1 DEF ZoneData
    <3>2. CASE ~(zone.uindex + 1 # NMax[c])
      BY <1>5, <2>2, <3>2 DEF ZoneData
    <3> QED BY <3>1, <3>2
  <2>4. FirstChunk(zone, z) = IF zone.uindex + 1 # NMax[c] THEN <<z, zone.uindex + 1>> ELSE Head(zone.free)
    BY <1>5 DEF FirstChunk
  <2>5. AllocFrom(g, c) =
          Gives([g EXCEPT !.zone[z] = left, !.zone_array[c] = IF left.nfree = 0 THEN Tail(@) ELSE @],
                Small(<<z, k>>, c), ChunkSize[c])
    BY <1>2, <1>3, <1>5, <1>6, <2>3, <2>4 DEF AllocFrom
  <2>6. [g EXCEPT !.zone[z] = left, !.zone_array[c] = IF left.nfree = 0 THEN Tail(@) ELSE @] =
          [g EXCEPT !.zone = zone2, !.zone_array = lists2]
    <3>1. [g.zone_array EXCEPT ![c] = IF left.nfree = 0 THEN Tail(@) ELSE @] = lists2
      BY <1>2, <1>10, <1>12
    <3>2. [g EXCEPT !.zone[z] = left, !.zone_array[c] = IF left.nfree = 0 THEN Tail(@) ELSE @] =
            [g EXCEPT !.zone = [g.zone EXCEPT ![z] = left],
                      !.zone_array = [g.zone_array EXCEPT ![c] = IF left.nfree = 0 THEN Tail(@) ELSE @]]
      BY <1>1 DEF HeapData
    <3> QED BY <1>12, <3>1, <3>2
  <2>7. Gives([g EXCEPT !.zone = zone2, !.zone_array = lists2], b, ChunkSize[c]).g =
          [g EXCEPT !.zone = zone2, !.zone_array = lists2, !.used = used2, !.LIVE = live2]
    <3>1. PICK g1 : /\ g1 = [g EXCEPT !.zone = zone2, !.zone_array = lists2]
                    /\ g1.used = g.used /\ g1.LIVE = g.LIVE
      <4>1. [g EXCEPT !.zone = zone2, !.zone_array = lists2].used = g.used
        BY <1>1 DEF HeapData
      <4>2. [g EXCEPT !.zone = zone2, !.zone_array = lists2].LIVE = g.LIVE
        BY <1>1 DEF HeapData
      <4> QED BY <4>1, <4>2
    <3>2. Gives(g1, b, ChunkSize[c]).g = [g1 EXCEPT !.used = used2, !.LIVE = live2]
      BY <1>12, <3>1 DEF Gives
    <3> QED BY <3>1, <3>2
  <2> QED BY <1>8, <2>5, <2>6, <2>7
<1>14. PICK e \in HeapData :
         /\ e = AllocFrom(g, c).g /\ e.page_list = g.page_list /\ e.memusage = g.memusage
         /\ e.zone = [g.zone EXCEPT ![z] = left] /\ e.zone_array = [g.zone_array EXCEPT ![c] = list]
         /\ e.zone_free = g.zone_free /\ e.used = g.used + ChunkSize[c] /\ e.LIVE = g.LIVE \cup {b}
  BY <1>1, <1>12, <1>13 DEF HeapData
<1>15. ChunksIn(e.LIVE, z) = ChunksIn(g.LIVE, z) \cup {k}
  BY <1>8, <1>14 DEF ChunksIn
<1>16. ASSUME NEW y \in InUse(g), y # z PROVE ChunksIn(e.LIVE, y) = ChunksIn(g.LIVE, y)
  BY <1>8, <1>14, <1>16 DEF ChunksIn
<1>17. \A a : a.kind = "large" => (a \in e.LIVE <=> a \in g.LIVE)
  BY <1>8, <1>14
<1>18. \A a \in e.LIVE : \/ a \in g.LIVE
                         \/ a.kind = "small" /\ a.at = z /\ a.size = c /\ a.chunk \in 0 .. NMax[c] - 1
  BY <1>6, <1>8, <1>14
<1>19. ZoneOk(left, z, ChunksIn(e.LIVE, z)) /\ left.class = c
  BY <1>6, <1>7, <1>15
<1>20. Members(list) = IF left.nfree > 0 THEN Members(g.zone_array[c]) \cup {z}
                       ELSE Members(g.zone_array[c]) \ {z}
  BY <1>2, <1>10
<1>21. IsFiniteSet(e.LIVE) /\ e.used = Bytes(e.LIVE)
  BY <1>1, <1>11, <1>14
<1>22. ChangesZone(g, e, z, left, list)
  BY <1>4, <1>10, <1>14, <1>16, <1>17, <1>18, <1>19, <1>20 DEF ChangesZone
<1>23. SlabInv(e)
  BY <1>4, <1>14, <1>21, <1>22, ZoneChanges
<1> QED BY <1>14, <1>23

\* An element put in front of a list.
LEMMA InFront ==
  ASSUME NEW S, NEW seq \in Seq(S), NEW x \in S
  PROVE  /\ <<x>> \o seq \in Seq(S) /\ Len(<<x>> \o seq) = Len(seq) + 1
         /\ (<<x>> \o seq)[1] = x /\ \A i \in 1 .. Len(seq) : (<<x>> \o seq)[i + 1] = seq[i]
<1>1. PICK a \in Seq(S) : a = <<x>> /\ Len(a) = 1 /\ a[1] = x
  <2>1. <<x>> \in Seq(S)
    OBVIOUS
  <2>2. Len(<<x>>) = 1 /\ <<x>>[1] = x
    OBVIOUS
  <2> QED BY <2>1, <2>2
<1>2. Len(seq) \in Nat
  BY LenProperties
<1>3. a \o seq \in Seq(S) /\ Len(a \o seq) = Len(seq) + 1
  BY <1>1, <1>2, Joined2
<1>4. (a \o seq)[1] = x
  BY <1>1, <1>2, JoinedAt
<1>5. ASSUME NEW i \in 1 .. Len(seq) PROVE (a \o seq)[i + 1] = seq[i]
  <2>1. i + 1 \in 1 .. Len(a) + Len(seq) /\ ~(i + 1 <= Len(a)) /\ (i + 1) - Len(a) = i
    BY <1>1, <1>2
  <2> QED BY <2>1, JoinedAt
<1> QED BY <1>1, <1>3, <1>4, <1>5

\* The count of a zone: its list, and the chunks after the last used.
FreeIs(m, len, n, last) == m = len + n - 1 - last

\* One more in the list of a zone is one more that it counts.
LEMMA OneMoreFree ==
  ASSUME NEW m \in Int, NEW len \in Int, NEW n \in Int, NEW last \in Int, FreeIs(m, len, n, last)
  PROVE  FreeIs(m + 1, len + 1, n, last)
BY DEF FreeIs

\* What a zone has when a chunk of it comes back.
TookBack(zone, z, k) == [zone EXCEPT !.free = <<<<z, k>>>> \o @, !.nfree = @ + 1]

\* The zone stays in order when a live chunk comes back.
LEMMA ZoneTakesBack ==
  ASSUME NEW zone \in ZoneData, NEW z \in Pages, NEW given, ZoneOk(zone, z, given),
         NEW k \in Nat, k \in given, NEW n \in Nat, n = NMax[zone.class], k <= n - 1,
         NEW left, left = TookBack(zone, z, k)
  PROVE  /\ left \in ZoneData /\ left.class = zone.class /\ left.nfree = zone.nfree + 1
         /\ zone.nfree \in Nat /\ ZoneOk(left, z, given \ {k})
<1>1. PICK c \in Classes, last \in Int, free \in Seq(Pages \X Nat), m \in Int, len \in Nat :
        /\ c = zone.class /\ n = NMax[c] /\ last = zone.uindex /\ free = zone.free /\ m = zone.nfree
        /\ len = Len(free)
  <2>1. zone.class \in Classes
    BY ZoneThere
  <2>3. /\ zone.uindex \in Int /\ zone.nfree \in Int /\ zone.free \in Seq(Pages \X Nat)
    BY DEF ZoneData
  <2>4. Len(zone.free) \in Nat
    BY <2>3, LenProperties
  <2> QED BY <2>1, <2>3, <2>4
<1>2. -1 <= last /\ last <= n - 1 /\ m = len + n - 1 - last
  BY <1>1 DEF ZoneOk, ChunksOk
<1>3. ASSUME NEW i \in 1 .. len PROVE free[i][1] = z /\ free[i][2] \in 0 .. last
  BY <1>1 DEF ZoneOk, ChunksOk
<1>4. ASSUME NEW i \in 1 .. len, NEW j \in 1 .. len, free[i][2] = free[j][2] PROVE i = j
  BY <1>1, <1>4 DEF ZoneOk, ChunksOk
<1>5. ASSUME NEW x \in 0 .. n - 1 PROVE x \in given <=> x <= last /\ \A i \in 1 .. len : free[i][2] # x
  BY <1>1 DEF ZoneOk, ChunksOk
<1>6. k \in Nat /\ k \in 0 .. n - 1 /\ k <= last /\ \A i \in 1 .. len : free[i][2] # k
  BY <1>1, <1>5
<1>7. PICK rest \in Seq(Pages \X Nat), t \in Nat :
        /\ rest = <<<<z, k>>>> \o free /\ t = Len(rest) /\ t = len + 1
        /\ rest[1][1] = z /\ rest[1][2] = k /\ \A i \in 1 .. len : rest[i + 1] = free[i]
  <2>1. PICK q \in Pages \X Nat : q = <<z, k>> /\ q[1] = z /\ q[2] = k
    <3>1. k \in Nat
      BY <1>6
    <3>2. <<z, k>> \in Pages \X Nat
      BY <3>1
    <3>3. <<z, k>>[1] = z /\ <<z, k>>[2] = k
      OBVIOUS
    <3> QED BY <3>2, <3>3
  <2>2. PICK t \in Nat : t = len + 1
    OBVIOUS
  <2>3. /\ <<q>> \o free \in Seq(Pages \X Nat) /\ Len(<<q>> \o free) = t
        /\ (<<q>> \o free)[1] = q /\ \A i \in 1 .. len : (<<q>> \o free)[i + 1] = free[i]
    <3>1. /\ <<q>> \o free \in Seq(Pages \X Nat) /\ Len(<<q>> \o free) = Len(free) + 1
          /\ (<<q>> \o free)[1] = q /\ \A i \in 1 .. Len(free) : (<<q>> \o free)[i + 1] = free[i]
      BY InFront
    <3> QED BY <1>1, <2>2, <3>1
  <2> QED BY <2>1, <2>2, <2>3
<1>8. /\ left.class = c /\ left.nfree = m + 1 /\ left.uindex = last /\ left.free = rest /\ left \in ZoneData
  <2>1. left = [zone EXCEPT !.free = rest, !.nfree = m + 1]
    BY <1>1, <1>7 DEF TookBack
  <2>2. m + 1 \in Int
    OBVIOUS
  <2> QED BY <1>1, <2>1, <2>2 DEF ZoneData
<1>9. ASSUME NEW i \in 1 .. t
      PROVE  \/ i = 1 /\ rest[i][1] = z /\ rest[i][2] = k
             \/ i # 1 /\ \E j \in 1 .. len : i = j + 1 /\ rest[i] = free[j]
  <2>1. CASE i = 1
    BY <1>7, <2>1
  <2>2. CASE i # 1
    <3>1. PICK j \in 1 .. len : i = j + 1
      <4>1. i - 1 \in 1 .. len /\ i = (i - 1) + 1
        BY <1>7, <2>2
      <4> QED BY <4>1
    <3> QED BY <1>7, <2>2, <3>1
  <2> QED BY <2>1, <2>2
<1>10. ASSUME NEW i \in 1 .. t PROVE rest[i][1] = z /\ rest[i][2] \in 0 .. last
  <2>1. k \in 0 .. last
    BY <1>2, <1>6
  <2> QED BY <1>3, <1>9, <2>1
<1>11. ASSUME NEW i \in 1 .. t, NEW j \in 1 .. t, rest[i][2] = rest[j][2] PROVE i = j
  <2>1. CASE i = 1 /\ j = 1
    BY <2>1
  <2>2. CASE i = 1 /\ j # 1
    <3>1. PICK x \in 1 .. len : j = x + 1 /\ rest[j] = free[x]
      BY <1>9, <2>2
    <3> QED BY <1>6, <1>7, <1>11, <2>2, <3>1
  <2>3. CASE i # 1 /\ j = 1
    <3>1. PICK x \in 1 .. len : i = x + 1 /\ rest[i] = free[x]
      BY <1>9, <2>3
    <3> QED BY <1>6, <1>7, <1>11, <2>3, <3>1
  <2>4. CASE i # 1 /\ j # 1
    <3>1. PICK x \in 1 .. len : i = x + 1 /\ rest[i] = free[x]
      BY <1>9, <2>4
    <3>2. PICK y \in 1 .. len : j = y + 1 /\ rest[j] = free[y]
      BY <1>9, <2>4
    <3>3. x = y
      BY <1>4, <1>11, <3>1, <3>2
    <3> QED BY <3>1, <3>2, <3>3
  <2> QED BY <2>1, <2>2, <2>3, <2>4
<1>12. ASSUME NEW x \in 0 .. n - 1
       PROVE  x \in given \ {k} <=> x <= last /\ \A i \in 1 .. t : rest[i][2] # x
  <2>1. CASE x = k
    <3>1. 1 \in 1 .. t /\ rest[1][2] = k
      BY <1>7
    <3> QED BY <2>1, <3>1
  <2>2. CASE x # k
    <3>1. ASSUME NEW i \in 1 .. t, rest[i][2] = x PROVE \E j \in 1 .. len : free[j][2] = x
      <4>1. rest[i][2] # k
        BY <2>2, <3>1
      <4> QED BY <1>9, <3>1, <4>1
    <3>2. ASSUME NEW j \in 1 .. len, free[j][2] = x PROVE \E i \in 1 .. t : rest[i][2] = x
      <4>1. j + 1 \in 1 .. t
        BY <1>7
      <4>2. rest[j + 1] = free[j]
        BY <1>7
      <4> QED BY <3>2, <4>1, <4>2
    <3> QED BY <1>5, <2>2, <3>1, <3>2
  <2> QED BY <2>1, <2>2
<1>13. m + 1 = Len(rest) + n - 1 - last /\ m \in Nat
  <2>0. t = len + 1
    BY <1>7
  <2>1. FreeIs(m, len, n, last)
    BY <1>2 DEF FreeIs
  <2>3. FreeIs(m + 1, len + 1, n, last)
    BY <2>1, OneMoreFree
  <2>2. m \in Nat
    BY <1>2
  <2>4. m + 1 = Len(rest) + n - 1 - last
    BY <1>7, <2>0, <2>3 DEF FreeIs
  <2> QED BY <2>2, <2>4
<1>14. ChunksOk(z, n, last, rest, given \ {k})
  <2>1. last \in -1 .. n - 1
    BY <1>2
  <2> QED BY <1>7, <1>10, <1>11, <1>12, <2>1 DEF ChunksOk
<1>15. ZoneOk(left, z, given \ {k})
  BY <1>1, <1>8, <1>13, <1>14 DEF ZoneOk
<1> QED BY <1>1, <1>8, <1>13, <1>15

\* A heap with the chunk of a live block back in its zone.
Returned(g, b) ==
  LET z == b.at
      zone == g.zone[z]
      c == zone.class
  IN [g EXCEPT !.LIVE = @ \ {b}, !.zone[z] = TookBack(zone, z, b.chunk),
               !.used = @ - ChunkSize[c], !.zone_array[c] = IF zone.nfree = 0 THEN <<z>> \o @ ELSE @]

\* That heap is in order.
LEMMA ChunkBack ==
  ASSUME NEW g, SlabInv(g), NEW b \in g.LIVE, b.kind = "small"
  PROVE  SlabInv(Returned(g, b)) /\ b.at \in InUse(Returned(g, b))
<1>1. /\ g \in HeapData /\ IsFiniteSet(g.LIVE) /\ g.LIVE \in SUBSET HeapBlock /\ g.used = Bytes(g.LIVE)
      /\ g.zone \in [Pages -> ZoneData] /\ g.zone_array \in [Classes -> Seq(Pages)]
      /\ ChunkOk(g, b) /\ b \in HeapBlock
  BY DEF SlabInv, HeapData
<1>2. PICK z \in Pages, c \in Classes, k \in Nat, zone \in ZoneData :
        /\ z = b.at /\ c = b.size /\ k = b.chunk /\ zone = g.zone[z] /\ zone.class = c /\ zone # NoZone
        /\ k \in 0 .. NMax[c] - 1
  <2>1. b.at \in Pages /\ b.size \in Classes /\ b.chunk \in Nat
    BY <1>1 DEF HeapBlock
  <2> QED BY <1>1, <2>1 DEF ChunkOk
<1>3. z \in InUse(g) /\ ZoneOk(zone, z, ChunksIn(g.LIVE, z)) /\ k \in ChunksIn(g.LIVE, z)
  BY <1>2 DEF SlabInv, InUse, ChunksIn
<1>30. PICK left : left = TookBack(zone, z, k)
  OBVIOUS
<1>4. left \in ZoneData /\ left.class = c /\ left.nfree = zone.nfree + 1 /\ zone.nfree \in Nat
      /\ ZoneOk(left, z, ChunksIn(g.LIVE, z) \ {k})
  <2>1. PICK n \in Nat : n = NMax[zone.class] /\ k <= n - 1
    BY <1>2, SlabAssumption
  <2>2. /\ left \in ZoneData /\ left.class = zone.class /\ left.nfree = zone.nfree + 1
        /\ zone.nfree \in Nat /\ ZoneOk(left, z, ChunksIn(g.LIVE, z) \ {k})
    BY <1>3, <1>30, <2>1, ZoneTakesBack
  <2> QED BY <1>2, <2>2
<1>5. PICK old \in Seq(Pages) :
        old = g.zone_array[c] /\ IsInjective(old) /\ (z \in Members(old) <=> zone.nfree > 0)
  BY <1>1, <1>2 DEF SlabInv, ListOk
<1>6. PICK list \in Seq(Pages) : /\ list = IF zone.nfree = 0 THEN <<z>> \o old ELSE old
                                 /\ IsInjective(list) /\ Members(list) = Members(old) \cup {z}
  <2>1. CASE zone.nfree = 0
    <3>1. z \notin Members(old)
      BY <1>5, <2>1
    <3>2. AddsTo(<<z>> \o old, Pages, old, z)
      BY <1>5, <3>1, Added
    <3> QED BY <2>1, <3>2 DEF AddsTo
  <2>2. CASE zone.nfree # 0
    <3>1. z \in Members(old)
      BY <1>4, <1>5, <2>2
    <3> QED BY <1>5, <2>2, <3>1
  <2> QED BY <2>1, <2>2
<1>7. /\ Bytes(g.LIVE) \in Int /\ Bytes(g.LIVE \ {b}) = Bytes(g.LIVE) - ChunkSize[c] /\ ChunkSize[c] \in Nat
      /\ IsFiniteSet(g.LIVE \ {b})
  <2>1. BytesOf(b) = ChunkSize[c]
    BY <1>2 DEF BytesOf
  <2> QED BY <1>1, <2>1, BytesLess
<1>8. PICK zone2 \in [Pages -> ZoneData], lists2 \in [Classes -> Seq(Pages)], used2 \in Int,
           live2 \in SUBSET HeapBlock :
        /\ zone2 = [g.zone EXCEPT ![z] = left] /\ lists2 = [g.zone_array EXCEPT ![c] = list]
        /\ used2 = g.used - ChunkSize[c] /\ live2 = g.LIVE \ {b}
  <2>1. [g.zone EXCEPT ![z] = left] \in [Pages -> ZoneData]
    BY <1>1, <1>4
  <2>3. [g.zone_array EXCEPT ![c] = list] \in [Classes -> Seq(Pages)]
    BY <1>1
  <2>2. g.used - ChunkSize[c] \in Int /\ g.LIVE \ {b} \in SUBSET HeapBlock
    BY <1>1, <1>7
  <2> QED BY <2>1, <2>2, <2>3
<1>9. Returned(g, b) = [g EXCEPT !.LIVE = live2, !.zone = zone2, !.used = used2, !.zone_array = lists2]
  <2>1. [g.zone_array EXCEPT ![c] = IF zone.nfree = 0 THEN <<z>> \o @ ELSE @] = lists2
    BY <1>5, <1>6, <1>8
  <2>2. Returned(g, b) =
          [g EXCEPT !.LIVE = @ \ {b}, !.zone[z] = left, !.used = @ - ChunkSize[c],
                    !.zone_array[c] = IF zone.nfree = 0 THEN <<z>> \o @ ELSE @]
    <3>1. TookBack(g.zone[z], z, k) = left
      BY <1>2, <1>30
    <3>2. Returned(g, b) =
            [g EXCEPT !.LIVE = @ \ {b}, !.zone[z] = TookBack(g.zone[z], z, k), !.used = @ - ChunkSize[c],
                      !.zone_array[c] = IF zone.nfree = 0 THEN <<z>> \o @ ELSE @]
      BY <1>2 DEF Returned
    <3> QED BY <3>1, <3>2
  <2>3. [g EXCEPT !.LIVE = @ \ {b}, !.zone[z] = left, !.used = @ - ChunkSize[c],
                  !.zone_array[c] = IF zone.nfree = 0 THEN <<z>> \o @ ELSE @] =
          [g EXCEPT !.LIVE = g.LIVE \ {b}, !.zone = [g.zone EXCEPT ![z] = left],
                    !.used = g.used - ChunkSize[c],
                    !.zone_array = [g.zone_array EXCEPT ![c] = IF zone.nfree = 0 THEN <<z>> \o @ ELSE @]]
    BY <1>1 DEF HeapData
  <2> QED BY <1>8, <2>1, <2>2, <2>3
<1>10. PICK e \in HeapData :
         /\ e = Returned(g, b) /\ e.page_list = g.page_list /\ e.memusage = g.memusage
         /\ e.zone = [g.zone EXCEPT ![z] = left] /\ e.zone_array = [g.zone_array EXCEPT ![c] = list]
         /\ e.zone_free = g.zone_free /\ e.used = g.used - ChunkSize[c] /\ e.LIVE = g.LIVE \ {b}
  BY <1>1, <1>8, <1>9 DEF HeapData
<1>11. ChunksIn(e.LIVE, z) = ChunksIn(g.LIVE, z) \ {k}
  <2>1. ASSUME NEW a \in g.LIVE, a.kind = "small", a.at = z, a.chunk = k PROVE a = b
    <3>1. a \in HeapBlock /\ ChunkOk(g, a)
      BY <1>1, <2>1 DEF SlabInv
    <3>2. a.size = c
      BY <1>2, <2>1, <3>1 DEF ChunkOk
    <3>3. a.kind = b.kind /\ a.at = b.at /\ a.chunk = b.chunk /\ a.size = b.size /\ a.kind = "small"
      BY <1>2, <2>1, <3>2
    <3>4. /\ a \in [kind : {"small"}, at : Pages, chunk : Nat, size : Classes]
          /\ b \in [kind : {"small"}, at : Pages, chunk : Nat, size : Classes]
      BY <1>1, <3>1, <3>3 DEF HeapBlock
    <3>5. /\ a = [kind |-> a.kind, at |-> a.at, chunk |-> a.chunk, size |-> a.size]
          /\ b = [kind |-> b.kind, at |-> b.at, chunk |-> b.chunk, size |-> b.size]
      BY <3>4
    <3> QED BY <3>3, <3>5
  <2> QED BY <1>2, <1>10, <2>1 DEF ChunksIn
<1>12. ASSUME NEW y \in InUse(g), y # z PROVE ChunksIn(e.LIVE, y) = ChunksIn(g.LIVE, y)
  BY <1>2, <1>10, <1>12 DEF ChunksIn
<1>13. \A a : a.kind = "large" => (a \in e.LIVE <=> a \in g.LIVE)
  BY <1>10
<1>14. Members(list) = IF left.nfree > 0 THEN Members(g.zone_array[c]) \cup {z}
                       ELSE Members(g.zone_array[c]) \ {z}
  <2>1. left.nfree > 0
    BY <1>4
  <2> QED BY <1>5, <1>6, <2>1
<1>15. \A a \in e.LIVE : a \in g.LIVE
  BY <1>10
<1>16. ZoneOk(left, z, ChunksIn(e.LIVE, z))
  BY <1>4, <1>11
<1>17. ChangesZone(g, e, z, left, list)
  BY <1>2, <1>4, <1>6, <1>10, <1>12, <1>13, <1>14, <1>15, <1>16 DEF ChangesZone
<1>18. IsFiniteSet(e.LIVE) /\ e.used = Bytes(e.LIVE)
  BY <1>1, <1>7, <1>10
<1>19. SlabInv(e)
  BY <1>3, <1>10, <1>17, <1>18, ZoneChanges
<1>20. z \in InUse(e)
  <2>1. left # NoZone
    BY <1>4, ZoneThere
  <2> QED BY <1>1, <1>10, <2>1 DEF InUse
<1> QED BY <1>2, <1>10, <1>19, <1>20

-------------------------------------------------------------------------------
(* Zones that go: kept in zone_free, and their pages given back.             *)

\* A zone whose free and unused chunks are as many as it has, has no live one.
LEMMA NoneLive ==
  ASSUME NEW n \in Nat, NEW last \in Int, NEW free \in Seq(Pages \X Nat), NEW z, NEW given,
         ChunksOk(z, n, last, free, given), n = Len(free) + n - 1 - last
  PROVE  \A k \in 0 .. n - 1 : k \notin given
<1>1. PICK len \in Nat : len = Len(free) /\ len = last + 1 /\ -1 <= last /\ last <= n - 1
  <2>1. Len(free) \in Nat
    BY LenProperties
  <2> QED BY <2>1 DEF ChunksOk
<1> DEFINE f == [i \in 1 .. len |-> free[i][2]]
<1>2. \A i \in 1 .. len : f[i] \in 0 .. last
  BY <1>1 DEF ChunksOk
<1>3. \A i, j \in 1 .. len : f[i] = f[j] => i = j
  BY <1>1 DEF ChunksOk
<1>4. f \in Injection(1 .. len, 0 .. last)
  BY <1>2, <1>3, Zenon DEF Injection, IsInjective
<1>5. Cardinality(1 .. len) = len /\ Cardinality(0 .. last) = len /\ IsFiniteSet(0 .. last)
  <2>1. Cardinality(1 .. len) = IF 1 > len THEN 0 ELSE len - 1 + 1
    BY FS_Interval
  <2>2. IsFiniteSet(0 .. last) /\ Cardinality(0 .. last) = IF 0 > last THEN 0 ELSE last - 0 + 1
    BY FS_Interval
  <2> QED BY <1>1, <2>1, <2>2
<1> HIDE DEF f
<1>6. f \in Surjection(1 .. len, 0 .. last)
  BY <1>4, <1>5, FS_Injection
<1>7. \A k \in 0 .. last : \E i \in 1 .. len : f[i] = k
  BY <1>6, Zenon DEF Surjection
<1>8. ASSUME NEW k \in 0 .. n - 1, k \in given PROVE FALSE
  <2>1. k <= last /\ \A i \in 1 .. len : free[i][2] # k
    BY <1>1, <1>8 DEF ChunksOk
  <2>2. k \in 0 .. last
    BY <1>1, <2>1
  <2>3. PICK i \in 1 .. len : f[i] = k
    BY <1>7, <2>2
  <2> QED BY <2>1, <2>3 DEF f
<1> QED BY <1>8

\* So a zone that counts all of its chunks has no live one.
LEMMA EmptyZone ==
  ASSUME NEW g, SlabInv(g), NEW z \in InUse(g), g.zone[z].nfree = NMax[g.zone[z].class]
  PROVE  \A b \in g.LIVE : b.kind = "small" => b.at # z
<1>1. g \in HeapData /\ z \in Pages /\ g.zone[z] \in ZoneData /\ ZoneOk(g.zone[z], z, ChunksIn(g.LIVE, z))
  BY DEF SlabInv, HeapData, InUse
<1>2. PICK n \in Nat, last \in Int, free \in Seq(Pages \X Nat) :
        /\ n = NMax[g.zone[z].class] /\ last = g.zone[z].uindex /\ free = g.zone[z].free
        /\ n = Len(free) + n - 1 - last /\ ChunksOk(z, n, last, free, ChunksIn(g.LIVE, z))
  <2>1. NMax[g.zone[z].class] \in Nat
    BY <1>1, ZoneThere, SlabAssumption
  <2>2. g.zone[z].uindex \in Int /\ g.zone[z].free \in Seq(Pages \X Nat)
    BY <1>1 DEF ZoneData
  <2> QED BY <1>1, <2>1, <2>2 DEF ZoneOk
<1>3. \A k \in 0 .. n - 1 : k \notin ChunksIn(g.LIVE, z)
  BY <1>2, NoneLive
<1>4. ASSUME NEW b \in g.LIVE, b.kind = "small", b.at = z PROVE FALSE
  <2>1. ChunkOk(g, b)
    BY <1>4 DEF SlabInv
  <2>2. b.chunk \in 0 .. n - 1
    BY <1>2, <1>4, <2>1 DEF ChunkOk
  <2>3. b.chunk \in ChunksIn(g.LIVE, z)
    BY <1>4 DEF ChunksIn
  <2> QED BY <1>3, <2>2, <2>3
<1> QED BY <1>4

\* A zone without live chunks is kept.
KeepsZone(g, e, z) ==
  LET c == g.zone[z].class
  IN /\ e.page_list = g.page_list /\ e.memusage = g.memusage /\ e.zone = [g.zone EXCEPT ![z] = NoZone]
     /\ e.zone_array = [g.zone_array EXCEPT ![c] = RemoveFirst(@, z)]
     /\ e.zone_free = <<z>> \o g.zone_free /\ e.used = g.used /\ e.LIVE = g.LIVE

\* The heap is in order with the zone in zone_free.
LEMMA ZoneKept ==
  ASSUME NEW g, SlabInv(g), NEW z \in InUse(g), \A b \in g.LIVE : b.kind = "small" => b.at # z,
         NEW e \in HeapData, KeepsZone(g, e, z)
  PROVE  SlabInv(e)
<1>0. PICK c : c = g.zone[z].class
  OBVIOUS
<1> USE <1>0 DEF KeepsZone
<1>1. /\ g \in HeapData /\ IsFiniteSet(g.LIVE) /\ Accounted(g.page_list, Taken(g)) /\ z \in Pages
      /\ g.zone \in [Pages -> ZoneData] /\ g.zone_array \in [Classes -> Seq(Pages)]
      /\ g.zone_free \in Seq(Pages) /\ IsInjective(g.zone_free)
  BY DEF SlabInv, HeapData, InUse
<1>2. z \notin Members(g.zone_free)
  BY ZonesApart
<1>3. ASSUME NEW y \in Pages, y # z PROVE e.zone[y] = g.zone[y]
  BY <1>1, <1>3
<1>4. e.zone[z] = NoZone
  BY <1>1
<1>5. IsInjective(e.zone_free) /\ Members(e.zone_free) = Members(g.zone_free) \cup {z}
  BY <1>1, <1>2, Added DEF AddsTo
<1>6. InUse(e) = InUse(g) \ {z}
  BY <1>3, <1>4 DEF InUse
<1>7. InUse(e) \cup Members(e.zone_free) = InUse(g) \cup Members(g.zone_free)
  BY <1>5, <1>6
<1>8. Taken(e) = Taken(g)
  BY <1>7 DEF Taken
<1>9. ASSUME NEW y \in InUse(e) PROVE ZoneOk(e.zone[y], y, ChunksIn(e.LIVE, y))
  <2>1. y \in InUse(g) /\ y \in Pages /\ y # z
    BY <1>6 DEF InUse
  <2> QED BY <1>3, <2>1 DEF SlabInv
<1>10. ASSUME NEW b \in e.LIVE, b.kind = "small" PROVE ChunkOk(e, b)
  <2>1. ChunkOk(g, b) /\ b.at \in Pages /\ b.at # z
    BY <1>1, <1>10 DEF SlabInv, HeapData, HeapBlock
  <2> QED BY <1>3, <2>1 DEF ChunkOk
<1>11. ASSUME NEW d \in Classes PROVE ListOk(e, d)
  <2>1. ListOk(g, d)
    BY DEF SlabInv
  <2>2. PICK old \in Seq(Pages) : old = g.zone_array[d] /\ IsInjective(old)
    BY <1>1, <2>1 DEF ListOk
  <2>3. IsInjective(e.zone_array[d]) /\ Members(e.zone_array[d]) = Members(old) \ {z}
    <3>1. CASE d = c
      <4>1. e.zone_array[d] = RemoveFirst(old, z)
        BY <1>1, <2>2, <3>1
      <4> QED BY <2>2, <4>1, RemovedFrom
    <3>2. CASE d # c
      <4>1. e.zone_array[d] = old
        BY <1>1, <2>2, <3>2
      <4>2. z \notin Members(old)
        BY <1>1, <2>1, <2>2, <3>2 DEF ListOk
      <4> QED BY <2>2, <4>1, <4>2
    <3> QED BY <3>1, <3>2
  <2>4. \A y \in Pages :
          y \in Members(old) <=> g.zone[y] # NoZone /\ g.zone[y].class = d /\ g.zone[y].nfree > 0
    BY <2>1, <2>2 DEF ListOk
  <2>5. ASSUME NEW y \in Pages
        PROVE  y \in Members(old) \ {z} <=> e.zone[y] # NoZone /\ e.zone[y].class = d /\ e.zone[y].nfree > 0
    <3>1. CASE y = z
      BY <1>4, <3>1
    <3>2. CASE y # z
      BY <1>3, <2>4, <3>2
    <3> QED BY <3>1, <3>2
  <2> QED BY <2>3, <2>5 DEF ListOk
<1>12. \A y \in Members(e.zone_free) : e.zone[y] = NoZone
  <2>1. ASSUME NEW y \in Members(g.zone_free) PROVE e.zone[y] = NoZone
    <3>1. y \in Pages /\ y # z /\ g.zone[y] = NoZone
      BY <1>2, ZonesApart DEF SlabInv
    <3> QED BY <1>3, <3>1
  <2> QED BY <1>4, <1>5, <2>1
<1>13. MarksOk(e)
  BY <1>7 DEF SlabInv, MarksOk
<1>14. e.used = Bytes(e.LIVE)
  BY DEF SlabInv
<1> QED BY <1>1, <1>5, <1>8, <1>9, <1>10, <1>11, <1>12, <1>13, <1>14 DEF SlabInv

\* The pages of a zone that was kept are given back.
DropsZone(g, e, z) ==
  /\ z = Head(g.zone_free) /\ e.zone_free = Tail(g.zone_free) /\ FreesPages(g.page_list, z, ZonePages, e.page_list)
  /\ \A p \in Pages : p \notin FirstN(z, ZonePages) => e.memusage[p] = g.memusage[p]
  /\ e.zone = g.zone /\ e.zone_array = g.zone_array /\ e.used = g.used /\ e.LIVE = g.LIVE

\* The heap is in order without it.
LEMMA ZoneGone ==
  ASSUME NEW g, SlabInv(g), g.zone_free # <<>>, NEW z, NEW e \in HeapData, DropsZone(g, e, z)
  PROVE  SlabInv(e)
<1>0. PICK list : list = e.page_list
  OBVIOUS
<1> USE <1>0 DEF DropsZone
<1>1. /\ g \in HeapData /\ IsFiniteSet(g.LIVE) /\ Accounted(g.page_list, Taken(g))
      /\ g.zone_free \in Seq(Pages) /\ IsInjective(g.zone_free)
  BY DEF SlabInv, HeapData
<1>2. /\ z \in Members(g.zone_free) /\ z \in Pages
      /\ Members(e.zone_free) = Members(g.zone_free) \ {z} /\ IsInjective(e.zone_free)
  BY <1>1, FirstGone
<1>3. PICK r : r = ZoneRegion(z) /\ r.at = z /\ r.page = ZonePages /\ r.use = "zone" /\ r \in Taken(g)
  <2>1. ZoneRegion(z) \in Taken(g)
    BY <1>2 DEF Taken
  <2>2. ZoneRegion(z).at = z /\ ZoneRegion(z).page = ZonePages /\ ZoneRegion(z).use = "zone"
    BY DEF ZoneRegion
  <2> QED BY <2>1, <2>2
<1>4. InUse(e) = InUse(g) /\ z \notin InUse(g)
  BY <1>2, ZonesApart DEF InUse
<1>5. Taken(e) = Taken(g) \ {r}
  <2>1. \A y : ZoneRegion(y) = r <=> y = z
    BY <1>3 DEF ZoneRegion
  <2>2. TableRegion # r /\ \A b : LargeRegion(b) # r
    BY <1>3 DEF TableRegion, LargeRegion
  <2> QED BY <1>2, <1>4, <2>1, <2>2 DEF Taken
<1>6. \A p \in Pages : p \in FirstN(z, ZonePages) <=> Holds(r, p)
  BY <1>1, <1>3, RegionAt
<1>7. Accounted(list, Taken(e))
  <2>1. RunsOk(list) /\ \A p \in Pages : p \in FreePages(list) <=> p \in FreePages(g.page_list) \/ Holds(r, p)
    BY <1>6 DEF FreesPages
  <2> QED BY <1>1, <1>3, <1>5, <2>1, RegionGone
<1>8. ASSUME NEW y \in InUse(e) PROVE ZoneOk(e.zone[y], y, ChunksIn(e.LIVE, y))
  BY <1>4 DEF SlabInv
<1>9. ASSUME NEW b \in e.LIVE, b.kind = "small" PROVE ChunkOk(e, b)
  BY <1>9 DEF SlabInv, ChunkOk
<1>10. ASSUME NEW c \in Classes PROVE ListOk(e, c)
  <2>1. ListOk(g, c)
    BY DEF SlabInv
  <2> QED BY <2>1 DEF ListOk
<1>11. \A y \in Members(e.zone_free) : e.zone[y] = NoZone
  BY <1>2 DEF SlabInv
<1>12. MarksOk(e)
  <2>1. ASSUME NEW b \in e.LIVE, b.kind = "large"
        PROVE  e.memusage[b.at] = [type |-> "LARGE", size |-> b.size]
    <3>1. b \in g.LIVE /\ b.at \in Pages /\ b.at \notin FirstN(z, ZonePages)
      <4>1. b \in g.LIVE /\ b.at \in Pages
        BY <1>1, <2>1 DEF HeapData, HeapBlock
      <4> QED BY <1>2, <2>1, <4>1, LargeApart
    <3>2. g.memusage[b.at] = [type |-> "LARGE", size |-> b.size]
      BY <2>1, <3>1 DEF SlabInv, MarksOk
    <3> QED BY <3>1, <3>2
  <2>2. ASSUME NEW y \in InUse(e) \cup Members(e.zone_free), NEW p \in FirstN(y, ZonePages)
        PROVE  e.memusage[p] = [type |-> "SMALL", size |-> p - y]
    <3>1. y \in InUse(g) \cup Members(g.zone_free) /\ y # z
      BY <1>2, <1>4
    <3>2. p \in Pages /\ p \notin FirstN(z, ZonePages)
      BY <1>2, <3>1, ZonesApart
    <3>3. g.memusage[p] = [type |-> "SMALL", size |-> p - y]
      BY <3>1 DEF SlabInv, MarksOk
    <3> QED BY <3>2, <3>3
  <2> QED BY <2>1, <2>2 DEF MarksOk
<1>13. e.used = Bytes(e.LIVE)
  BY DEF SlabInv
<1> QED BY <1>1, <1>2, <1>7, <1>8, <1>9, <1>10, <1>11, <1>12, <1>13 DEF SlabInv

\* A zone that has room again, or is entirely free.
LEMMA ZoneFreed ==
  ASSUME NEW g, SlabInv(g), NEW z \in InUse(g)
  PROVE  SlabInv(FreeZone(g, z))
<1>1. /\ g \in HeapData /\ z \in Pages /\ g.zone \in [Pages -> ZoneData]
      /\ g.zone_array \in [Classes -> Seq(Pages)] /\ g.zone_free \in Seq(Pages) /\ g.memusage \in [Pages -> Usage]
      /\ g.zone[z].class \in Classes /\ Accounted(g.page_list, Taken(g)) /\ NoZone \in ZoneData
  <2>1. g.zone[z].class \in Classes
    BY ZoneThere DEF SlabInv
  <2>2. NoZone \in ZoneData
    BY DEF NoZone, ZoneData
  <2> QED BY <2>1, <2>2 DEF SlabInv, HeapData, InUse
<1>2. PICK c \in Classes : c = g.zone[z].class
  BY <1>1
<1>3. PICK zone2 \in [Pages -> ZoneData], lists2 \in [Classes -> Seq(Pages)], free2 \in Seq(Pages) :
        /\ zone2 = [g.zone EXCEPT ![z] = NoZone] /\ lists2 = [g.zone_array EXCEPT ![c] = RemoveFirst(@, z)]
        /\ free2 = <<z>> \o g.zone_free /\ free2 # <<>> /\ Head(free2) = z /\ Tail(free2) = g.zone_free
  <2>1. [g.zone EXCEPT ![z] = NoZone] \in [Pages -> ZoneData]
    BY <1>1
  <2>2. RemoveFirst(g.zone_array[c], z) \in Seq(Pages)
    <3>1. g.zone_array[c] \in Seq(Pages) /\ IsInjective(g.zone_array[c])
      BY <1>1 DEF SlabInv, ListOk
    <3> QED BY <3>1, RemovedFrom
  <2>3. [g.zone_array EXCEPT ![c] = RemoveFirst(@, z)] \in [Classes -> Seq(Pages)]
    BY <1>1, <2>2
  <2>4. <<z>> \o g.zone_free \in Seq(Pages) /\ <<z>> \o g.zone_free # <<>>
        /\ Head(<<z>> \o g.zone_free) = z /\ Tail(<<z>> \o g.zone_free) = g.zone_free
    BY <1>1
  <2> QED BY <2>1, <2>3, <2>4
<1> DEFINE kept == [g EXCEPT !.zone_array[c] = RemoveFirst(@, z), !.zone_free = <<z>> \o @, !.zone[z] = NoZone]
           use == [off \in 0 .. ZonePages - 1 |-> [type |-> "FREE", size |-> 0]]
           gone == Memusage([kept EXCEPT !.zone_free = Tail(@)], z, use)
<1>4. kept = [g EXCEPT !.zone_array = lists2, !.zone_free = free2, !.zone = zone2]
  <2>1. kept = [g EXCEPT !.zone_array = [g.zone_array EXCEPT ![c] = RemoveFirst(@, z)],
                         !.zone_free = <<z>> \o g.zone_free, !.zone = [g.zone EXCEPT ![z] = NoZone]]
    BY <1>1 DEF HeapData
  <2> QED BY <1>3, <2>1
<1>5. PICK e \in HeapData :
        /\ e = kept /\ e.page_list = g.page_list /\ e.memusage = g.memusage
        /\ e.zone = [g.zone EXCEPT ![z] = NoZone] /\ e.zone_array = [g.zone_array EXCEPT ![c] = RemoveFirst(@, z)]
        /\ e.zone_free = <<z>> \o g.zone_free /\ e.used = g.used /\ e.LIVE = g.LIVE
  <2>1. PICK e : e = kept
    OBVIOUS
  <2>2. e = [g EXCEPT !.zone_array = lists2, !.zone_free = free2, !.zone = zone2]
    BY <1>4, <2>1
  <2> HIDE DEF kept
  <2>3. /\ e \in HeapData /\ e.page_list = g.page_list /\ e.memusage = g.memusage /\ e.zone = zone2
        /\ e.zone_array = lists2 /\ e.zone_free = free2 /\ e.used = g.used /\ e.LIVE = g.LIVE
    BY <1>1, <2>2 DEF HeapData
  <2> QED BY <1>3, <2>1, <2>3
<1>6. FreeZone(g, z) = IF g.zone[z].nfree # NMax[c] \/ Len(g.zone_array[c]) = 1 THEN g
                       ELSE IF Len(e.zone_free) > ReleaseThresh THEN page_free(gone, z, ZonePages)
                       ELSE e
  BY <1>2, <1>5 DEF FreeZone
<1> HIDE DEF kept
<1>7. CASE g.zone[z].nfree # NMax[c] \/ Len(g.zone_array[c]) = 1
  BY <1>6, <1>7
<1>8. CASE ~(g.zone[z].nfree # NMax[c] \/ Len(g.zone_array[c]) = 1)
  <2>1. g.zone[z].nfree = NMax[c]
    BY <1>8
  <2>2. \A b \in g.LIVE : b.kind = "small" => b.at # z
    BY <1>2, <2>1, EmptyZone
  <2>3. SlabInv(e)
    <3>1. KeepsZone(g, e, z)
      BY <1>2, <1>5 DEF KeepsZone
    <3> QED BY <2>2, <3>1, ZoneKept
  <2>4. CASE ~(Len(e.zone_free) > ReleaseThresh)
    BY <1>6, <1>8, <2>3, <2>4
  <2>5. CASE Len(e.zone_free) > ReleaseThresh
    <3>1. PICK mem \in [Pages -> Usage] :
            /\ mem = [p \in Pages |-> IF p \in FirstN(z, ZonePages) THEN use[p - z] ELSE e.memusage[p]]
            /\ \A p \in Pages : p \notin FirstN(z, ZonePages) => mem[p] = g.memusage[p]
      <4>1. ASSUME NEW p \in Pages, p \in FirstN(z, ZonePages) PROVE use[p - z] \in Usage
        <5>1. p - z \in 0 .. ZonePages - 1
          BY <1>1, <4>1, SlabAssumption DEF FirstN, Pages
        <5> QED BY <5>1 DEF Usage
      <4> HIDE DEF use
      <4>2. \A p \in Pages : e.memusage[p] \in Usage /\ e.memusage[p] = g.memusage[p]
        BY <1>1, <1>5
      <4>3. PICK mem : mem = [p \in Pages |-> IF p \in FirstN(z, ZonePages) THEN use[p - z] ELSE e.memusage[p]]
        OBVIOUS
      <4>4. mem \in [Pages -> Usage]
        BY <4>1, <4>2, <4>3
      <4>5. \A p \in Pages : p \notin FirstN(z, ZonePages) => mem[p] = g.memusage[p]
        BY <4>2, <4>3
      <4> QED BY <4>3, <4>4, <4>5
    <3> HIDE DEF use
    <3>2. gone = [e EXCEPT !.zone_free = g.zone_free, !.memusage = mem]
      <4>1. PICK g1 : g1 = [e EXCEPT !.zone_free = g.zone_free] /\ g1.memusage = e.memusage
        <5>1. [e EXCEPT !.zone_free = g.zone_free].memusage = e.memusage
          BY DEF HeapData
        <5> QED BY <5>1
      <4>2. [kept EXCEPT !.zone_free = Tail(@)] = g1
        BY <1>3, <1>5, <4>1
      <4>3. gone = [g1 EXCEPT !.memusage = [p \in Pages |-> IF p \in FirstN(z, ZonePages)
                                                            THEN use[p - z] ELSE g1.memusage[p]]]
        BY <4>2 DEF Memusage
      <4> QED BY <3>1, <4>1, <4>3
    <3>3. gone.page_list = g.page_list
      BY <1>5, <3>2 DEF HeapData
    <3>4. PICK r : r = ZoneRegion(z) /\ r.at = z /\ r.page = ZonePages /\ r \in Taken(g) /\ RegionFits(r)
      <4>1. ZoneRegion(z) \in Taken(g)
        BY DEF Taken
      <4>2. ZoneRegion(z).at = z /\ ZoneRegion(z).page = ZonePages
        BY DEF ZoneRegion
      <4> QED BY <1>1, <4>1, <4>2 DEF Accounted
    <3>5. \A p \in FirstN(z, ZonePages) : p \notin FreePages(g.page_list)
      <4>1. \A p : p \in FirstN(z, ZonePages) <=> p \in Pages /\ Holds(r, p)
        BY <1>1, <3>4, RegionAt
      <4> QED BY <1>1, <3>4, <4>1 DEF Accounted
    <3> HIDE DEF gone
    <3>6. PICK list : page_free(gone, z, ZonePages) = [gone EXCEPT !.page_list = list]
                      /\ FreesPages(g.page_list, z, ZonePages, list)
      <4>1. z \in Nat \ {0} /\ ZonePages \in Nat \ {0} /\ z + ZonePages <= NPages + 1
        BY <3>4, SlabAssumption DEF RegionFits, Region
      <4>2. RunsOk(gone.page_list)
        BY <1>1, <3>3 DEF Accounted
      <4> QED BY <3>3, <3>5, <4>1, <4>2, PageFree
    <3>7. PICK x \in HeapData :
            /\ x = page_free(gone, z, ZonePages) /\ x.page_list = list /\ x.memusage = mem
            /\ x.zone = e.zone /\ x.zone_array = e.zone_array /\ x.zone_free = g.zone_free
            /\ x.used = e.used /\ x.LIVE = e.LIVE
      <4>1. list \in Seq(Run)
        BY <3>6 DEF FreesPages, RunsOk
      <4> QED BY <1>1, <3>1, <3>2, <3>6, <4>1 DEF HeapData
    <3>8. SlabInv(x)
      <4>1. e.zone_free # <<>> /\ z = Head(e.zone_free) /\ x.zone_free = Tail(e.zone_free)
        BY <1>3, <1>5, <3>7
      <4>2. DropsZone(e, x, z)
        BY <1>5, <3>1, <3>6, <3>7, <4>1 DEF DropsZone
      <4> QED BY <2>3, <4>1, <4>2, ZoneGone
    <3> QED BY <1>6, <1>8, <2>5, <3>7, <3>8
  <2> QED BY <2>4, <2>5
<1> QED BY <1>7, <1>8

-------------------------------------------------------------------------------
(* The operations, each put together from the changes above.                 *)

\* A heap with a zone for a class, and what AllocZone makes of the heap it opens it in.
FirstUsed(c) == [class |-> c, nfree |-> NMax[c] - 1, uindex |-> 0, free |-> <<>>]
WithZone(g, z, c) == [g EXCEPT !.zone = [g.zone EXCEPT ![z] = NewZone(c)],
                               !.zone_array = [g.zone_array EXCEPT ![c] = <<z>> \o @]]
FirstOut(g, z, c) ==
  Gives([g EXCEPT !.zone[z] = FirstUsed(c), !.zone_array[c] = <<z>> \o @], Small(<<z, 0>>, c), ChunkSize[c])

\* The first chunk of a new zone is given out as any other.
LEMMA FirstChunkOut ==
  ASSUME NEW g \in HeapData, NEW z \in Pages, NEW c \in Classes
  PROVE  /\ WithZone(g, z, c) \in HeapData /\ WithZone(g, z, c).page_list = g.page_list
         /\ WithZone(g, z, c).memusage = g.memusage /\ WithZone(g, z, c).zone = [g.zone EXCEPT ![z] = NewZone(c)]
         /\ WithZone(g, z, c).zone_array = [g.zone_array EXCEPT ![c] = <<z>> \o @]
         /\ WithZone(g, z, c).zone_free = g.zone_free /\ WithZone(g, z, c).used = g.used
         /\ WithZone(g, z, c).LIVE = g.LIVE /\ WithZone(g, z, c).zone_array[c] # <<>>
         /\ AllocFrom(WithZone(g, z, c), c) = FirstOut(g, z, c)
<1>1. /\ g.zone \in [Pages -> ZoneData] /\ g.zone_array \in [Classes -> Seq(Pages)]
  BY HeapFields
<1>2. NewZone(c) \in ZoneData /\ FirstUsed(c) \in ZoneData
  <2>1. NMax[c] \in Int /\ NMax[c] - 1 \in Int /\ -1 \in Int
    BY SlabAssumption
  <2> QED BY <2>1 DEF NewZone, FirstUsed, ZoneData
<1>3. PICK list \in Seq(Pages) : list = <<z>> \o g.zone_array[c] /\ list # <<>> /\ Head(list) = z
  <2>1. PICK old \in Seq(Pages) : old = g.zone_array[c]
    BY <1>1
  <2>2. <<z>> \o old \in Seq(Pages) /\ <<z>> \o old # <<>> /\ Head(<<z>> \o old) = z
    OBVIOUS
  <2> QED BY <2>1, <2>2
<1>4. PICK zone2 \in [Pages -> ZoneData], lists2 \in [Classes -> Seq(Pages)] :
        /\ zone2 = [g.zone EXCEPT ![z] = NewZone(c)] /\ lists2 = [g.zone_array EXCEPT ![c] = <<z>> \o @]
        /\ zone2[z] = NewZone(c) /\ lists2[c] = list
  <2>1. PICK zone2 : zone2 = [g.zone EXCEPT ![z] = NewZone(c)]
    OBVIOUS
  <2>2. zone2 \in [Pages -> ZoneData] /\ zone2[z] = NewZone(c)
    BY <1>1, <1>2, <2>1
  <2>3. PICK lists2 : lists2 = [g.zone_array EXCEPT ![c] = list]
    OBVIOUS
  <2>4. lists2 \in [Classes -> Seq(Pages)] /\ lists2[c] = list
    BY <1>1, <2>3
  <2>5. lists2 = [g.zone_array EXCEPT ![c] = <<z>> \o @]
    BY <1>3, <2>3
  <2> QED BY <2>1, <2>2, <2>4, <2>5
<1>5. PICK e : e = WithZone(g, z, c) /\ e = [g EXCEPT !.zone = zone2, !.zone_array = lists2]
  BY <1>4 DEF WithZone
<1>6. /\ e \in HeapData /\ e.page_list = g.page_list /\ e.memusage = g.memusage /\ e.zone = zone2
      /\ e.zone_array = lists2 /\ e.zone_free = g.zone_free /\ e.used = g.used /\ e.LIVE = g.LIVE
  BY <1>5 DEF HeapData
<1>7. AllocFrom(e, c) = FirstOut(g, z, c)
  <2>1. PICK n \in Nat : n = NMax[c] /\ n >= 3
    BY SlabAssumption
  <2>2. /\ NewZone(c).uindex + 1 = 0 /\ NewZone(c).uindex + 1 # NMax[c]
        /\ [NewZone(c) EXCEPT !.nfree = @ - 1, !.uindex = @ + 1, !.free = @] = FirstUsed(c)
    <3>1. -1 + 1 = 0 /\ 0 # n
      BY <2>1
    <3>2. NewZone(c) = [class |-> c, nfree |-> n, uindex |-> -1, free |-> <<>>]
      BY <2>1 DEF NewZone
    <3>3. FirstUsed(c) = [class |-> c, nfree |-> n - 1, uindex |-> 0, free |-> <<>>]
      BY <2>1 DEF FirstUsed
    <3>4. NewZone(c).nfree = n /\ NewZone(c).uindex = -1 /\ NewZone(c).free = <<>>
      BY <3>2
    <3>5. PICK m : m = n - 1
      OBVIOUS
    <3>6. [[class |-> c, nfree |-> n, uindex |-> -1, free |-> <<>>] EXCEPT !.nfree = m, !.uindex = 0, !.free = <<>>] =
            [class |-> c, nfree |-> m, uindex |-> 0, free |-> <<>>]
      <4>1. PICK none : none = <<>>
        OBVIOUS
      <4>2. [[class |-> c, nfree |-> n, uindex |-> -1, free |-> none] EXCEPT !.nfree = m] =
              [class |-> c, nfree |-> m, uindex |-> -1, free |-> none]
        OBVIOUS
      <4>3. [[class |-> c, nfree |-> m, uindex |-> -1, free |-> none] EXCEPT !.uindex = 0] =
              [class |-> c, nfree |-> m, uindex |-> 0, free |-> none]
        OBVIOUS
      <4>4. [[class |-> c, nfree |-> m, uindex |-> 0, free |-> none] EXCEPT !.free = none] =
              [class |-> c, nfree |-> m, uindex |-> 0, free |-> none]
        OBVIOUS
      <4> QED BY <4>1, <4>2, <4>3, <4>4
    <3>7. [NewZone(c) EXCEPT !.nfree = m, !.uindex = 0, !.free = <<>>] = FirstUsed(c)
      BY <3>2, <3>3, <3>5, <3>6
    <3>8. [NewZone(c) EXCEPT !.nfree = @ - 1, !.uindex = @ + 1, !.free = @] =
            [NewZone(c) EXCEPT !.nfree = m, !.uindex = 0, !.free = <<>>]
      BY <3>1, <3>4, <3>5
    <3> QED BY <2>1, <3>1, <3>4, <3>7, <3>8
  <2>3. FirstUsed(c).nfree # 0
    BY <2>1 DEF FirstUsed
  <2>4. AllocFrom(e, c) = Gives([e EXCEPT !.zone[z] = FirstUsed(c), !.zone_array[c] = @],
                                Small(<<z, 0>>, c), ChunkSize[c])
    <3>1. Head(e.zone_array[c]) = z /\ e.zone[z] = NewZone(c)
      BY <1>3, <1>4, <1>6
    <3> QED BY <2>2, <2>3, <3>1 DEF AllocFrom
  <2>5. [e EXCEPT !.zone[z] = FirstUsed(c), !.zone_array[c] = @] =
          [g EXCEPT !.zone[z] = FirstUsed(c), !.zone_array[c] = <<z>> \o @]
    <3>1. PICK zone3, lists3 : /\ zone3 = [g.zone EXCEPT ![z] = FirstUsed(c)]
                               /\ lists3 = [g.zone_array EXCEPT ![c] = <<z>> \o @]
      OBVIOUS
    <3>2. [zone2 EXCEPT ![z] = FirstUsed(c)] = zone3
      BY <1>1, <1>4, <3>1
    <3>3. [lists2 EXCEPT ![c] = @] = lists3
      BY <1>1, <1>4, <3>1
    <3>4. [e EXCEPT !.zone[z] = FirstUsed(c), !.zone_array[c] = @] = [e EXCEPT !.zone = zone3, !.zone_array = lists3]
      <4>1. [e EXCEPT !.zone[z] = FirstUsed(c), !.zone_array[c] = @] =
              [e EXCEPT !.zone = [e.zone EXCEPT ![z] = FirstUsed(c)], !.zone_array = [e.zone_array EXCEPT ![c] = @]]
        BY <1>6 DEF HeapData
      <4> QED BY <1>6, <3>2, <3>3, <4>1
    <3>5. [g EXCEPT !.zone[z] = FirstUsed(c), !.zone_array[c] = <<z>> \o @] =
            [g EXCEPT !.zone = zone3, !.zone_array = lists3]
      <4>1. [g EXCEPT !.zone[z] = FirstUsed(c), !.zone_array[c] = <<z>> \o @] =
              [g EXCEPT !.zone = [g.zone EXCEPT ![z] = FirstUsed(c)],
                        !.zone_array = [g.zone_array EXCEPT ![c] = <<z>> \o @]]
        BY DEF HeapData
      <4> QED BY <3>1, <4>1
    <3>6. [e EXCEPT !.zone = zone3, !.zone_array = lists3] = [g EXCEPT !.zone = zone3, !.zone_array = lists3]
      BY <1>5 DEF HeapData
    <3> QED BY <3>4, <3>5, <3>6
  <2> QED BY <2>4, <2>5 DEF FirstOut
<1> QED BY <1>3, <1>4, <1>5, <1>6, <1>7

\* A chunk is given out from a new zone.
LEMMA ZoneGiven ==
  ASSUME NEW g, SlabInv(g), NEW c \in Classes
  PROVE  SlabInv(AllocZone(g, c).g) /\ g.LIVE \subseteq AllocZone(g, c).g.LIVE
<1>1. g \in HeapData /\ g.zone_free \in Seq(Pages) /\ RunsOk(g.page_list)
  BY HeapFields DEF SlabInv, Accounted
<1>2. CASE g.zone_free # <<>>
  <2>1. PICK z \in Pages : z = Head(g.zone_free) /\ z # Nowhere
    <3>1. Head(g.zone_free) \in Pages
      BY <1>1, <1>2
    <3> QED BY <3>1 DEF Pages, Nowhere
  <2>2. PICK g1 \in HeapData :
          /\ g1 = [g EXCEPT !.zone_free = Tail(@)] /\ g1.page_list = g.page_list /\ g1.memusage = g.memusage
          /\ g1.zone = g.zone /\ g1.zone_array = g.zone_array /\ g1.zone_free = Tail(g.zone_free)
          /\ g1.used = g.used /\ g1.LIVE = g.LIVE
    <3>1. PICK rest \in Seq(Pages) : rest = Tail(g.zone_free)
      BY <1>1, <1>2, HeadTailProperties
    <3>2. PICK g1 : g1 = [g EXCEPT !.zone_free = rest]
      OBVIOUS
    <3>3. /\ g1 \in HeapData /\ g1.page_list = g.page_list /\ g1.memusage = g.memusage
          /\ g1.zone = g.zone /\ g1.zone_array = g.zone_array /\ g1.zone_free = rest
          /\ g1.used = g.used /\ g1.LIVE = g.LIVE
      BY <1>1, <3>2 DEF HeapData
    <3> QED BY <3>1, <3>2, <3>3
  <2>3. AllocZone(g, c) = FirstOut(g1, z, c)
    BY <1>2, <2>1, <2>2 DEF AllocZone, FirstOut, FirstUsed
  <2>4. PICK x \in HeapData : x = WithZone(g1, z, c) /\ OpensZone(g, x, z, c) /\ x.zone_array[c] # <<>>
                              /\ AllocFrom(x, c) = FirstOut(g1, z, c)
    <3>1. PICK x : x = WithZone(g1, z, c)
      OBVIOUS
    <3>2. /\ x \in HeapData /\ x.page_list = g1.page_list /\ x.memusage = g1.memusage
          /\ x.zone = [g1.zone EXCEPT ![z] = NewZone(c)] /\ x.zone_array = [g1.zone_array EXCEPT ![c] = <<z>> \o @]
          /\ x.zone_free = g1.zone_free /\ x.used = g1.used /\ x.LIVE = g1.LIVE /\ x.zone_array[c] # <<>>
          /\ AllocFrom(x, c) = FirstOut(g1, z, c)
      BY <3>1, FirstChunkOut
    <3>3. OpensZone(g, x, z, c)
      BY <2>1, <2>2, <3>2 DEF OpensZone
    <3> QED BY <3>1, <3>2, <3>3
  <2>5. SlabInv(x)
    BY <1>2, <2>4, ZoneOpens
  <2>6. x.LIVE = g.LIVE
    BY <2>4 DEF OpensZone
  <2> QED BY <2>3, <2>4, <2>5, <2>6, ChunkGiven
<1>3. CASE g.zone_free = <<>>
  <2>1. PICK list, run : run = page_alloc(g, ZonePages) /\ AllocatesPages(g, ZonePages, run, list)
    BY <1>1, SlabAssumption, PageAlloc
  <2>2. CASE run = [g |-> g, at |-> Nowhere]
    <3>1. AllocZone(g, c) = [g |-> g, b |-> Nothing]
      BY <1>3, <2>1, <2>2 DEF AllocZone
    <3> QED BY <3>1
  <2>3. CASE run # [g |-> g, at |-> Nowhere]
    <3>1. PICK at \in Nat \ {0} :
            /\ at + ZonePages <= NPages + 1 /\ run = [g |-> [g EXCEPT !.page_list = list], at |-> at]
            /\ RunsOk(list)
            /\ \A p \in Pages :
                 /\ p \in FirstN(at, ZonePages) => p \in FreePages(g.page_list)
                 /\ p \in FreePages(list) <=> p \in FreePages(g.page_list) /\ p \notin FirstN(at, ZonePages)
      BY <2>1, <2>3 DEF AllocatesPages
    <3>2. at \in Pages /\ at # Nowhere /\ run.at = at /\ run.g = [g EXCEPT !.page_list = list]
      BY <3>1, SlabAssumption DEF Pages, Nowhere
    <3>3. PICK use : use = [off \in 0 .. ZonePages - 1 |-> [type |-> "SMALL", size |-> off]]
      OBVIOUS
    <3>4. PICK mem \in [Pages -> Usage] :
            /\ mem = [p \in Pages |-> IF p \in FirstN(at, ZonePages) THEN use[p - at] ELSE g.memusage[p]]
            /\ \A p \in Pages : mem[p] = IF p \in FirstN(at, ZonePages) THEN [type |-> "SMALL", size |-> p - at]
                                         ELSE g.memusage[p]
      <4>1. ASSUME NEW p \in Pages, p \in FirstN(at, ZonePages)
            PROVE  use[p - at] = [type |-> "SMALL", size |-> p - at] /\ use[p - at] \in Usage
        <5>1. p - at \in 0 .. ZonePages - 1
          BY <3>2, <4>1, SlabAssumption DEF FirstN, Pages
        <5> QED BY <3>3, <5>1 DEF Usage
      <4>2. \A p \in Pages : g.memusage[p] \in Usage
        BY <1>1 DEF HeapData
      <4>3. PICK mem : mem = [p \in Pages |-> IF p \in FirstN(at, ZonePages) THEN use[p - at] ELSE g.memusage[p]]
        OBVIOUS
      <4>4. mem \in [Pages -> Usage]
        BY <4>1, <4>2, <4>3
      <4>5. \A p \in Pages : mem[p] = IF p \in FirstN(at, ZonePages) THEN [type |-> "SMALL", size |-> p - at]
                                      ELSE g.memusage[p]
        BY <4>1, <4>3
      <4> QED BY <4>3, <4>4, <4>5
    <3>5. list \in Seq(Run) /\ <<at>> \in Seq(Pages)
      BY <3>1, <3>2 DEF RunsOk
    <3>6. Memusage(run.g, at, use) = [g EXCEPT !.page_list = list, !.memusage = mem]
      <4>1. PICK g1 : g1 = run.g /\ g1 = [g EXCEPT !.page_list = list] /\ g1.memusage = g.memusage
        <5>1. [g EXCEPT !.page_list = list].memusage = g.memusage
          BY <1>1 DEF HeapData
        <5> QED BY <3>2, <5>1
      <4>2. Memusage(g1, at, use) = [g1 EXCEPT !.memusage = mem]
        BY <3>4, <4>1 DEF Memusage
      <4> QED BY <4>1, <4>2
    <3>7. PICK g1 \in HeapData :
            /\ g1 = Memusage(run.g, at, use) /\ g1.page_list = list /\ g1.memusage = mem
            /\ g1.zone = g.zone /\ g1.zone_array = g.zone_array /\ g1.zone_free = <<>>
            /\ g1.used = g.used /\ g1.LIVE = g.LIVE
      BY <1>1, <1>3, <3>5, <3>6 DEF HeapData
    <3>8. AllocZone(g, c) = FirstOut(g1, at, c)
      BY <1>3, <2>1, <3>2, <3>3, <3>7 DEF AllocZone, FirstOut, FirstUsed
    <3>9. PICK y \in HeapData :
            /\ y.page_list = list /\ y.memusage = mem /\ y.zone = g.zone /\ y.zone_array = g.zone_array
            /\ y.zone_free = <<at>> /\ y.used = g.used /\ y.LIVE = g.LIVE
      <4>1. PICK y : y = [g1 EXCEPT !.zone_free = <<at>>]
        OBVIOUS
      <4>2. /\ y \in HeapData /\ y.page_list = g1.page_list /\ y.memusage = g1.memusage /\ y.zone = g1.zone
            /\ y.zone_array = g1.zone_array /\ y.zone_free = <<at>> /\ y.used = g1.used /\ y.LIVE = g1.LIVE
        BY <3>5, <4>1 DEF HeapData
      <4> QED BY <3>7, <4>2
    <3>10. SlabInv(y)
      <4>1. <<at>> = <<at>> \o g.zone_free
        BY <1>3, <3>5
      <4>2. AddsZone(g, y, at)
        BY <3>1, <3>4, <3>9, <4>1 DEF AddsZone
      <4> QED BY <4>2, ZoneComes
    <3>11. PICK x \in HeapData :
             OpensZone(y, x, at, c) /\ x.zone_array[c] # <<>> /\ AllocFrom(x, c) = FirstOut(g1, at, c)
      <4>1. PICK x : x = WithZone(g1, at, c)
        OBVIOUS
      <4>2. /\ x \in HeapData /\ x.page_list = g1.page_list /\ x.memusage = g1.memusage
            /\ x.zone = [g1.zone EXCEPT ![at] = NewZone(c)] /\ x.zone_array = [g1.zone_array EXCEPT ![c] = <<at>> \o @]
            /\ x.zone_free = g1.zone_free /\ x.used = g1.used /\ x.LIVE = g1.LIVE /\ x.zone_array[c] # <<>>
            /\ AllocFrom(x, c) = FirstOut(g1, at, c)
        BY <3>2, <4>1, FirstChunkOut
      <4>3. Head(<<at>>) = at /\ Tail(<<at>>) = <<>>
        OBVIOUS
      <4>4. OpensZone(y, x, at, c)
        BY <3>7, <3>9, <4>2, <4>3 DEF OpensZone
      <4> QED BY <4>2, <4>4
    <3>12. SlabInv(x)
      <4>1. y.zone_free # <<>>
        BY <3>9
      <4> QED BY <3>10, <3>11, <4>1, ZoneOpens
    <3>13. x.LIVE = g.LIVE
      BY <3>9, <3>11 DEF OpensZone
    <3> QED BY <3>8, <3>11, <3>12, <3>13, ChunkGiven
  <2> QED BY <2>2, <2>3
<1> QED BY <1>2, <1>3

\* Products of numbers are in the order of the numbers.
LEMMA TimesMono ==
  ASSUME NEW x \in Nat, NEW y \in Nat, NEW v \in Nat, x <= y
  PROVE  x * v <= y * v
<1>1. PICK d \in Nat : y = x + d
  <2>1. y - x \in Nat /\ y = x + (y - x)
    OBVIOUS
  <2> QED BY <2>1
<1>2. y * v = x * v + d * v /\ d * v \in Nat /\ x * v \in Nat
  BY <1>1
<1> QED BY <1>2

\* A chunk begins in a page of its zone.
LEMMA DivLess ==
  ASSUME NEW k \in Nat, NEW n \in Nat, NEW v \in Nat, k < n, v > 0
  PROVE  (k * v) \div n \in 0 .. v - 1
<1>1. PICK q \in Int : q = (k * v) \div n
  OBVIOUS
<1>2. PICK x \in Nat : x = k * v
  OBVIOUS
<1>3. n * q <= x /\ q \in Nat
  BY <1>1, <1>2
<1>4. ASSUME q >= v PROVE FALSE
  <2>1. v * n <= q * n
    BY <1>3, <1>4, TimesMono
  <2>2. (k + 1) * v <= n * v
    BY TimesMono
  <2>3. (k + 1) * v = x + v
    BY <1>2
  <2>4. n * v = v * n /\ q * n = n * q
    BY <1>3
  <2>5. PICK a \in Int, b \in Int : a = n * v /\ b = n * q
    BY <1>3
  <2> QED BY <1>3, <2>1, <2>2, <2>3, <2>4, <2>5
<1> QED BY <1>1, <1>3, <1>4

\* The page that a block begins in leads back to it.
LEMMA PageOf ==
  ASSUME NEW g, SlabInv(g), NEW b \in g.LIVE
  PROVE  IF b.kind = "large" THEN Page(b) = b.at /\ g.memusage[Page(b)] = [type |-> "LARGE", size |-> b.size]
         ELSE /\ b.kind = "small" /\ Page(b) \in FirstN(b.at, ZonePages)
              /\ g.memusage[Page(b)] = [type |-> "SMALL", size |-> Page(b) - b.at]
<1>1. CASE b.kind = "large"
  BY <1>1 DEF Page, SlabInv, MarksOk
<1>2. CASE b.kind # "large"
  <2>1. b \in HeapBlock /\ g \in HeapData
    BY DEF SlabInv, HeapData
  <2>2. b.kind = "small" /\ b.at \in Pages /\ ChunkOk(g, b) /\ b.size \in Classes
    BY <1>2, <2>1 DEF HeapBlock, SlabInv
  <2>3. PICK k \in Nat, n \in Nat, v \in Nat, z \in Nat :
          k = b.chunk /\ n = NMax[b.size] /\ v = ZonePages /\ z = b.at /\ k < n /\ v > 0
    <3>1. NMax[b.size] \in Nat /\ ZonePages \in Nat /\ ZonePages > 0 /\ b.at \in Nat
      BY <2>2, SlabAssumption DEF Pages
    <3>2. b.chunk \in 0 .. NMax[b.size] - 1
      BY <2>2 DEF ChunkOk
    <3> QED BY <3>1, <3>2
  <2>4. PICK q \in 0 .. v - 1 : q = (k * v) \div n
    BY <2>3, DivLess
  <2>5. Page(b) = z + q
    BY <1>2, <2>3, <2>4 DEF Page
  <2>6. z + q \in FirstN(z, v)
    BY <2>3, <2>4 DEF FirstN
  <2>7. b.at \in InUse(g)
    BY <2>2 DEF ChunkOk, InUse
  <2>8. Page(b) \in FirstN(b.at, ZonePages)
    BY <2>3, <2>5, <2>6
  <2>9. g.memusage[Page(b)] = [type |-> "SMALL", size |-> Page(b) - b.at]
    BY <2>7, <2>8 DEF SlabInv, MarksOk
  <2> QED BY <1>2, <2>2, <2>8, <2>9
<1> QED BY <1>1, <1>2

\* What rt_malloc does to the heap, whatever is asked for.
LEMMA SlabAllocInv ==
  ASSUME NEW g, SlabInv(g), NEW req \in Requests
  PROVE  SlabInv(rt_slab_alloc(g, req).g) /\ g.LIVE \subseteq rt_slab_alloc(g, req).g.LIVE
<1>1. CASE req.kind = "large"
  <2>1. req.size \in Nat \ {0}
    BY <1>1, SlabAssumption DEF Requests
  <2> QED BY <1>1, <2>1, LargeGiven DEF rt_slab_alloc
<1>2. CASE req.kind # "large"
  <2>1. req.size \in Classes
    BY <1>2 DEF Requests
  <2>2. CASE g.zone_array[req.size] # <<>>
    BY <1>2, <2>1, <2>2, ChunkGiven DEF rt_slab_alloc
  <2>3. CASE g.zone_array[req.size] = <<>>
    BY <1>2, <2>1, <2>3, ZoneGiven DEF rt_slab_alloc
  <2> QED BY <2>2, <2>3
<1> QED BY <1>1, <1>2

\* A chunk given back, for the zone that its page says.
FreedAt(g, chunk, z) ==
  LET zone == g.zone[z]
      c == zone.class
      left == [zone EXCEPT !.free = <<chunk>> \o @, !.nfree = @ + 1]
      g1 == [g EXCEPT !.zone[z] = left,
                      !.used = @ - ChunkSize[c],
                      !.zone_array[c] = IF zone.nfree = 0 THEN <<z>> \o @ ELSE @]
  IN FreeZone(g1, z)

\* What rt_free does to it, for any live block.
LEMMA SlabFreeInv ==
  ASSUME NEW g, SlabInv(g), NEW b \in g.LIVE
  PROVE  SlabInv(rt_slab_free(g, b))
<1>1. CASE b.kind = "large"
  <2>1. Page(b) = b.at /\ g.memusage[Page(b)].type = "LARGE"
    <3>1. Page(b) = b.at /\ g.memusage[Page(b)] = [type |-> "LARGE", size |-> b.size]
      BY <1>1, PageOf
    <3> QED BY <3>1
  <2>2. rt_slab_free(g, b) = FreeLarge([g EXCEPT !.LIVE = @ \ {b}], b.at)
    BY <2>1 DEF rt_slab_free
  <2> QED BY <1>1, <2>2, LargeBack
<1>2. CASE b.kind # "large"
  <2>1. PICK z \in Nat, p \in Nat :
          /\ z = b.at /\ p = Page(b) /\ b.kind = "small" /\ g.memusage[p] = [type |-> "SMALL", size |-> p - z]
    <3>1. /\ b.kind = "small" /\ Page(b) \in FirstN(b.at, ZonePages)
          /\ g.memusage[Page(b)] = [type |-> "SMALL", size |-> Page(b) - b.at]
      BY <1>2, PageOf
    <3>2. b.at \in Nat
      BY SlabAssumption DEF SlabInv, HeapData, HeapBlock, Pages
    <3>3. Page(b) \in Nat
      BY <3>1, <3>2, SlabAssumption DEF FirstN
    <3> QED BY <3>1, <3>2, <3>3
  <2>2. g.memusage[p].type # "LARGE" /\ g.memusage[p].size = p - z /\ p - (p - z) = z
    BY <2>1
  <2>3. PICK g1 : g1 = [g EXCEPT !.LIVE = @ \ {b}] /\ g1.memusage = g.memusage /\ g1.zone = g.zone
    <3>1. g \in HeapData
      BY DEF SlabInv
    <3>2. [g EXCEPT !.LIVE = @ \ {b}].memusage = g.memusage /\ [g EXCEPT !.LIVE = @ \ {b}].zone = g.zone
      BY <3>1 DEF HeapData
    <3> QED BY <3>2
  <2>4. rt_slab_free(g, b) = FreeSmall(g1, <<z, b.chunk>>, p)
    BY <2>1, <2>2, <2>3 DEF rt_slab_free
  <2>5. FreeSmall(g1, <<z, b.chunk>>, p) = FreeZone(Returned(g, b), z)
    <3>1. FreeSmall(g1, <<z, b.chunk>>, p) =
            FreeZone([g1 EXCEPT !.zone[z] = TookBack(g.zone[z], z, b.chunk), !.used = @ - ChunkSize[g.zone[z].class],
                                !.zone_array[g.zone[z].class] = IF g.zone[z].nfree = 0 THEN <<z>> \o @ ELSE @], z)
      <4>1. p - g1.memusage[p].size = z
        BY <2>2, <2>3
      <4>2. FreeSmall(g1, <<z, b.chunk>>, p) = FreedAt(g1, <<z, b.chunk>>, p - g1.memusage[p].size)
        BY DEF FreeSmall, FreedAt
      <4>3. FreeSmall(g1, <<z, b.chunk>>, p) = FreedAt(g1, <<z, b.chunk>>, z)
        BY <4>1, <4>2
      <4>4. FreedAt(g1, <<z, b.chunk>>, z) =
              FreeZone([g1 EXCEPT !.zone[z] = [g1.zone[z] EXCEPT !.free = <<<<z, b.chunk>>>> \o @, !.nfree = @ + 1],
                                  !.used = @ - ChunkSize[g1.zone[z].class],
                                  !.zone_array[g1.zone[z].class] = IF g1.zone[z].nfree = 0 THEN <<z>> \o @ ELSE @], z)
        BY DEF FreedAt
      <4>5. [g1.zone[z] EXCEPT !.free = <<<<z, b.chunk>>>> \o @, !.nfree = @ + 1] = TookBack(g1.zone[z], z, b.chunk)
        BY DEF TookBack
      <4>6. FreedAt(g1, <<z, b.chunk>>, z) =
              FreeZone([g1 EXCEPT !.zone[z] = TookBack(g1.zone[z], z, b.chunk), !.used = @ - ChunkSize[g1.zone[z].class],
                                  !.zone_array[g1.zone[z].class] = IF g1.zone[z].nfree = 0 THEN <<z>> \o @ ELSE @], z)
        BY <4>4, <4>5
      <4> QED BY <2>3, <4>3, <4>6
    <3>2. Returned(g, b) =
            [g1 EXCEPT !.zone[z] = TookBack(g.zone[z], z, b.chunk), !.used = @ - ChunkSize[g.zone[z].class],
                       !.zone_array[g.zone[z].class] = IF g.zone[z].nfree = 0 THEN <<z>> \o @ ELSE @]
      BY <2>1, <2>3 DEF Returned
    <3> QED BY <3>1, <3>2
  <2>6. SlabInv(Returned(g, b)) /\ z \in InUse(Returned(g, b))
    BY <2>1, ChunkBack
  <2> QED BY <2>4, <2>5, <2>6, ZoneFreed
<1> QED BY <1>1, <1>2

\* Every operation of the heap keeps it in order.
LEMMA SlabInvStep ==
  ASSUME SlabInv(h), HeapStep
  PROVE  SlabInv(h')
<1>1. CASE rt_malloc
  BY <1>1, SlabAllocInv DEF rt_malloc
<1>2. CASE rt_free
  BY <1>2, SlabFreeInv DEF rt_free
<1>3. CASE rt_realloc
  <2>1. PICK b \in h.LIVE, req \in Requests : h' = rt_slab_realloc(h, b, req)
    BY <1>3 DEF rt_realloc
  <2>2. PICK new : new = rt_slab_alloc(h, req) /\ SlabInv(new.g) /\ b \in new.g.LIVE
    BY <2>1, SlabAllocInv
  <2>3. h' = h \/ h' = rt_slab_free(new.g, b)
    BY <2>1, <2>2 DEF rt_slab_realloc
  <2> QED BY <2>2, <2>3, SlabFreeInv
<1> QED BY <1>1, <1>2, <1>3 DEF HeapStep

-------------------------------------------------------------------------------
(* The heap at the start.                                                    *)

\* The heap before the first page is taken for memusage.
AllFree ==
  [page_list |-> <<[at |-> 1, page |-> NPages]>>, memusage |-> [p \in Pages |-> [type |-> "FREE", size |-> 0]],
   zone |-> [p \in Pages |-> NoZone], zone_array |-> [c \in Classes |-> <<>>], zone_free |-> <<>>,
   used |-> 0, LIVE |-> {}]

\* memusage takes the first page.
LEMMA FirstPage ==
  \E list : /\ HeapObject = [AllFree EXCEPT !.page_list = list] /\ RunsOk(list)
            /\ \A p \in Pages : p \in FreePages(list) <=> p # 1
<1>1. PICK r \in Run : r = [at |-> 1, page |-> NPages] /\ r.at = 1 /\ r.page = NPages /\ RunFits(r)
  <2>1. [at |-> 1, page |-> NPages] \in Run /\ RunFits([at |-> 1, page |-> NPages])
    BY SlabAssumption DEF RunFits, Run
  <2> QED BY <2>1
<1>2. PICK old \in Seq(Run) : old = <<r>> /\ Len(old) = 1 /\ old[1] = r
  <2>1. <<r>> \in Seq(Run) /\ Len(<<r>>) = 1 /\ <<r>>[1] = r
    OBVIOUS
  <2> QED BY <2>1
<1>3. RunsOk(old)
  BY <1>1, <1>2 DEF RunsOk
<1>4. \A p \in Pages : p \in FreePages(old)
  BY <1>1, <1>2, SlabAssumption DEF FreePages, Pages, Holds
<1>5. AllFree.page_list = old
  BY <1>1, <1>2 DEF AllFree
<1>6. PICK list : AllocatesPages(AllFree, 1, page_alloc(AllFree, 1), list)
  BY <1>3, <1>5, PageAlloc
<1>7. page_alloc(AllFree, 1).at = 1
  <2> DEFINE i == SelectInSeq(old, LAMBDA b : b.page >= 1)
             I == {k \in 1 .. Len(old) : old[k].page >= 1}
  <2>1. i = IF I # {} THEN Min(I) ELSE 0
    BY Zenon DEF SelectInSeq
  <2>2. I = {1}
    BY <1>1, <1>2, SlabAssumption
  <2>3. Min({1}) = 1
    <3>1. {1} \in SUBSET Nat /\ {1} # {}
      OBVIOUS
    <3>2. Min({1}) \in {1}
      BY <3>1, MinOf
    <3> QED BY <3>2
  <2>4. i = 1
    BY <2>1, <2>2, <2>3
  <2> HIDE DEF i
  <2>5. page_alloc(AllFree, 1).at = old[i].at
    BY <1>5, <2>4 DEF page_alloc, i
  <2> QED BY <1>1, <1>2, <2>4, <2>5
<1>8. page_alloc(AllFree, 1) # [g |-> AllFree, at |-> Nowhere]
  BY <1>7 DEF Nowhere
<1>9. HeapObject = page_alloc(AllFree, 1).g
  BY DEF HeapObject, AllFree
<1>10. FirstN(1, 1) = {1}
  BY DEF FirstN
<1>11. /\ page_alloc(AllFree, 1).g = [AllFree EXCEPT !.page_list = list] /\ RunsOk(list)
       /\ \A p \in Pages : p \in FreePages(list) <=> p \in FreePages(old) /\ p \notin FirstN(1, 1)
  BY <1>5, <1>6, <1>7, <1>8 DEF AllocatesPages
<1> QED BY <1>4, <1>9, <1>10, <1>11

\* The heap is in order at the start.
LEMMA SlabInvInit == SlabInv(HeapObject)
<1>1. PICK list : /\ HeapObject = [AllFree EXCEPT !.page_list = list] /\ RunsOk(list)
                  /\ \A p \in Pages : p \in FreePages(list) <=> p # 1
  BY FirstPage
<1>20. PICK m \in [Pages -> Usage], zone \in [Pages -> ZoneData], array \in [Classes -> Seq(Pages)] :
        /\ m = [p \in Pages |-> [type |-> "FREE", size |-> 0]] /\ zone = [p \in Pages |-> NoZone]
        /\ array = [c \in Classes |-> <<>>]
  <2>1. [p \in Pages |-> [type |-> "FREE", size |-> 0]] \in [Pages -> Usage]
    BY DEF Usage
  <2>2. [p \in Pages |-> NoZone] \in [Pages -> ZoneData]
    <3>1. NoZone \in ZoneData
      BY DEF NoZone, ZoneData
    <3> QED BY <3>1
  <2>3. [c \in Classes |-> <<>>] \in [Classes -> Seq(Pages)]
    OBVIOUS
  <2> QED BY <2>1, <2>2, <2>3
<1>21. PICK old \in Seq(Run) : old = <<[at |-> 1, page |-> NPages]>>
  <2>1. [at |-> 1, page |-> NPages] \in Run
    BY SlabAssumption DEF Run
  <2>2. <<[at |-> 1, page |-> NPages]>> \in Seq(Run)
    BY <2>1
  <2> QED BY <2>2
<1>22. AllFree = [page_list |-> old, memusage |-> m, zone |-> zone, zone_array |-> array, zone_free |-> <<>>,
                  used |-> 0, LIVE |-> {}]
  BY <1>20, <1>21 DEF AllFree
<1>23. AllFree \in HeapData
  BY <1>22 DEF HeapData
<1>24. PICK e : e = [AllFree EXCEPT !.page_list = list]
  OBVIOUS
<1>3. e \in HeapData
  <2>1. list \in Seq(Run)
    BY <1>1 DEF RunsOk
  <2> QED BY <1>23, <1>24, <2>1 DEF HeapData
<1>25. /\ e.page_list = list /\ e.memusage = AllFree.memusage /\ e.zone = AllFree.zone
       /\ e.zone_array = AllFree.zone_array /\ e.zone_free = AllFree.zone_free /\ e.used = AllFree.used
       /\ e.LIVE = AllFree.LIVE
  BY <1>23, <1>24 DEF HeapData
<1>2. /\ e = HeapObject /\ e.page_list = list
      /\ e.memusage = [p \in Pages |-> [type |-> "FREE", size |-> 0]]
      /\ e.zone = [p \in Pages |-> NoZone] /\ e.zone_array = [c \in Classes |-> <<>>]
      /\ e.zone_free = <<>> /\ e.used = 0 /\ e.LIVE = {}
  <2>1. e = HeapObject
    BY <1>1, <1>24
  <2>2. /\ AllFree.memusage = m /\ AllFree.zone = zone /\ AllFree.zone_array = array
        /\ AllFree.zone_free = <<>> /\ AllFree.used = 0 /\ AllFree.LIVE = {}
    BY <1>22
  <2> QED BY <1>20, <1>25, <2>1, <2>2
<1>4. IsFiniteSet(e.LIVE) /\ Bytes(e.LIVE) = 0
  <2>1. IsFiniteSet({})
    BY FS_EmptySet
  <2>2. PICK f : f = [b \in {} |-> BytesOf(b)]
    OBVIOUS
  <2>3. SumOver(f, {}) = 0
    BY <2>1, SumTakes
  <2> QED BY <1>2, <2>1, <2>2, <2>3 DEF Bytes
<1>5. InUse(e) = {} /\ Members(e.zone_free) = {} /\ IsInjective(e.zone_free)
  <2>1. InUse(e) = {}
    BY <1>2 DEF InUse
  <2>2. Members(<<>>) = {}
    BY DEF Members
  <2>3. IsInjective(<<>>)
    BY DEF IsInjective
  <2> QED BY <1>2, <2>1, <2>2, <2>3
<1>6. Taken(e) = {TableRegion}
  BY <1>2, <1>5 DEF Taken
<1>7. Accounted(list, {TableRegion})
  <2>1. RegionFits(TableRegion)
    BY SlabAssumption DEF RegionFits, Region, TableRegion
  <2>2. \A p \in Pages : Holds(TableRegion, p) <=> p = 1
    BY SlabAssumption DEF Holds, TableRegion, Pages
  <2> QED BY <1>1, <2>1, <2>2 DEF Accounted
<1>8. ASSUME NEW c \in Classes PROVE ListOk(e, c)
  <2>1. e.zone_array[c] = <<>> /\ \A z \in Pages : e.zone[z] = NoZone
    BY <1>2
  <2>2. Members(<<>>) = {} /\ IsInjective(<<>>)
    BY DEF Members, IsInjective
  <2> QED BY <2>1, <2>2 DEF ListOk
<1>9. MarksOk(e)
  BY <1>2, <1>5 DEF MarksOk
<1> QED BY <1>2, <1>3, <1>4, <1>5, <1>6, <1>7, <1>8, <1>9 DEF SlabInv

-------------------------------------------------------------------------------
(* What the invariant says of zones, and of sums and pages.                  *)

\* How many numbers an interval has.
LEMMA IntervalSize ==
  ASSUME NEW x \in Int, NEW y \in Int, x <= y + 1
  PROVE  IsFiniteSet(x .. y) /\ Cardinality(x .. y) = y - x + 1
<1>1. IsFiniteSet(x .. y)
  BY FS_Interval
<1>2. Cardinality(x .. y) = IF x > y THEN 0 ELSE y - x + 1
  BY FS_Interval
<1> QED BY <1>1, <1>2

\* The numbers from one on.
LEMMA CountUpTo ==
  ASSUME NEW len \in Nat
  PROVE  IsFiniteSet(1 .. len) /\ Cardinality(1 .. len) = len
<1>1. 1 <= len + 1 /\ 1 \in Int /\ len \in Int
  OBVIOUS
<1>2. IsFiniteSet(1 .. len) /\ Cardinality(1 .. len) = len - 1 + 1
  BY <1>1, IntervalSize
<1> QED BY <1>2

\* The chunks of a zone after the last used.
LEMMA RestSize ==
  ASSUME NEW n \in Nat, NEW last \in Int, last <= n - 1
  PROVE  IsFiniteSet(last + 1 .. n - 1) /\ Cardinality(last + 1 .. n - 1) = n - 1 - last
<1>1. PICK x \in Int, y \in Int : x = last + 1 /\ y = n - 1 /\ x <= y + 1
  OBVIOUS
<1>2. IsFiniteSet(x .. y) /\ Cardinality(x .. y) = y - x + 1
  BY <1>1, IntervalSize
<1>3. y - x + 1 = n - 1 - last
  BY <1>1
<1> QED BY <1>1, <1>2, <1>3

\* A zone has room, or all of its chunks are used.
LEMMA FullOrRoom ==
  ASSUME NEW len \in Nat, NEW n \in Nat, NEW last \in Int, last <= n - 1, n >= 3,
         NEW m, m = len + n - 1 - last
  PROVE  m > 0 \/ (len = 0 /\ last = n - 1 /\ 0 \in 0 .. n - 1 /\ 0 <= last)
<1> QED OBVIOUS

\* The zones of the lists and of live chunks are the zones in use.
LEMMA ZonesInUse ==
  ASSUME SlabInv(h)
  PROVE  Zones = InUse(h) /\ \A c \in Classes : ZonesOf(c) = Members(h.zone_array[c])
<1>1. \A c \in Classes : ZonesOf(c) = Members(h.zone_array[c])
  BY DEF ZonesOf, Members
<1>2. ASSUME NEW c \in Classes, NEW z \in ZonesOf(c) PROVE z \in InUse(h)
  <2>1. z \in Members(h.zone_array[c]) /\ h.zone_array[c] \in Seq(Pages)
    BY <1>1, <1>2 DEF SlabInv, HeapData
  <2>2. z \in Pages
    BY <2>1 DEF Members
  <2>3. h.zone[z] # NoZone
    BY <2>1, <2>2 DEF SlabInv, ListOk
  <2> QED BY <2>2, <2>3 DEF InUse
<1>3. ASSUME NEW b \in h.LIVE, b.kind = "small" PROVE b.at \in InUse(h)
  <2>1. b.at \in Pages
    BY DEF SlabInv, HeapData, HeapBlock
  <2>2. h.zone[b.at] # NoZone
    BY <1>3 DEF SlabInv, ChunkOk
  <2> QED BY <2>1, <2>2 DEF InUse
<1>4. ASSUME NEW z \in InUse(h) PROVE z \in Zones
  <2>1. ZoneOk(h.zone[z], z, ChunksIn(h.LIVE, z)) /\ z \in Pages /\ h.zone[z] # NoZone
    BY DEF SlabInv, InUse
  <2>2. PICK c \in Classes, n \in Nat, last \in Int, len \in Nat :
          /\ c = h.zone[z].class /\ n = NMax[c] /\ n >= 3 /\ last = h.zone[z].uindex /\ len = Len(h.zone[z].free)
    <3>1. h.zone[z] \in ZoneData
      BY <2>1 DEF SlabInv, HeapData
    <3>2. h.zone[z].uindex \in Int /\ Len(h.zone[z].free) \in Nat
      BY <3>1, LenProperties DEF ZoneData
    <3>3. h.zone[z].class \in Classes
      BY <2>1 DEF ZoneOk
    <3> QED BY <3>2, <3>3, SlabAssumption
  <2>3. h.zone[z].nfree = len + n - 1 - last /\ last <= n - 1
    BY <2>1, <2>2 DEF ZoneOk, ChunksOk
  <2>6. \/ h.zone[z].nfree > 0
        \/ len = 0 /\ last = n - 1 /\ 0 \in 0 .. n - 1 /\ 0 <= last
    BY <2>2, <2>3, FullOrRoom
  <2>4. CASE h.zone[z].nfree > 0
    <3>1. z \in Members(h.zone_array[c])
      BY <2>1, <2>2, <2>4 DEF SlabInv, ListOk
    <3> QED BY <1>1, <2>2, <3>1 DEF Zones
  <2>5. CASE ~(h.zone[z].nfree > 0)
    <3>1. len = 0 /\ last = n - 1 /\ 0 \in 0 .. n - 1 /\ 0 <= last
      BY <2>2, <2>5, <2>6
    <3>2. 0 \in ChunksIn(h.LIVE, z)
      <4>1. \A i \in 1 .. len : FALSE
        BY <3>1
      <4> QED BY <2>1, <2>2, <3>1, <4>1 DEF ZoneOk, ChunksOk
    <3>3. PICK e \in h.LIVE : e.kind = "small" /\ e.at = z
      BY <3>2 DEF ChunksIn
    <3>4. z \in {b.at : b \in {b \in h.LIVE : b.kind = "small"}}
      BY <3>3
    <3> QED BY <3>4 DEF Zones
  <2> QED BY <2>4, <2>5
<1>5. ASSUME NEW z \in Zones PROVE z \in InUse(h)
  <2>1. \/ \E c \in Classes : z \in ZonesOf(c)
        \/ \E b \in h.LIVE : b.kind = "small" /\ z = b.at
    <3>1. \/ z \in UNION {ZonesOf(c) : c \in Classes}
          \/ z \in {b.at : b \in {b \in h.LIVE : b.kind = "small"}}
      BY <1>5 DEF Zones
    <3>2. CASE z \in UNION {ZonesOf(c) : c \in Classes}
      BY <3>2
    <3>3. CASE z \in {b.at : b \in {b \in h.LIVE : b.kind = "small"}}
      BY <3>3
    <3> QED BY <3>1, <3>2, <3>3
  <2> QED BY <1>2, <1>3, <2>1
<1> QED BY <1>1, <1>4, <1>5

\* The chunks of a zone by where they are.
ChunksParted(zone, given) ==
  LET back == {chunk[2] : chunk \in {zone.free[i] : i \in DOMAIN zone.free}}
      fresh == zone.uindex + 1 .. NMax[zone.class] - 1
  IN /\ given \cup back \cup fresh = 0 .. NMax[zone.class] - 1
     /\ given \cap back = {} /\ given \cap fresh = {} /\ back \cap fresh = {}
     /\ Len(zone.free) = Cardinality(back)
     /\ zone.nfree = Cardinality(back \cup fresh)

\* What a zone counts is what its chunks are.
LEMMA ZoneCounts ==
  ASSUME NEW zone \in ZoneData, NEW z, NEW given, ZoneOk(zone, z, given),
         NEW n \in Nat, n = NMax[zone.class], given \subseteq 0 .. n - 1
  PROVE  ChunksParted(zone, given)
<1>1. PICK last \in Int, free \in Seq(Pages \X Nat), len \in Nat :
        /\ last = zone.uindex /\ free = zone.free /\ len = Len(free) /\ DOMAIN free = 1 .. len
  <2>1. zone.uindex \in Int /\ zone.free \in Seq(Pages \X Nat)
    BY DEF ZoneData
  <2> QED BY <2>1, LenProperties
<1>2. /\ last \in -1 .. n - 1 /\ zone.nfree = len + n - 1 - last
      /\ \A i \in 1 .. len : free[i][2] \in 0 .. last
      /\ \A i, j \in 1 .. len : free[i][2] = free[j][2] => i = j
      /\ \A k \in 0 .. n - 1 : k \in given <=> k <= last /\ \A i \in 1 .. len : free[i][2] # k
  BY <1>1 DEF ZoneOk, ChunksOk
<1>3. PICK back : back = {free[i][2] : i \in 1 .. len}
  OBVIOUS
<1>4. {chunk[2] : chunk \in {free[i] : i \in DOMAIN free}} = back
  BY <1>1, <1>3
<1>5. PICK fresh : fresh = last + 1 .. n - 1
  OBVIOUS
<1>6. IsFiniteSet(back) /\ Cardinality(back) = len
  <2> DEFINE f == [i \in 1 .. len |-> free[i][2]]
  <2>1. f \in [1 .. len -> back] /\ \A k \in back : \E i \in 1 .. len : f[i] = k
    BY <1>3
  <2>2. \A i, j \in 1 .. len : f[i] = f[j] => i = j
    BY <1>2
  <2> HIDE DEF f
  <2>3. f \in Surjection(1 .. len, back)
    BY <2>1, Zenon DEF Surjection
  <2>4. f \in Injection(1 .. len, back)
    BY <2>1, <2>2, Zenon DEF Injection, IsInjective
  <2>5. IsFiniteSet(1 .. len) /\ Cardinality(1 .. len) = len
    BY CountUpTo
  <2>6. IsFiniteSet(back) /\ (Cardinality(back) = Cardinality(1 .. len) <=> f \in Injection(1 .. len, back))
    BY <2>3, <2>5, FS_Surjection
  <2> QED BY <2>4, <2>5, <2>6
<1>7. back \subseteq 0 .. last
  BY <1>2, <1>3
<1>8. \A k \in 0 .. n - 1 : k \in given <=> k <= last /\ k \notin back
  BY <1>2, <1>3
<1>9. back \cap fresh = {} /\ given \cap back = {} /\ given \cap fresh = {}
  <2>1. ASSUME NEW k \in back PROVE k \notin fresh
    BY <1>5, <1>7
  <2>2. ASSUME NEW k \in given PROVE k \notin back /\ k <= last
    BY <1>8
  <2>3. ASSUME NEW k \in given PROVE k \notin fresh
    BY <1>5, <2>2
  <2> QED BY <2>1, <2>2, <2>3
<1>10. given \cup back \cup fresh = 0 .. n - 1
  <2>1. \A k : k \in fresh <=> k \in 0 .. n - 1 /\ ~(k <= last)
    BY <1>2, <1>5
  <2>2. \A k \in back : k \in 0 .. n - 1
    BY <1>2, <1>7
  <2>3. \A k \in 0 .. n - 1 : k \in given \/ k \in back \/ k \in fresh
    BY <1>8, <2>1
  <2> QED BY <2>1, <2>2, <2>3
<1>11. Cardinality(back \cup fresh) = len + n - 1 - last
  <2>1. IsFiniteSet(fresh) /\ Cardinality(fresh) = n - 1 - last
    <3>1. last <= n - 1
      BY <1>2
    <3> QED BY <1>5, <3>1, RestSize
  <2>2. Cardinality(back \cup fresh) = Cardinality(back) + Cardinality(fresh) - Cardinality(back \cap fresh)
    BY <1>6, <2>1, FS_Union
  <2>3. Cardinality(back \cap fresh) = 0
    BY <1>9, FS_EmptySet
  <2> QED BY <1>6, <2>1, <2>2, <2>3
<1>12. PICK parts : parts = {chunk[2] : chunk \in {zone.free[i] : i \in DOMAIN zone.free}}
  OBVIOUS
<1>13. parts = back
  BY <1>1, <1>4, <1>12
<1>14. zone.uindex + 1 .. NMax[zone.class] - 1 = fresh
  BY <1>1, <1>5
<1>15. Len(zone.free) = Cardinality(parts) /\ zone.nfree = Cardinality(parts \cup fresh)
  BY <1>1, <1>2, <1>6, <1>11, <1>13
<1>16. given \cup parts \cup fresh = 0 .. NMax[zone.class] - 1
  BY <1>10, <1>13
<1>17. parts \cap fresh = {} /\ given \cap parts = {} /\ given \cap fresh = {}
  BY <1>9, <1>13
<1> QED BY <1>12, <1>14, <1>15, <1>16, <1>17, Zenon DEF ChunksParted

\* The zones are accounted for.
LEMMA InvZones ==
  ASSUME SlabInv(h)
  PROVE  ZonesAccounted
<1>1. Zones = InUse(h) /\ \A c \in Classes : ZonesOf(c) = Members(h.zone_array[c])
  BY ZonesInUse
<1>2. ASSUME NEW z \in InUse(h)
      PROVE  /\ ChunksParted(h.zone[z], ChunksOf(z))
             /\ {c \in Classes : z \in ZonesOf(c)} =
                  IF h.zone[z].nfree > 0 THEN {h.zone[z].class} ELSE {}
  <2>1. ZoneOk(h.zone[z], z, ChunksIn(h.LIVE, z)) /\ z \in Pages /\ h.zone[z] # NoZone /\ h.zone[z] \in ZoneData
    BY DEF SlabInv, InUse, HeapData
  <2>2. h.zone[z].class \in Classes /\ NMax[h.zone[z].class] \in Nat
    BY <2>1, SlabAssumption DEF ZoneOk
  <2>3. ASSUME NEW b \in h.LIVE, b.kind = "small", b.at = z
        PROVE  b.chunk \in 0 .. NMax[h.zone[z].class] - 1
    BY <2>3 DEF SlabInv, ChunkOk
  <2>4. ChunksIn(h.LIVE, z) \subseteq 0 .. NMax[h.zone[z].class] - 1
    BY <2>3 DEF ChunksIn
  <2>5. ChunksParted(h.zone[z], ChunksIn(h.LIVE, z))
    BY <2>1, <2>2, <2>4, ZoneCounts
  <2>6. ChunksOf(z) = ChunksIn(h.LIVE, z)
    BY DEF ChunksOf, ChunksIn
  <2>7. \A c \in Classes : z \in ZonesOf(c) <=> h.zone[z].class = c /\ h.zone[z].nfree > 0
    BY <1>1, <2>1 DEF SlabInv, ListOk
  <2> QED BY <2>2, <2>5, <2>6, <2>7
<1>3. ASSUME NEW z \in Zones
      PROVE  LET zone == h.zone[z]
                 given == ChunksOf(z)
                 back == {chunk[2] : chunk \in {zone.free[i] : i \in DOMAIN zone.free}}
                 fresh == zone.uindex + 1 .. NMax[zone.class] - 1
             IN /\ given \cup back \cup fresh = 0 .. NMax[zone.class] - 1
                /\ given \cap back = {} /\ given \cap fresh = {} /\ back \cap fresh = {}
                /\ Len(zone.free) = Cardinality(back)
                /\ zone.nfree = Cardinality(back \cup fresh)
                /\ {c \in Classes : z \in ZonesOf(c)} = IF zone.nfree > 0 THEN {zone.class} ELSE {}
  <2>1. z \in InUse(h)
    BY <1>1, <1>3
  <2> QED BY <1>2, <2>1, Zenon DEF ChunksParted
<1> QED BY <1>3, Zenon DEF ZonesAccounted

\* The sums of the heap's properties.
UsedBytes == MapThenSumSet(LAMBDA b : IF b.kind = "large" THEN b.size * PageSize
                                      ELSE ChunkSize[b.size], h.LIVE)
LargePages == MapThenSumSet(LAMBDA b : b.size, {b \in h.LIVE : b.kind = "large"})
RunPages == MapThenSumSet(LAMBDA i : h.page_list[i].page, DOMAIN h.page_list)

\* What adds up numbers adds up to SumOver.
LEMMA FoldIsSum ==
  ASSUME NEW f, NEW S, IsFiniteSet(S), NEW g, SumFold(g, f, S, SUBSET S)
  PROVE  g[S] = SumOver(f, S)
<1>10. PICK k : SumsOf(k, f, S)
  BY SumIsFold
<1>1. SumFold(k, f, S, SUBSET S) /\ k[{}] = 0 /\ \A T \in SUBSET S : SumOver(f, T) = k[T]
  BY <1>10 DEF SumsOf
<1>2. S \in SUBSET S
  OBVIOUS
<1>3. g[S] = k[S]
  BY <1>1, <1>2, SumFoldsAgree
<1> QED BY <1>1, <1>2, <1>3

\* The pages of the large blocks.
LEMMA LargesAddUp ==
  ASSUME NEW S, S = {b \in h.LIVE : b.kind = "large"}, IsFiniteSet(S), NEW f, \A b \in S : f[b] = b.size
  PROVE  LargePages = SumOver(f, S)
<1> DEFINE P(r) == r = [I \in SUBSET S |-> IF I = {} THEN 0
                                           ELSE (CHOOSE x \in I : TRUE).size
                                                  + r[I \ {CHOOSE x \in I : TRUE}]]
           g == CHOOSE r : P(r)
<1>2. LargePages = g[S]
  BY Zenon DEF LargePages, MapThenSumSet, MapThenFoldSet
<1>3. \A I \in SUBSET S : I # {} => f[AnyOf(I)] = AnyOf(I).size
  BY DEF AnyOf
<1>4. PICK e : SumFold(e, f, S, SUBSET S)
  BY SumFoldExists
<1>5. e = [I \in SUBSET S |-> IF I = {} THEN 0 ELSE f[AnyOf(I)] + e[I \ {AnyOf(I)}]]
  BY <1>4, Zenon DEF SumFold
<1>6. e = [I \in SUBSET S |-> IF I = {} THEN 0 ELSE AnyOf(I).size + e[I \ {AnyOf(I)}]]
  BY <1>3, <1>5
<1>7. P(e)
  BY <1>6, Zenon DEF AnyOf
<1>8. P(g)
  <2> HIDE DEF P
  <2> QED BY <1>7, Zenon
<1> HIDE DEF g
<1>9. g = [I \in SUBSET S |-> IF I = {} THEN 0 ELSE AnyOf(I).size + g[I \ {AnyOf(I)}]]
  BY <1>8, Zenon DEF AnyOf
<1>10. g = [I \in SUBSET S |-> IF I = {} THEN 0 ELSE f[AnyOf(I)] + g[I \ {AnyOf(I)}]]
  BY <1>3, <1>9
<1>11. SumFold(g, f, S, SUBSET S)
  BY <1>10, Zenon DEF SumFold
<1> QED BY <1>2, <1>11, FoldIsSum

\* The pages of the free runs.
LEMMA RunsAddUp ==
  ASSUME NEW S, S = DOMAIN h.page_list, IsFiniteSet(S), NEW f, \A b \in S : f[b] = h.page_list[b].page
  PROVE  RunPages = SumOver(f, S)
<1> DEFINE P(r) == r = [I \in SUBSET S |-> IF I = {} THEN 0
                                           ELSE h.page_list[CHOOSE x \in I : TRUE].page
                                                  + r[I \ {CHOOSE x \in I : TRUE}]]
           g == CHOOSE r : P(r)
<1>2. RunPages = g[S]
  BY Zenon DEF RunPages, MapThenSumSet, MapThenFoldSet
<1>3. \A I \in SUBSET S : I # {} => f[AnyOf(I)] = h.page_list[AnyOf(I)].page
  BY DEF AnyOf
<1>4. PICK e : SumFold(e, f, S, SUBSET S)
  BY SumFoldExists
<1>5. e = [I \in SUBSET S |-> IF I = {} THEN 0 ELSE f[AnyOf(I)] + e[I \ {AnyOf(I)}]]
  BY <1>4, Zenon DEF SumFold
<1>6. e = [I \in SUBSET S |-> IF I = {} THEN 0 ELSE h.page_list[AnyOf(I)].page + e[I \ {AnyOf(I)}]]
  BY <1>3, <1>5
<1>7. P(e)
  BY <1>6, Zenon DEF AnyOf
<1>8. P(g)
  <2> HIDE DEF P
  <2> QED BY <1>7, Zenon
<1> HIDE DEF g
<1>9. g = [I \in SUBSET S |-> IF I = {} THEN 0 ELSE h.page_list[AnyOf(I)].page + g[I \ {AnyOf(I)}]]
  BY <1>8, Zenon DEF AnyOf
<1>10. g = [I \in SUBSET S |-> IF I = {} THEN 0 ELSE f[AnyOf(I)] + g[I \ {AnyOf(I)}]]
  BY <1>3, <1>9
<1>11. SumFold(g, f, S, SUBSET S)
  BY <1>10, Zenon DEF SumFold
<1> QED BY <1>2, <1>11, FoldIsSum

\* The bytes of all blocks.
LEMMA UsedAddsUp ==
  ASSUME NEW S, S = h.LIVE, IsFiniteSet(S), NEW f, \A b \in S : f[b] = BytesOf(b)
  PROVE  UsedBytes = SumOver(f, S)
<1> DEFINE P(r) == r = [I \in SUBSET S |-> IF I = {} THEN 0
                                           ELSE BytesOf(CHOOSE x \in I : TRUE)
                                                  + r[I \ {CHOOSE x \in I : TRUE}]]
           g == CHOOSE r : P(r)
<1>2. UsedBytes = g[S]
  BY Zenon DEF UsedBytes, MapThenSumSet, MapThenFoldSet, BytesOf
<1>3. \A I \in SUBSET S : I # {} => f[AnyOf(I)] = BytesOf(AnyOf(I))
  BY DEF AnyOf
<1>4. PICK e : SumFold(e, f, S, SUBSET S)
  BY SumFoldExists
<1>5. e = [I \in SUBSET S |-> IF I = {} THEN 0 ELSE f[AnyOf(I)] + e[I \ {AnyOf(I)}]]
  BY <1>4, Zenon DEF SumFold
<1>6. e = [I \in SUBSET S |-> IF I = {} THEN 0 ELSE BytesOf(AnyOf(I)) + e[I \ {AnyOf(I)}]]
  BY <1>3, <1>5
<1>7. P(e)
  BY <1>6, Zenon DEF AnyOf
<1>8. P(g)
  <2> HIDE DEF P
  <2> QED BY <1>7, Zenon
<1> HIDE DEF g
<1>9. g = [I \in SUBSET S |-> IF I = {} THEN 0 ELSE BytesOf(AnyOf(I)) + g[I \ {AnyOf(I)}]]
  BY <1>8, Zenon DEF AnyOf
<1>10. g = [I \in SUBSET S |-> IF I = {} THEN 0 ELSE f[AnyOf(I)] + g[I \ {AnyOf(I)}]]
  BY <1>3, <1>9
<1>11. SumFold(g, f, S, SUBSET S)
  BY <1>10, Zenon DEF SumFold
<1> QED BY <1>2, <1>11, FoldIsSum

\* Sets of known sizes that do not meet.
AllOf(F, S) == UNION {F[x] : x \in S}
SizesApart(F, S, f) ==
  /\ \A x \in S : IsFiniteSet(F[x]) /\ Cardinality(F[x]) = f[x]
  /\ \A x, y \in S : x # y => F[x] \cap F[y] = {}

\* Their sizes add up.
LEMMA DisjointSum ==
  ASSUME NEW S, IsFiniteSet(S), NEW f, NEW F, SizesApart(F, S, f)
  PROVE  IsFiniteSet(AllOf(F, S)) /\ Cardinality(AllOf(F, S)) = SumOver(f, S)
<1>0. /\ \A x \in S : IsFiniteSet(F[x]) /\ Cardinality(F[x]) = f[x]
      /\ \A x, y \in S : x # y => F[x] \cap F[y] = {}
  BY DEF SizesApart
<1>10. PICK g : SumsOf(g, f, S)
  BY SumIsFold
<1>1. SumFold(g, f, S, SUBSET S) /\ g[{}] = 0 /\ \A T \in SUBSET S : SumOver(f, T) = g[T]
  BY <1>10 DEF SumsOf
<1> DEFINE U(I) == AllOf(F, I)
           G == {I \in SUBSET S : IsFiniteSet(U(I)) /\ Cardinality(U(I)) = g[I]}
<1>2. {} \in G
  <2>1. U({}) = {}
    BY DEF AllOf
  <2>2. IsFiniteSet({}) /\ Cardinality({}) = 0
    BY FS_EmptySet
  <2> QED BY <1>1, <2>1, <2>2
<1>3. ASSUME NEW I \in SUBSET S, I # {}, I \ {AnyOf(I)} \in G PROVE I \in G
  <2>1. PICK v \in S : v = AnyOf(I) /\ v \in I
    BY <1>3, OneOut
  <2>2. PICK A, B : A = U(I \ {v}) /\ B = F[v]
    OBVIOUS
  <2>3. U(I) = A \cup B
    BY <2>1, <2>2 DEF AllOf
  <2>4. A \cap B = {}
    BY <1>0, <2>1, <2>2 DEF AllOf
  <2> HIDE DEF U
  <2>5. IsFiniteSet(A) /\ Cardinality(A) = g[I \ {v}]
    BY <1>3, <2>1, <2>2
  <2>6. IsFiniteSet(B) /\ Cardinality(B) = f[v]
    BY <1>0, <2>2
  <2>7. IsFiniteSet(A \cup B) /\ Cardinality(A \cup B) = Cardinality(A) + Cardinality(B) - Cardinality(A \cap B)
    BY <2>5, <2>6, FS_Union
  <2>8. Cardinality(A) \in Nat /\ Cardinality(B) \in Nat
    BY <2>5, <2>6, FS_CardinalityType
  <2>9. Cardinality(A \cap B) = 0
    BY <2>4, FS_EmptySet
  <2>10. Cardinality(A \cup B) = Cardinality(B) + Cardinality(A)
    BY <2>7, <2>8, <2>9
  <2>11. g[I] = f[v] + g[I \ {v}]
    BY <1>1, <1>3, <2>1 DEF SumFold
  <2>12. Cardinality(U(I)) = g[I] /\ IsFiniteSet(U(I))
    BY <2>3, <2>5, <2>6, <2>7, <2>10, <2>11
  <2> QED BY <2>12
<1> HIDE DEF G
<1>4. S \in G
  BY <1>2, <1>3, SetsUp
<1>5. S \in SUBSET S
  OBVIOUS
<1> QED BY <1>1, <1>4, <1>5 DEF G

\* The same number for each element.
LEMMA SumConst ==
  ASSUME NEW S, IsFiniteSet(S), NEW k \in Nat, NEW f, \A x \in S : f[x] = k
  PROVE  SumOver(f, S) = k * Cardinality(S)
<1>10. PICK g : SumsOf(g, f, S)
  BY SumIsFold
<1>1. SumFold(g, f, S, SUBSET S) /\ g[{}] = 0 /\ \A T \in SUBSET S : SumOver(f, T) = g[T]
  BY <1>10 DEF SumsOf
<1> DEFINE G == {I \in SUBSET S : g[I] = k * Cardinality(I)}
<1>2. {} \in G
  <2>1. Cardinality({}) = 0
    BY FS_EmptySet
  <2>2. k * 0 = 0
    OBVIOUS
  <2> QED BY <1>1, <2>1, <2>2
<1>3. ASSUME NEW I \in SUBSET S, I # {}, I \ {AnyOf(I)} \in G PROVE I \in G
  <2>1. PICK v \in S : v = AnyOf(I) /\ v \in I
    BY <1>3, OneOut
  <2>2. PICK n \in Int : n = Cardinality(I \ {v}) /\ Cardinality(I) = n + 1
    <3>1. Cardinality(I) \in Nat /\ Cardinality(I \ {v}) = Cardinality(I) - 1
      BY <1>3, <2>1, OneOut
    <3> QED BY <3>1
  <2>3. g[I] = k + k * n
    BY <1>1, <1>3, <2>1, <2>2 DEF SumFold
  <2>4. k + k * n = k * (n + 1)
    OBVIOUS
  <2> QED BY <2>2, <2>3, <2>4
<1> HIDE DEF G
<1>4. S \in G
  BY <1>2, <1>3, SetsUp
<1>5. S \in SUBSET S
  OBVIOUS
<1> QED BY <1>1, <1>4, <1>5 DEF G

\* The pages of a run or a region.
LEMMA PagesOf ==
  ASSUME NEW at \in Nat, NEW n \in Nat
  PROVE  IsFiniteSet(FirstN(at, n)) /\ Cardinality(FirstN(at, n)) = n
<1>1. PICK y \in Int : y = at + n - 1 /\ at <= y + 1 /\ y - at + 1 = n
  OBVIOUS
<1>2. IsFiniteSet(at .. y) /\ Cardinality(at .. y) = y - at + 1
  BY IntervalSize, <1>1
<1> QED BY <1>1, <1>2 DEF FirstN

\* They are the pages from the first to the last.
LEMMA PagesFrom ==
  ASSUME NEW at \in Nat, NEW n \in Nat, 1 <= at, at + n <= NPages + 1
  PROVE  \A p : p \in FirstN(at, n) <=> p \in Pages /\ at <= p /\ p < at + n
<1>1. NPages \in Nat
  BY SlabAssumption
<1>2. \A p : p \in at .. at + n - 1 <=> p \in 1 .. NPages /\ at <= p /\ p < at + n
  BY <1>1
<1> QED BY <1>2 DEF FirstN, Pages

\* The free runs hold as many pages as they say.
RunSets == [i \in DOMAIN h.page_list |-> FirstN(h.page_list[i].at, h.page_list[i].page)]
\* Together they are the free pages.
LEMMA FreeCounted ==
  ASSUME SlabInv(h)
  PROVE  /\ AllOf(RunSets, DOMAIN RunSets) = FreePages(h.page_list)
         /\ IsFiniteSet(FreePages(h.page_list)) /\ RunPages = Cardinality(FreePages(h.page_list))
<1>1. PICK list \in Seq(Run) : list = h.page_list /\ RunsOk(list)
  BY DEF SlabInv, HeapData, Accounted
<1>2. PICK n \in Nat : n = Len(list) /\ DOMAIN list = 1 .. n
  BY LenProperties
<1>3. PICK F : F = [i \in 1 .. n |-> FirstN(list[i].at, list[i].page)]
  OBVIOUS
<1>4. RunSets = F /\ DOMAIN F = 1 .. n
  BY <1>1, <1>2, <1>3 DEF RunSets
<1>5. PICK f : f = [i \in 1 .. n |-> list[i].page]
  OBVIOUS
<1>6. ASSUME NEW i \in 1 .. n
      PROVE  IsFiniteSet(F[i]) /\ Cardinality(F[i]) = f[i] /\ \A p : p \in F[i] <=> p \in Pages /\ Holds(list[i], p)
  <2>1. PICK at \in Nat, page \in Nat : at = list[i].at /\ page = list[i].page /\ 1 <= at /\ at + page <= NPages + 1
    BY <1>1, <1>2 DEF RunsOk, RunFits, Run
  <2>2. F[i] = FirstN(at, page) /\ f[i] = page
    BY <1>3, <1>5, <2>1
  <2>3. \A p : p \in FirstN(at, page) <=> p \in Pages /\ at <= p /\ p < at + page
    BY <2>1, PagesFrom
  <2> QED BY <2>1, <2>2, <2>3, PagesOf DEF Holds
<1>7. ASSUME NEW i \in 1 .. n, NEW j \in 1 .. n, i # j PROVE F[i] \cap F[j] = {}
  BY <1>1, <1>2, <1>6, <1>7, RunsApart
<1>8. IsFiniteSet(1 .. n)
  BY FS_Interval
<1>9. IsFiniteSet(AllOf(F, 1 .. n)) /\ Cardinality(AllOf(F, 1 .. n)) = SumOver(f, 1 .. n)
  <2>1. SizesApart(F, 1 .. n, f)
    BY <1>6, <1>7 DEF SizesApart
  <2> QED BY <1>8, <2>1, DisjointSum
<1>10. AllOf(F, 1 .. n) = FreePages(list)
  BY <1>2, <1>6 DEF FreePages, AllOf
<1>11. RunPages = SumOver(f, 1 .. n)
  <2>1. 1 .. n = DOMAIN h.page_list /\ \A i \in 1 .. n : f[i] = h.page_list[i].page
    BY <1>1, <1>2, <1>5
  <2> QED BY <1>8, <2>1, RunsAddUp
<1> QED BY <1>1, <1>4, <1>9, <1>10, <1>11

\* The large blocks hold as many pages as they say, each its own.
Larges == {b \in h.LIVE : b.kind = "large"}
LargeSets == [b \in Larges |-> FirstN(b.at, b.size)]
\* Together they are the pages that large blocks take.
LEMMA LargesCounted ==
  ASSUME SlabInv(h)
  PROVE  /\ IsFiniteSet(AllOf(LargeSets, Larges)) /\ LargePages = Cardinality(AllOf(LargeSets, Larges))
         /\ \A p : p \in AllOf(LargeSets, Larges)
                     <=> p \in Pages /\ \E b \in Larges : Holds(LargeRegion(b), p)
<1>1. Accounted(h.page_list, Taken(h)) /\ IsFiniteSet(h.LIVE)
  BY DEF SlabInv
<1>2. PICK S : S = Larges /\ S \in SUBSET h.LIVE /\ \A b \in S : b.kind = "large"
  <2>1. Larges \in SUBSET h.LIVE /\ \A b \in Larges : b.kind = "large"
    BY DEF Larges
  <2> QED BY <2>1
<1>3. PICK f : f = [b \in S |-> b.size]
  OBVIOUS
<1>4. PICK F : F = LargeSets
  OBVIOUS
<1>5. ASSUME NEW b \in S
      PROVE  /\ IsFiniteSet(F[b]) /\ Cardinality(F[b]) = f[b]
             /\ \A p : p \in F[b] <=> p \in Pages /\ Holds(LargeRegion(b), p)
  <2>1. PICK r : r = LargeRegion(b) /\ r \in Taken(h) /\ r.at = b.at /\ r.page = b.size
    <3>1. LargeRegion(b) \in Taken(h)
      BY <1>2, InvParts
    <3>2. LargeRegion(b).at = b.at /\ LargeRegion(b).page = b.size
      BY DEF LargeRegion
    <3> QED BY <3>1, <3>2
  <2>2. RegionFits(r)
    BY <1>1, <2>1 DEF Accounted
  <2>3. F[b] = FirstN(r.at, r.page) /\ f[b] = r.page
    BY <1>2, <1>3, <1>4, <2>1 DEF LargeSets
  <2>4. r.at \in Nat /\ r.page \in Nat
    BY <2>2 DEF RegionFits, Region
  <2>5. IsFiniteSet(F[b]) /\ Cardinality(F[b]) = f[b]
    BY <2>3, <2>4, PagesOf
  <2>6. \A p : p \in F[b] <=> p \in Pages /\ Holds(r, p)
    BY <1>1, <2>1, <2>3, RegionAt
  <2> QED BY <2>1, <2>5, <2>6
<1>6. ASSUME NEW b \in S, NEW c \in S, b # c PROVE F[b] \cap F[c] = {}
  <2> SUFFICES ASSUME NEW p \in F[b], p \in F[c] PROVE FALSE
    OBVIOUS
  <2>1. p \in Pages /\ Holds(LargeRegion(b), p) /\ Holds(LargeRegion(c), p)
    BY <1>5
  <2>2. LargeRegion(b) \in Taken(h) /\ LargeRegion(c) \in Taken(h)
    BY <1>2 DEF Taken
  <2>3. LargeRegion(b) = LargeRegion(c)
    BY <1>1, <2>1, <2>2 DEF Accounted
  <2>4. b.at = c.at
    BY <2>3 DEF LargeRegion
  <2> QED BY <1>2, <1>6, <2>4, LargeApart
<1>7. IsFiniteSet(S)
  BY <1>1, <1>2, FS_Subset
<1>8. SizesApart(F, S, f)
  BY <1>5, <1>6 DEF SizesApart
<1>9. IsFiniteSet(AllOf(F, S)) /\ Cardinality(AllOf(F, S)) = SumOver(f, S)
  BY <1>7, <1>8, DisjointSum
<1>10. LargePages = SumOver(f, S)
  <2>1. S = {b \in h.LIVE : b.kind = "large"}
    BY <1>2 DEF Larges
  <2>2. \A b \in S : f[b] = b.size
    BY <1>3
  <2> QED BY <1>7, <2>1, <2>2, LargesAddUp
<1>11. \A p : p \in AllOf(F, S) <=> p \in Pages /\ \E b \in S : Holds(LargeRegion(b), p)
  BY <1>5 DEF AllOf
<1> QED BY <1>2, <1>4, <1>9, <1>10, <1>11

\* So do the zones, those in use and those kept.
ZonesHeld == InUse(h) \cup Members(h.zone_free)
ZoneSets == [z \in ZonesHeld |-> FirstN(z, ZonePages)]
\* Together they are the pages that zones take.
LEMMA ZonesCounted ==
  ASSUME SlabInv(h)
  PROVE  /\ IsFiniteSet(AllOf(ZoneSets, ZonesHeld))
         /\ ZonePages * (Cardinality(InUse(h)) + Len(h.zone_free)) = Cardinality(AllOf(ZoneSets, ZonesHeld))
         /\ \A p : p \in AllOf(ZoneSets, ZonesHeld)
                     <=> p \in Pages /\ \E z \in ZonesHeld : Holds(ZoneRegion(z), p)
<1>1. Accounted(h.page_list, Taken(h)) /\ h.zone_free \in Seq(Pages)
  BY DEF SlabInv, HeapData
<1>2. PICK S : S = ZonesHeld
  OBVIOUS
<1>3. PICK f : f = [z \in S |-> ZonePages]
  OBVIOUS
<1>4. PICK F : F = ZoneSets
  OBVIOUS
<1>5. ASSUME NEW z \in S
      PROVE  /\ IsFiniteSet(F[z]) /\ Cardinality(F[z]) = f[z]
             /\ \A p : p \in F[z] <=> p \in Pages /\ Holds(ZoneRegion(z), p)
  <2>1. PICK r : r = ZoneRegion(z) /\ r \in Taken(h) /\ r.at = z /\ r.page = ZonePages
    <3>1. ZoneRegion(z) \in Taken(h)
      BY <1>2, InvParts DEF ZonesHeld
    <3>2. ZoneRegion(z).at = z /\ ZoneRegion(z).page = ZonePages
      BY DEF ZoneRegion
    <3> QED BY <3>1, <3>2
  <2>2. RegionFits(r)
    BY <1>1, <2>1 DEF Accounted
  <2>3. F[z] = FirstN(r.at, r.page) /\ f[z] = r.page
    BY <1>2, <1>3, <1>4, <2>1 DEF ZoneSets
  <2>4. r.at \in Nat /\ r.page \in Nat
    BY <2>2 DEF RegionFits, Region
  <2>5. IsFiniteSet(F[z]) /\ Cardinality(F[z]) = f[z]
    BY <2>3, <2>4, PagesOf
  <2>6. \A p : p \in F[z] <=> p \in Pages /\ Holds(r, p)
    BY <1>1, <2>1, <2>3, RegionAt
  <2> QED BY <2>1, <2>5, <2>6
<1>6. ASSUME NEW z \in S, NEW x \in S, z # x PROVE F[z] \cap F[x] = {}
  <2> SUFFICES ASSUME NEW p \in F[z], p \in F[x] PROVE FALSE
    OBVIOUS
  <2>1. p \in Pages /\ Holds(ZoneRegion(z), p) /\ Holds(ZoneRegion(x), p)
    BY <1>5
  <2>2. ZoneRegion(z) \in Taken(h) /\ ZoneRegion(x) \in Taken(h)
    BY <1>2 DEF Taken, ZonesHeld
  <2>3. ZoneRegion(z) = ZoneRegion(x)
    BY <1>1, <2>1, <2>2 DEF Accounted
  <2>4. z = x
    BY <2>3 DEF ZoneRegion
  <2> QED BY <1>6, <2>4
<1>7. IsFiniteSet(Members(h.zone_free)) /\ Cardinality(Members(h.zone_free)) = Len(h.zone_free)
  <2>1. PICK list \in Seq(Pages), n \in Nat : /\ list = h.zone_free /\ n = Len(list) /\ DOMAIN list = 1 .. n
                                             /\ IsInjective(list)
    BY <1>1, LenProperties DEF SlabInv
  <2>2. list \in [1 .. n -> Members(list)] /\ \A x \in Members(list) : \E i \in 1 .. n : list[i] = x
    BY <2>1 DEF Members
  <2>3. list \in Surjection(1 .. n, Members(list))
    BY <2>2, Zenon DEF Surjection
  <2>4. list \in Injection(1 .. n, Members(list))
    BY <2>1, <2>2, Zenon DEF Injection, IsInjective
  <2>5. IsFiniteSet(1 .. n) /\ Cardinality(1 .. n) = n
    BY CountUpTo
  <2>6. /\ IsFiniteSet(Members(list))
        /\ Cardinality(Members(list)) = Cardinality(1 .. n) <=> list \in Injection(1 .. n, Members(list))
    BY <2>3, <2>5, FS_Surjection
  <2> QED BY <2>1, <2>4, <2>5, <2>6
<1>8. IsFiniteSet(InUse(h))
  <2>1. IsFiniteSet(Pages)
    BY SlabAssumption, FS_Interval DEF Pages
  <2>2. InUse(h) \in SUBSET Pages
    BY DEF InUse
  <2> QED BY <2>1, <2>2, FS_Subset
<1>9. IsFiniteSet(S) /\ Cardinality(S) = Cardinality(InUse(h)) + Len(h.zone_free)
  <2>1. InUse(h) \cap Members(h.zone_free) = {}
    BY DEF SlabInv, InUse
  <2>2. /\ IsFiniteSet(S)
        /\ Cardinality(S) = Cardinality(InUse(h)) + Cardinality(Members(h.zone_free))
                              - Cardinality(InUse(h) \cap Members(h.zone_free))
    BY <1>2, <1>7, <1>8, FS_Union DEF ZonesHeld
  <2>3. Cardinality(InUse(h) \cap Members(h.zone_free)) = 0
    BY <2>1, FS_EmptySet
  <2>4. PICK x \in Nat, y \in Nat : x = Cardinality(InUse(h)) /\ y = Cardinality(Members(h.zone_free))
    BY <1>7, <1>8, FS_CardinalityType
  <2>5. Cardinality(S) = x + y - 0
    BY <2>2, <2>3, <2>4
  <2>6. x + y - 0 = x + y
    BY <2>4
  <2> QED BY <1>7, <2>2, <2>4, <2>5, <2>6
<1>10. IsFiniteSet(AllOf(F, S)) /\ Cardinality(AllOf(F, S)) = SumOver(f, S)
  <2>1. SizesApart(F, S, f)
    BY <1>5, <1>6 DEF SizesApart
  <2> QED BY <1>9, <2>1, DisjointSum
<1>11. SumOver(f, S) = ZonePages * Cardinality(S)
  <2>1. ZonePages \in Nat /\ \A z \in S : f[z] = ZonePages
    BY <1>3, SlabAssumption
  <2> QED BY <1>9, <2>1, SumConst
<1>12. \A p : p \in AllOf(F, S) <=> p \in Pages /\ \E z \in S : Holds(ZoneRegion(z), p)
  BY <1>5 DEF AllOf
<1> QED BY <1>2, <1>4, <1>9, <1>10, <1>11, <1>12

\* Two sets that do not meet.
LEMMA ApartSize ==
  ASSUME NEW A, NEW B, IsFiniteSet(A), IsFiniteSet(B), A \cap B = {}
  PROVE  IsFiniteSet(A \cup B) /\ Cardinality(A \cup B) = Cardinality(A) + Cardinality(B)
<1>1. PICK x \in Nat, y \in Nat : x = Cardinality(A) /\ y = Cardinality(B)
  BY FS_CardinalityType
<1>2. IsFiniteSet(A \cup B) /\ Cardinality(A \cup B) = Cardinality(A) + Cardinality(B) - Cardinality(A \cap B)
  BY FS_Union
<1>3. Cardinality(A \cap B) = 0
  BY FS_EmptySet
<1> QED BY <1>1, <1>2, <1>3

\* Every page is counted once.
LEMMA PagesCounted ==
  ASSUME SlabInv(h)
  PROVE  LET L == AllOf(LargeSets, Larges)
             Z == AllOf(ZoneSets, ZonesHeld)
             R == FreePages(h.page_list)
         IN  /\ R \cup {1} \cup L \cup Z = Pages
             /\ 1 + Cardinality(L) + Cardinality(Z) + Cardinality(R) = NPages
<1>1. Accounted(h.page_list, Taken(h))
  BY DEF SlabInv
<1>2. PICK L, Z, R : L = AllOf(LargeSets, Larges) /\ Z = AllOf(ZoneSets, ZonesHeld) /\ R = FreePages(h.page_list)
  OBVIOUS
<1>3. \A p : p \in L <=> p \in Pages /\ \E b \in Larges : Holds(LargeRegion(b), p)
  BY <1>2, LargesCounted
<1>4. \A p : p \in Z <=> p \in Pages /\ \E z \in ZonesHeld : Holds(ZoneRegion(z), p)
  BY <1>2, ZonesCounted
<1>5. 1 \in Pages /\ \A p \in Pages : p = 1 <=> Holds(TableRegion, p)
  <2>1. 1 \in Pages
    BY SlabAssumption DEF Pages
  <2>2. ASSUME NEW p \in Pages PROVE p = 1 <=> Holds(TableRegion, p)
    <3>1. p \in Nat
      BY SlabAssumption DEF Pages
    <3>2. TableRegion.at = 1 /\ TableRegion.page = 1
      BY DEF TableRegion
    <3> QED BY <3>1, <3>2 DEF Holds
  <2> QED BY <2>1, <2>2
<1>6. ASSUME NEW r \in Taken(h)
      PROVE  \/ r = TableRegion
             \/ r.use = "large" /\ \E b \in Larges : r = LargeRegion(b)
             \/ r.use = "zone" /\ \E z \in ZonesHeld : r = ZoneRegion(z)
  BY DEF Taken, LargeRegion, ZoneRegion, Larges, ZonesHeld
<1>7. /\ TableRegion \in Taken(h) /\ TableRegion.use = "table"
      /\ \A b \in Larges : LargeRegion(b) \in Taken(h) /\ LargeRegion(b).use = "large"
      /\ \A z \in ZonesHeld : ZoneRegion(z) \in Taken(h) /\ ZoneRegion(z).use = "zone"
  <2>1. TableRegion \in Taken(h) /\ TableRegion.use = "table"
    BY DEF Taken, TableRegion
  <2>2. \A b \in Larges : LargeRegion(b) \in Taken(h)
    BY InvParts DEF Larges
  <2>3. \A z \in ZonesHeld : ZoneRegion(z) \in Taken(h)
    BY InvParts DEF ZonesHeld
  <2>4. \A b : LargeRegion(b).use = "large" /\ ZoneRegion(b).use = "zone"
    BY DEF LargeRegion, ZoneRegion
  <2> QED BY <2>1, <2>2, <2>3, <2>4
<1>8. \A r, e \in Taken(h) : r.use # e.use => \A p \in Pages : ~(Holds(r, p) /\ Holds(e, p))
  BY <1>1 DEF Accounted
<1>9. R \cap {1} = {} /\ R \cap L = {} /\ R \cap Z = {}
  <2>1. \A p \in R : p \in Pages /\ \A r \in Taken(h) : ~Holds(r, p)
    BY <1>1, <1>2 DEF Accounted, FreePages
  <2> QED BY <1>3, <1>4, <1>5, <1>7, <2>1
<1>10. L \cap {1} = {} /\ Z \cap {1} = {} /\ L \cap Z = {}
  <2>1. ASSUME NEW p \in L PROVE p # 1 /\ p \notin Z
    <3>1. PICK b \in Larges : p \in Pages /\ Holds(LargeRegion(b), p)
      BY <1>3
    <3>2. ~Holds(TableRegion, p)
      BY <1>7, <1>8, <3>1
    <3>3. \A z \in ZonesHeld : ~Holds(ZoneRegion(z), p)
      BY <1>7, <1>8, <3>1
    <3> QED BY <1>4, <1>5, <3>1, <3>2, <3>3
  <2>2. ASSUME NEW p \in Z PROVE p # 1
    <3>1. PICK z \in ZonesHeld : p \in Pages /\ Holds(ZoneRegion(z), p)
      BY <1>4
    <3>2. ~Holds(TableRegion, p)
      BY <1>7, <1>8, <3>1
    <3> QED BY <1>5, <3>1, <3>2
  <2> QED BY <2>1, <2>2
<1>11. R \cup {1} \cup L \cup Z = Pages
  <2>1. ASSUME NEW p \in Pages PROVE p \in R \/ p = 1 \/ p \in L \/ p \in Z
    <3>1. p \in R \/ \E r \in Taken(h) : Holds(r, p)
      BY <1>1, <1>2 DEF Accounted
    <3> QED BY <1>3, <1>4, <1>5, <1>6, <3>1
  <2>2. R \subseteq Pages
    BY <1>2 DEF FreePages
  <2> QED BY <1>3, <1>4, <1>5, <2>1, <2>2
<1>12. IsFiniteSet(R) /\ IsFiniteSet(L) /\ IsFiniteSet(Z) /\ IsFiniteSet({1}) /\ Cardinality({1}) = 1
  BY <1>2, FreeCounted, LargesCounted, ZonesCounted, FS_Singleton
<1>13. Cardinality(R \cup {1}) = Cardinality(R) + 1 /\ IsFiniteSet(R \cup {1})
  BY <1>9, <1>12, ApartSize
<1>14. Cardinality((R \cup {1}) \cup L) = Cardinality(R \cup {1}) + Cardinality(L) /\ IsFiniteSet((R \cup {1}) \cup L)
  <2>1. (R \cup {1}) \cap L = {}
    BY <1>9, <1>10
  <2> QED BY <1>12, <1>13, <2>1, ApartSize
<1>15. Cardinality(((R \cup {1}) \cup L) \cup Z) = Cardinality((R \cup {1}) \cup L) + Cardinality(Z)
  <2>1. ((R \cup {1}) \cup L) \cap Z = {}
    BY <1>9, <1>10
  <2> QED BY <1>12, <1>14, <2>1, ApartSize
<1>16. Cardinality(Pages) = NPages
  BY SlabAssumption, CountUpTo DEF Pages
<1>17. PICK x \in Nat, y \in Nat, z \in Nat : x = Cardinality(R) /\ y = Cardinality(L) /\ z = Cardinality(Z)
  BY <1>12, FS_CardinalityType
<1>18. NPages = ((x + 1) + y) + z
  BY <1>11, <1>13, <1>14, <1>15, <1>16, <1>17
<1>19. 1 + y + z + x = NPages
  BY <1>17, <1>18
<1> QED BY <1>2, <1>11, <1>17, <1>19

\* What the pages say.
LEMMA InvPages ==
  ASSUME SlabInv(h)
  PROVE  PagesAccounted
<1>1. PICK L, Z, R : L = AllOf(LargeSets, Larges) /\ Z = AllOf(ZoneSets, ZonesHeld) /\ R = FreePages(h.page_list)
  OBVIOUS
<1>2. R \cup {1} \cup L \cup Z = Pages /\ 1 + Cardinality(L) + Cardinality(Z) + Cardinality(R) = NPages
  BY <1>1, PagesCounted
<1>3. Zones = InUse(h) /\ Kept = Members(h.zone_free)
  BY ZonesInUse DEF Kept, Members
<1>4. R = UNION {RunSets[i] : i \in DOMAIN RunSets} /\ RunPages = Cardinality(R)
  BY <1>1, FreeCounted DEF AllOf
<1>5. L = UNION {FirstN(b.at, b.size) : b \in Larges} /\ LargePages = Cardinality(L)
  <2>1. L = UNION {LargeSets[b] : b \in Larges}
    BY <1>1 DEF AllOf
  <2>2. \A b \in Larges : LargeSets[b] = FirstN(b.at, b.size)
    BY DEF LargeSets
  <2>3. {LargeSets[b] : b \in Larges} = {FirstN(b.at, b.size) : b \in Larges}
    BY <2>2
  <2> QED BY <1>1, <2>1, <2>3, LargesCounted
<1>6. /\ Z = UNION {FirstN(z, ZonePages) : z \in Zones \cup Kept}
      /\ ZonePages * (Cardinality(Zones) + Len(h.zone_free)) = Cardinality(Z)
  <2>1. Z = UNION {ZoneSets[z] : z \in ZonesHeld}
    BY <1>1 DEF AllOf
  <2>2. \A z \in ZonesHeld : ZoneSets[z] = FirstN(z, ZonePages)
    BY DEF ZoneSets
  <2>3. {ZoneSets[z] : z \in ZonesHeld} = {FirstN(z, ZonePages) : z \in ZonesHeld}
    BY <2>2
  <2>4. ZonesHeld = Zones \cup Kept
    BY <1>3 DEF ZonesHeld
  <2> QED BY <1>1, <1>3, <2>1, <2>3, <2>4, ZonesCounted
<1>7. 1 + (LargePages + ZonePages * (Cardinality(Zones) + Len(h.zone_free))) + RunPages = NPages
  <2>1. IsFiniteSet(L) /\ IsFiniteSet(Z) /\ IsFiniteSet(R)
    BY <1>1, FreeCounted, LargesCounted, ZonesCounted
  <2>2. PICK x \in Nat, y \in Nat, z \in Nat : x = Cardinality(R) /\ y = Cardinality(L) /\ z = Cardinality(Z)
    BY <2>1, FS_CardinalityType
  <2>3. 1 + y + z + x = NPages
    BY <1>2, <2>2
  <2>4. 1 + (y + z) + x = NPages
    BY <2>2, <2>3
  <2> QED BY <1>4, <1>5, <1>6, <2>2, <2>4
<1>8. UNION ({RunSets[i] : i \in DOMAIN RunSets} \cup {{1}} \cup {FirstN(b.at, b.size) : b \in Larges}
             \cup {FirstN(z, ZonePages) : z \in Zones \cup Kept}) = Pages
  <2>1. PICK X, Y, V : /\ X = {RunSets[i] : i \in DOMAIN RunSets} /\ Y = {FirstN(b.at, b.size) : b \in Larges}
                       /\ V = {FirstN(z, ZonePages) : z \in Zones \cup Kept}
    OBVIOUS
  <2>2. R = UNION X /\ L = UNION Y /\ Z = UNION V
    BY <1>4, <1>5, <1>6, <2>1
  <2>3. UNION (X \cup {{1}} \cup Y \cup V) = (UNION X) \cup {1} \cup (UNION Y) \cup (UNION V)
    OBVIOUS
  <2>4. UNION (X \cup {{1}} \cup Y \cup V) = Pages
    BY <1>2, <2>2, <2>3
  <2> QED BY <2>1, <2>4
<1>9. ASSUME NEW i \in 1 .. Len(h.page_list) - 1
      PROVE  h.page_list[i].at + h.page_list[i].page < h.page_list[i + 1].at
  <2>1. RunsOk(h.page_list) /\ h.page_list \in Seq(Run)
    BY DEF SlabInv, Accounted, RunsOk
  <2>2. i \in 1 .. Len(h.page_list) /\ i + 1 \in 1 .. Len(h.page_list) /\ i < i + 1
    <3>1. Len(h.page_list) \in Nat
      BY <2>1, LenProperties
    <3> QED BY <3>1
  <2> QED BY <2>1, <2>2 DEF RunsOk, Before
<1> QED BY <1>7, <1>8, <1>9, Zenon
        DEF PagesAccounted, RunSets, Larges, LargePages, RunPages, MapThenSumSet, MapThenFoldSet

\* What the blocks say.
LEMMA InvFinds ==
  ASSUME SlabInv(h)
  PROVE  FreeFindsOwner
<1>1. ASSUME NEW b \in h.LIVE
      PROVE  IF b.kind = "large" THEN h.memusage[Page(b)] = [type |-> "LARGE", size |-> b.size]
             ELSE /\ h.memusage[Page(b)].type = "SMALL" /\ Page(b) - h.memusage[Page(b)].size = b.at
                  /\ h.zone[b.at].class = b.size
  <2>1. CASE b.kind = "large"
    BY <2>1, PageOf
  <2>2. CASE b.kind # "large"
    <3>1. /\ b.kind = "small" /\ Page(b) \in FirstN(b.at, ZonePages)
          /\ h.memusage[Page(b)] = [type |-> "SMALL", size |-> Page(b) - b.at]
      BY <2>2, PageOf
    <3>2. b.at \in Nat
      BY SlabAssumption DEF SlabInv, HeapData, HeapBlock, Pages
    <3>3. PICK p \in Nat, z \in Nat : p = Page(b) /\ z = b.at
      BY <3>1, <3>2, SlabAssumption DEF FirstN
    <3>4. h.memusage[p].type = "SMALL" /\ h.memusage[p].size = p - z
      BY <3>1, <3>3
    <3>5. p - (p - z) = z
      OBVIOUS
    <3>6. h.zone[b.at].class = b.size
      BY <3>1 DEF SlabInv, ChunkOk
    <3> QED BY <2>2, <3>3, <3>4, <3>5, <3>6
  <2> QED BY <2>1, <2>2
<1>2. h.used = UsedBytes
  <2>1. IsFiniteSet(h.LIVE) /\ h.used = Bytes(h.LIVE)
    BY DEF SlabInv
  <2>2. PICK f : f = [b \in h.LIVE |-> BytesOf(b)]
    OBVIOUS
  <2>3. UsedBytes = SumOver(f, h.LIVE)
    BY <2>1, <2>2, UsedAddsUp
  <2> QED BY <2>1, <2>2, <2>3 DEF Bytes
<1> QED BY <1>1, <1>2, Zenon DEF FreeFindsOwner, UsedBytes, MapThenSumSet, MapThenFoldSet

\* An invariant of the heap at every step, whatever the kernel is of.
LEMMA SlabAlways == Spec => []SlabInv(h)
<1>1. Init => SlabInv(h)
  BY SlabInvInit DEF Init
<1>2. SlabInv(h) /\ [Next]_kernelVars => SlabInv(h)'
  <2> SUFFICES ASSUME SlabInv(h), [Next]_kernelVars PROVE SlabInv(h)'
    OBVIOUS
  <2>1. HeapStep \/ h' = h
    BY DEF Next, kernelVars
  <2> QED BY <2>1, SlabInvStep
<1> QED BY <1>1, <1>2, PTL DEF Spec

\* slab.c: rt_malloc, rt_free and rt_realloc never lose a page or a chunk and never
\* give one out twice, the page of a block leads back to its zone or its size, and
\* the bytes counted as used are those of the live blocks.
THEOREM HeapIsAccounted == Spec => []HeapAccounted
<1>1. SlabInv(h) => HeapAccounted
  BY InvPages, InvZones, InvFinds DEF HeapAccounted
<1> QED BY <1>1, SlabAlways, PTL
===============================================================================
