--------------------------- MODULE RtThreadProofs ---------------------------
(***************************************************************************)
(* Every service of RtThread and of RtIpc leaves the scheduler sound: each *)
(* thread's state, its one place in a list and its timer agree.            *)
(*                                                                         *)
(* The first part is about the sequences the lists are: what taking a      *)
(* thread out, putting one in and listing a set does to the members, and   *)
(* that a fold over a list is reached element by element.  Those facts are *)
(* by induction on the natural numbers, through the well-foundedness of <, *)
(* because a fold is a recursive function of sets of indices.              *)
(*                                                                         *)
(* Sound(z) is the inductive invariant: types, lists without duplicates,   *)
(* and Placed for every thread.  Each service is a function of scheduler   *)
(* records, and each has a lemma that it takes a sound record to a sound   *)
(* one, and what else it leaves as it was.  Between taking a thread out of *)
(* its list and putting it into another the record is SoundBut that thread.*)
(***************************************************************************)
EXTENDS RtKernel, SequenceTheorems, FiniteSetTheorems, WellFoundedInduction,
        NaturalsInduction, TLAPS

FirstOf(seq, e) == SelectInSeq(seq, LAMBDA v : v = e)

\* The least element of a set of numbers.
LEMMA LeastOf ==
  ASSUME NEW I \in SUBSET Nat, I # {}
  PROVE  \E i \in I : \A j \in I : i <= j
<1> DEFINE R == OpToRel(<, Nat)
<1>1. IsWellFoundedOn(R, Nat)
  BY NatLessThanWellFounded, Zenon
<1>2. \A x, y \in Nat : <<y, x>> \in R <=> y < x
  BY Zenon DEF OpToRel
<1> HIDE DEF R
<1>3. \E x \in I : \A y \in I : ~(<<y, x>> \in R)
  BY <1>1, WFMin
<1>4. PICK x \in I : \A y \in I : ~(<<y, x>> \in R)
  BY <1>3
<1>5. ASSUME NEW y \in I PROVE x <= y
  <2>1. x \in Nat /\ y \in Nat
    OBVIOUS
  <2>2. ~(y < x)
    BY <1>2, <1>4, <2>1, Zenon
  <2> QED BY <2>1, <2>2
<1> QED BY <1>5

\* RemoveFirst takes out the element at some position where it is.
LEMMA RemovedAt ==
  ASSUME NEW S, NEW seq \in Seq(S), NEW e, e \in Members(seq)
  PROVE  \E i \in 1 .. Len(seq) : seq[i] = e /\ RemoveFirst(seq, e) = RemoveAt(seq, i)
<1> DEFINE I == {i \in 1 .. Len(seq) : seq[i] = e}
<1>1. I \in SUBSET Nat /\ I # {}
  BY DEF Members
<1>2. PICK i \in I : \A j \in I : i <= j
  BY <1>1, LeastOf
<1>3. Min(I) \in I
  BY <1>2 DEF Min
<1>4. SelectInSeq(seq, LAMBDA v : v = e) = Min(I)
  BY <1>1 DEF SelectInSeq
<1>5. RemoveFirst(seq, e) = RemoveAt(seq, Min(I))
  BY <1>1, <1>4 DEF RemoveFirst
<1> QED BY <1>3, <1>5

\* Induction over the natural numbers, for a set.
LEMMA UpFromZero ==
  ASSUME NEW S \in SUBSET Nat, 0 \in S, \A n \in S : n + 1 \in S
  PROVE  S = Nat
<1> SUFFICES ASSUME Nat \ S # {} PROVE FALSE
  OBVIOUS
<1>1. PICK n \in Nat \ S : \A j \in Nat \ S : n <= j
  BY LeastOf
<1>2. n - 1 \in S
  BY <1>1
<1> QED BY <1>1, <1>2

AnyOf(I) == CHOOSE x \in I : TRUE
UpToSize(S, k) == {I \in SUBSET S : Cardinality(I) <= k}
\* g adds up f over subsets of S.
SumFold(g, f, S, D) == g = [I \in D |-> IF I = {} THEN 0 ELSE f[AnyOf(I)] + g[I \ {AnyOf(I)}]]

\* A set that is not empty, without one of its elements.
LEMMA OneOut ==
  ASSUME NEW S, IsFiniteSet(S), NEW I \in SUBSET S, I # {}
  PROVE  /\ AnyOf(I) \in I /\ I \ {AnyOf(I)} \in SUBSET S /\ IsFiniteSet(I)
              /\ Cardinality(I) \in Nat
         /\ Cardinality(I \ {AnyOf(I)}) = Cardinality(I) - 1
<1>1. AnyOf(I) \in I
  BY DEF AnyOf
<1>2. IsFiniteSet(I)
  BY FS_Subset
<1>3. Cardinality(I \ {AnyOf(I)}) = Cardinality(I) - 1
  BY <1>1, <1>2, FS_RemoveElement
<1> QED BY <1>1, <1>2, <1>3, FS_CardinalityType

\* The recursive function that adds up exists.
LEMMA SumFoldExists ==
  ASSUME NEW f, NEW S, IsFiniteSet(S)
  PROVE  \E g : SumFold(g, f, S, SUBSET S)
<1> DEFINE N == {k \in Nat : \E g : SumFold(g, f, S, UpToSize(S, k))}
<1>1. 0 \in N
  <2>1. PICK D : D = UpToSize(S, 0)
    OBVIOUS
  <2>2. \A I \in D : I = {}
    <3> SUFFICES ASSUME NEW I \in D, I # {} PROVE FALSE
      OBVIOUS
    <3>1. I \in SUBSET S /\ Cardinality(I) <= 0
      BY <2>1 DEF UpToSize
    <3>2. Cardinality(I) \in Nat /\ Cardinality(I \ {AnyOf(I)}) = Cardinality(I) - 1
          /\ IsFiniteSet(I \ {AnyOf(I)})
      BY <3>1, OneOut, FS_Subset
    <3>3. Cardinality(I \ {AnyOf(I)}) \in Nat
      BY <3>2, FS_CardinalityType
    <3> QED BY <3>1, <3>2, <3>3
  <2>3. PICK g : g = [I \in D |-> 0]
    OBVIOUS
  <2>4. g = [I \in D |-> IF I = {} THEN 0 ELSE f[AnyOf(I)] + g[I \ {AnyOf(I)}]]
    BY <2>2, <2>3
  <2>5. SumFold(g, f, S, UpToSize(S, 0))
    BY <2>1, <2>4 DEF SumFold
  <2> QED BY <2>5
<1>2. ASSUME NEW k \in N PROVE k + 1 \in N
  <2>1. PICK g : SumFold(g, f, S, UpToSize(S, k))
    OBVIOUS
  <2>2. PICK D : D = UpToSize(S, k)
    OBVIOUS
  <2>3. PICK E : E = UpToSize(S, k + 1)
    OBVIOUS
  <2>4. g = [I \in D |-> IF I = {} THEN 0 ELSE f[AnyOf(I)] + g[I \ {AnyOf(I)}]]
    BY <2>1, <2>2 DEF SumFold
  <2>5. ASSUME NEW I \in D PROVE I \in E
    <3>1. I \in SUBSET S /\ Cardinality(I) <= k /\ Cardinality(I) \in Nat
      BY <2>2, FS_Subset, FS_CardinalityType DEF UpToSize
    <3>2. Cardinality(I) <= k + 1
      BY <3>1
    <3> QED BY <2>3, <3>1, <3>2 DEF UpToSize
  <2>6. ASSUME NEW I \in E, I # {} PROVE I \ {AnyOf(I)} \in D
    <3>1. I \in SUBSET S /\ Cardinality(I) <= k + 1
      BY <2>3 DEF UpToSize
    <3>2. Cardinality(I) \in Nat /\ Cardinality(I \ {AnyOf(I)}) = Cardinality(I) - 1
          /\ I \ {AnyOf(I)} \in SUBSET S
      BY <2>6, <3>1, OneOut
    <3>3. Cardinality(I \ {AnyOf(I)}) <= k
      BY <3>1, <3>2
    <3> QED BY <2>2, <3>2, <3>3 DEF UpToSize
  <2>7. PICK e : e = [I \in E |-> IF I = {} THEN 0 ELSE f[AnyOf(I)] + g[I \ {AnyOf(I)}]]
    OBVIOUS
  <2>8. \A I \in D : e[I] = g[I]
    BY <2>4, <2>5, <2>7
  <2>9. e = [I \in E |-> IF I = {} THEN 0 ELSE f[AnyOf(I)] + e[I \ {AnyOf(I)}]]
    BY <2>6, <2>7, <2>8
  <2>10. SumFold(e, f, S, UpToSize(S, k + 1))
    BY <2>3, <2>9 DEF SumFold
  <2> QED BY <2>10
<1>3. N \in SUBSET Nat
  OBVIOUS
<1> HIDE DEF N
<1>4. N = Nat
  BY <1>1, <1>2, <1>3, UpFromZero
<1>5. PICK n \in N : n = Cardinality(S)
  BY <1>4, FS_CardinalityType
<1>6. UpToSize(S, n) = SUBSET S
  BY <1>5, FS_Subset DEF UpToSize
<1>7. \E g : SumFold(g, f, S, UpToSize(S, n))
  BY DEF N
<1> QED BY <1>6, <1>7

\* What holds of the empty set and of each set if of the set without an element,
\* holds of all.
LEMMA SetsUp ==
  ASSUME NEW S, IsFiniteSet(S), NEW G, {} \in G,
         \A I \in SUBSET S : I # {} /\ I \ {AnyOf(I)} \in G => I \in G
  PROVE  S \in G
<1> DEFINE N == {k \in Nat : \A I \in SUBSET S : Cardinality(I) <= k => I \in G}
<1>1. 0 \in N
  <2> SUFFICES ASSUME NEW I \in SUBSET S, Cardinality(I) <= 0, I # {} PROVE FALSE
    OBVIOUS
  <2>1. Cardinality(I) \in Nat /\ Cardinality(I \ {AnyOf(I)}) = Cardinality(I) - 1
        /\ IsFiniteSet(I \ {AnyOf(I)})
    BY OneOut, FS_Subset
  <2>2. Cardinality(I \ {AnyOf(I)}) \in Nat
    BY <2>1, FS_CardinalityType
  <2> QED BY <2>1, <2>2
<1>2. ASSUME NEW k \in N PROVE k + 1 \in N
  <2>0. k \in Nat /\ k + 1 \in Nat /\ \A I \in SUBSET S : Cardinality(I) <= k => I \in G
    BY <1>2
  <2> SUFFICES ASSUME NEW I \in SUBSET S, Cardinality(I) <= k + 1, I # {} PROVE I \in G
    BY <2>0
  <2>1. Cardinality(I) \in Nat /\ Cardinality(I \ {AnyOf(I)}) = Cardinality(I) - 1
        /\ I \ {AnyOf(I)} \in SUBSET S
    BY OneOut
  <2>2. Cardinality(I \ {AnyOf(I)}) <= k
    BY <2>0, <2>1
  <2> QED BY <2>0, <2>1, <2>2
<1>3. N \in SUBSET Nat
  OBVIOUS
<1> HIDE DEF N
<1>4. N = Nat
  BY <1>1, <1>2, <1>3, UpFromZero
<1>5. PICK n \in N : n = Cardinality(S)
  BY <1>4, FS_CardinalityType
<1>6. Cardinality(S) <= n
  BY <1>4, <1>5
<1> QED BY <1>6 DEF N

\* Two sequences joined.
LEMMA Joined2 ==
  ASSUME NEW S, NEW a \in Seq(S), NEW b \in Seq(S)
  PROVE  a \o b \in Seq(S) /\ Len(a \o b) = Len(a) + Len(b)
  BY ConcatProperties

\* The elements of two sequences joined, position by position.
LEMMA JoinedAt ==
  ASSUME NEW S, NEW a \in Seq(S), NEW b \in Seq(S), NEW j \in 1 .. Len(a) + Len(b)
  PROVE  /\ j <= Len(a) => (a \o b)[j] = a[j]
         /\ ~(j <= Len(a)) => (a \o b)[j] = b[j - Len(a)]
<1>1. (a \o b)[j] = IF j <= Len(a) THEN a[j] ELSE b[j - Len(a)]
  BY ConcatProperties
<1> QED BY <1>1

\* RemoveAt moves what is behind the position up by one.
LEMMA Deleted ==
  ASSUME NEW S, NEW seq \in Seq(S), NEW i \in 1 .. Len(seq)
  PROVE  /\ RemoveAt(seq, i) \in Seq(S) /\ Len(RemoveAt(seq, i)) = Len(seq) - 1
         /\ \A j \in 1 .. Len(seq) - 1 :
              RemoveAt(seq, i)[j] = IF j < i THEN seq[j] ELSE seq[j + 1]
<1>1. PICK a \in Seq(S) : /\ a = SubSeq(seq, 1, i - 1)
                          /\ Len(a) = i - 1 /\ \A j \in 1 .. i - 1 : a[j] = seq[j]
  <2> DEFINE x == SubSeq(seq, 1, i - 1)
  <2>1. x \in Seq(S) /\ Len(x) = i - 1 /\ \A j \in 1 .. i - 1 : x[j] = seq[j]
    BY SubSeqProperties
  <2> QED BY <2>1, Zenon
<1>2. PICK b \in Seq(S) : /\ b = SubSeq(seq, i + 1, Len(seq))
                          /\ Len(b) = Len(seq) - i
                          /\ \A j \in 1 .. Len(seq) - i : b[j] = seq[j + i]
  <2> DEFINE x == SubSeq(seq, i + 1, Len(seq))
  <2>1. /\ x \in Seq(S) /\ Len(x) = Len(seq) - i
        /\ \A j \in 1 .. Len(seq) - i : x[j] = seq[j + i]
    BY SubSeqProperties
  <2> QED BY <2>1, Zenon
<1>3. RemoveAt(seq, i) = a \o b
  BY <1>1, <1>2, Zenon DEF RemoveAt
<1>4. /\ Len(a) \in Nat /\ Len(b) \in Nat /\ Len(seq) \in Nat /\ i \in Nat
      /\ Len(a) + Len(b) = Len(seq) - 1
  <2>1. Len(seq) \in Nat /\ i \in Nat /\ 1 <= i /\ i <= Len(seq)
    OBVIOUS
  <2>2. Len(a) = i - 1 /\ Len(b) = Len(seq) - i
    BY <1>1, <1>2, Zenon
  <2> QED BY <2>1, <2>2
<1>5. a \o b \in Seq(S) /\ Len(a \o b) = Len(a) + Len(b)
  BY Joined2, Zenon
<1>6. ASSUME NEW j \in 1 .. Len(seq) - 1
      PROVE  (a \o b)[j] = IF j < i THEN seq[j] ELSE seq[j + 1]
  <2>1. j \in Nat /\ j \in 1 .. Len(a) + Len(b)
    BY <1>4
  <2>2. CASE j < i
    <3>1. j <= Len(a) /\ j \in 1 .. i - 1
      BY <1>1, <1>4, <2>1, <2>2
    <3>2. (a \o b)[j] = a[j]
      BY <2>1, <3>1, JoinedAt, Zenon
    <3> QED BY <1>1, <2>2, <3>1, <3>2
  <2>3. CASE ~(j < i)
    <3>1. ~(j <= Len(a)) /\ j - Len(a) \in 1 .. Len(seq) - i /\ (j - Len(a)) + i = j + 1
      BY <1>1, <1>4, <2>1, <2>3
    <3>2. (a \o b)[j] = b[j - Len(a)]
      BY <2>1, <3>1, JoinedAt, ZenonT(60)
    <3> QED BY <1>2, <2>3, <3>1, <3>2
  <2> QED BY <2>2, <2>3
<1> QED BY <1>3, <1>4, <1>5, <1>6

\* r is seq with e put at position i.
PutAt(seq, i, e, r) ==
  /\ Len(r) = Len(seq) + 1
  /\ \A j \in 1 .. Len(seq) + 1 :
       r[j] = IF j < i THEN seq[j] ELSE IF j = i THEN e ELSE seq[j - 1]

\* InsertAt moves what is at the position and behind it down by one.
LEMMA Inserted ==
  ASSUME NEW S, NEW seq \in Seq(S), NEW i \in 1 .. Len(seq) + 1, NEW e \in S
  PROVE  InsertAt(seq, i, e) \in Seq(S) /\ PutAt(seq, i, e, InsertAt(seq, i, e))
<1>1. PICK a \in Seq(S) : /\ a = SubSeq(seq, 1, i - 1)
                          /\ Len(a) = i - 1 /\ \A j \in 1 .. i - 1 : a[j] = seq[j]
  <2> DEFINE x == SubSeq(seq, 1, i - 1)
  <2>1. x \in Seq(S) /\ Len(x) = i - 1 /\ \A j \in 1 .. i - 1 : x[j] = seq[j]
    BY SubSeqProperties
  <2> QED BY <2>1, Zenon
<1>2. PICK b \in Seq(S) : /\ b = SubSeq(seq, i, Len(seq))
                          /\ Len(b) = Len(seq) - i + 1
                          /\ \A j \in 1 .. Len(seq) - i + 1 : b[j] = seq[j + i - 1]
  <2> DEFINE x == SubSeq(seq, i, Len(seq))
  <2>1. /\ x \in Seq(S) /\ Len(x) = Len(seq) - i + 1
        /\ \A j \in 1 .. Len(seq) - i + 1 : x[j] = seq[j + i - 1]
    BY SubSeqProperties
  <2> QED BY <2>1, Zenon
<1>3. PICK one \in Seq(S) : one = <<e>> /\ Len(one) = 1 /\ one[1] = e
  <2>1. <<e>> \in Seq(S) /\ Len(<<e>>) = 1 /\ <<e>>[1] = e
    OBVIOUS
  <2> QED BY <2>1, Zenon
<1>4. a \o one \in Seq(S) /\ Len(a \o one) = Len(a) + Len(one)
  BY Joined2, Zenon
<1>5. PICK c \in Seq(S) : c = a \o one /\ Len(c) = Len(a) + Len(one)
  BY <1>4, Zenon
<1>6. InsertAt(seq, i, e) = c \o b
  BY <1>1, <1>2, <1>3, <1>5, Zenon DEF InsertAt
<1>7. /\ Len(a) \in Nat /\ Len(b) \in Nat /\ Len(seq) \in Nat /\ i \in Nat /\ Len(c) = i
      /\ Len(c) + Len(b) = Len(seq) + 1
  <2>1. Len(seq) \in Nat /\ i \in Nat /\ 1 <= i /\ i <= Len(seq) + 1
    OBVIOUS
  <2>2. Len(a) = i - 1 /\ Len(b) = Len(seq) - i + 1 /\ Len(c) = Len(a) + 1
    BY <1>1, <1>2, <1>3, <1>5, Zenon
  <2> QED BY <2>1, <2>2
<1>8. c \o b \in Seq(S) /\ Len(c \o b) = Len(c) + Len(b)
  BY Joined2, Zenon
<1>9. ASSUME NEW j \in 1 .. Len(seq) + 1
      PROVE  (c \o b)[j] = IF j < i THEN seq[j] ELSE IF j = i THEN e ELSE seq[j - 1]
  <2>1. j \in Nat /\ j \in 1 .. Len(c) + Len(b)
    BY <1>7
  <2>2. CASE j < i
    <3>1. j <= Len(a) /\ j \in 1 .. i - 1 /\ j \in 1 .. Len(a) + Len(one) /\ j <= Len(c)
      BY <1>1, <1>3, <1>7, <2>1, <2>2
    <3>2. (a \o one)[j] = a[j]
      BY <3>1, JoinedAt, Zenon
    <3>3. (c \o b)[j] = c[j]
      BY <2>1, <3>1, JoinedAt, Zenon
    <3> QED BY <1>1, <1>5, <2>2, <3>1, <3>2, <3>3
  <2>3. CASE j = i
    <3>1. ~(j <= Len(a)) /\ j \in 1 .. Len(a) + Len(one) /\ j <= Len(c)
      BY <1>1, <1>3, <1>7, <2>1, <2>3
    <3>2. (a \o one)[j] = one[j - Len(a)]
      BY <3>1, JoinedAt, Zenon
    <3>5. j - Len(a) = 1
      BY <1>1, <1>7, <2>3
    <3>3. (c \o b)[j] = c[j]
      BY <2>1, <3>1, JoinedAt, Zenon
    <3>4. ~(j < i)
      BY <1>7, <2>3
    <3> QED BY <1>3, <1>5, <2>3, <3>1, <3>2, <3>3, <3>4, <3>5
  <2>4. CASE j > i
    <3>1. ~(j <= Len(c)) /\ j - Len(c) \in 1 .. Len(seq) - i + 1 /\ (j - Len(c)) + i - 1 = j - 1
      BY <1>7, <2>1, <2>4
    <3>2. (c \o b)[j] = b[j - Len(c)]
      BY <2>1, <3>1, JoinedAt, ZenonT(60)
    <3>3. ~(j < i) /\ j # i
      BY <1>7, <2>1, <2>4
    <3> QED BY <1>2, <3>1, <3>2, <3>3
  <2> QED BY <1>7, <2>1, <2>2, <2>3, <2>4
<1>10. PutAt(seq, i, e, c \o b)
  BY <1>7, <1>8, <1>9, Zenon DEF PutAt
<1> QED BY <1>6, <1>8, <1>10, Zenon

\* By index.
LEMMA Indexed ==
  ASSUME NEW S, NEW seq \in Seq(S)
  PROVE  /\ \A j \in 1 .. Len(seq) : seq[j] \in Members(seq)
         /\ \A x \in Members(seq) : \E j \in 1 .. Len(seq) : seq[j] = x
         /\ IsInjective(seq) <=>
              \A j, k \in 1 .. Len(seq) : seq[j] = seq[k] => j = k
<1>1. DOMAIN seq = 1 .. Len(seq)
  OBVIOUS
<1> QED BY <1>1 DEF Members, IsInjective

\* Taking an element out of a list without duplicates leaves the others.
LEMMA RemovedFrom ==
  ASSUME NEW S, NEW seq \in Seq(S), NEW e, IsInjective(seq)
  PROVE  /\ RemoveFirst(seq, e) \in Seq(S) /\ IsInjective(RemoveFirst(seq, e))
         /\ Members(RemoveFirst(seq, e)) = Members(seq) \ {e}
         /\ e \notin Members(seq) => RemoveFirst(seq, e) = seq
<1>1. CASE e \notin Members(seq)
  <2>1. RemoveFirst(seq, e) = seq
    BY <1>1 DEF RemoveFirst, Members
  <2> QED BY <1>1, <2>1
<1>2. CASE e \in Members(seq)
  <2>1. PICK i \in 1 .. Len(seq) : seq[i] = e /\ RemoveFirst(seq, e) = RemoveAt(seq, i)
    BY <1>2, RemovedAt
  <2>2. PICK r : r = RemoveAt(seq, i)
    OBVIOUS
  <2>3. /\ r \in Seq(S) /\ Len(r) = Len(seq) - 1
        /\ \A j \in 1 .. Len(seq) - 1 : r[j] = IF j < i THEN seq[j] ELSE seq[j + 1]
    BY <2>2, Deleted
  <2>4. Len(seq) \in Nat /\ i \in Nat /\ 1 <= i /\ i <= Len(seq)
    OBVIOUS
  <2>5. IsInjective(r)
    <3> SUFFICES ASSUME NEW j \in 1 .. Len(r), NEW k \in 1 .. Len(r), r[j] = r[k] PROVE j = k
      BY <2>3 DEF IsInjective
    <3>1. j \in Nat /\ k \in Nat /\ j <= Len(seq) - 1 /\ k <= Len(seq) - 1 /\ 1 <= j /\ 1 <= k
      BY <2>3, <2>4
    <3>2. PICK jj \in 1 .. Len(seq) : r[j] = seq[jj] /\ jj = IF j < i THEN j ELSE j + 1
      BY <2>3, <2>4, <3>1
    <3>3. PICK kk \in 1 .. Len(seq) : r[k] = seq[kk] /\ kk = IF k < i THEN k ELSE k + 1
      BY <2>3, <2>4, <3>1
    <3>5. seq[jj] = seq[kk] => jj = kk
      BY Indexed, Zenon
    <3>4. jj = kk
      BY <3>2, <3>3, <3>5
    <3> QED BY <2>4, <3>1, <3>2, <3>3, <3>4
  <2>6. Members(r) = Members(seq) \ {e}
    <3>1. ASSUME NEW j \in 1 .. Len(r) PROVE r[j] \in Members(seq) \ {e}
      <4>1. j \in Nat /\ j <= Len(seq) - 1 /\ 1 <= j
        BY <2>3, <2>4
      <4>2. PICK jj \in 1 .. Len(seq) : r[j] = seq[jj] /\ jj = IF j < i THEN j ELSE j + 1
        BY <2>3, <2>4, <4>1
      <4>3. jj # i
        BY <2>4, <4>1, <4>2
      <4>4. seq[jj] # seq[i]
        BY <4>3 DEF IsInjective
      <4> QED BY <2>1, <4>2, <4>4 DEF Members
    <3>2. ASSUME NEW x \in Members(seq) \ {e} PROVE x \in Members(r)
      <4>1. PICK k \in 1 .. Len(seq) : seq[k] = x
        BY DEF Members
      <4>2. k # i /\ k \in Nat /\ 1 <= k /\ k <= Len(seq)
        BY <2>1, <4>1
      <4>3. CASE k < i
        <5>1. k \in 1 .. Len(seq) - 1 /\ r[k] = x
          BY <2>3, <2>4, <4>1, <4>2, <4>3
        <5> QED BY <2>3, <5>1 DEF Members
      <4>4. CASE k > i
        <5>1. k - 1 \in 1 .. Len(seq) - 1 /\ ~(k - 1 < i) /\ (k - 1) + 1 = k
          BY <2>4, <4>2, <4>4
        <5>2. r[k - 1] = seq[(k - 1) + 1]
          BY <2>3, <5>1
        <5> QED BY <2>3, <4>1, <5>1, <5>2 DEF Members
      <4> QED BY <2>4, <4>2, <4>3, <4>4
    <3>3. Members(r) \subseteq Members(seq) \ {e}
      BY <2>3, <3>1, Indexed
    <3> QED BY <3>2, <3>3
  <2> QED BY <1>2, <2>1, <2>2, <2>3, <2>5, <2>6
<1> QED BY <1>1, <1>2

\* Putting in an element that was not there leaves a list without duplicates.
LEMMA OneMore ==
  ASSUME NEW S, NEW seq \in Seq(S), NEW e \in S, IsInjective(seq), e \notin Members(seq),
         NEW i \in 1 .. Len(seq) + 1, NEW r \in Seq(S), PutAt(seq, i, e, r)
  PROVE  IsInjective(r) /\ Members(r) = Members(seq) \cup {e}
<1> USE DEF PutAt
<1>1. Len(seq) \in Nat /\ i \in Nat /\ 1 <= i /\ i <= Len(seq) + 1
  OBVIOUS
<1>2. ASSUME NEW j \in 1 .. Len(seq) + 1
      PROVE  \/ j = i /\ r[j] = e
             \/ j # i /\ \E k \in 1 .. Len(seq) : r[j] = seq[k] /\ k = IF j < i THEN j ELSE j - 1
  <2>1. j \in Nat /\ 1 <= j /\ j <= Len(seq) + 1
    BY <1>1
  <2>2. CASE j < i
    <3>1. j \in 1 .. Len(seq) /\ r[j] = seq[j] /\ j # i
      BY <1>1, <2>1, <2>2
    <3> QED BY <2>2, <3>1
  <2>3. CASE j > i
    <3>1. j - 1 \in 1 .. Len(seq) /\ ~(j < i) /\ j # i
      BY <1>1, <2>1, <2>3
    <3>2. r[j] = seq[j - 1]
      BY <3>1
    <3> QED BY <3>1, <3>2
  <2> QED BY <1>1, <2>1, <2>2, <2>3
<1>3. IsInjective(r)
  <2> SUFFICES ASSUME NEW j \in 1 .. Len(seq) + 1, NEW k \in 1 .. Len(seq) + 1, r[j] = r[k]
               PROVE  j = k
    BY DEF IsInjective
  <2>1. j \in Nat /\ k \in Nat
    BY <1>1
  <2>2. CASE j = i
    BY <1>2, <2>2 DEF Members
  <2>3. CASE k = i
    BY <1>2, <2>3 DEF Members
  <2>4. CASE j # i /\ k # i
    <3>1. PICK jj \in 1 .. Len(seq) : r[j] = seq[jj] /\ jj = IF j < i THEN j ELSE j - 1
      BY <1>2, <2>4
    <3>2. PICK kk \in 1 .. Len(seq) : r[k] = seq[kk] /\ kk = IF k < i THEN k ELSE k - 1
      BY <1>2, <2>4
    <3>3. seq[jj] = seq[kk] => jj = kk
      BY Indexed, Zenon
    <3>4. jj = kk
      BY <3>1, <3>2, <3>3
    <3> QED BY <1>1, <2>1, <2>4, <3>1, <3>2, <3>4
  <2> QED BY <2>2, <2>3, <2>4
<1>4. Members(r) = Members(seq) \cup {e}
  <2>1. ASSUME NEW j \in 1 .. Len(seq) + 1 PROVE r[j] \in Members(seq) \cup {e}
    BY <1>2 DEF Members
  <2>2. e \in Members(r)
    <3>1. r[i] = e
      BY <1>1
    <3> QED BY <3>1, SMTT(40) DEF Members
  <2>3. ASSUME NEW k \in 1 .. Len(seq) PROVE seq[k] \in Members(r)
    <3>1. k \in Nat /\ 1 <= k /\ k <= Len(seq)
      BY <1>1
    <3>2. CASE k < i
      <4>1. k \in 1 .. Len(r) /\ r[k] = seq[k]
        BY <1>1, <3>1, <3>2
      <4> QED BY <4>1, Indexed
    <3>3. CASE ~(k < i)
      <4>1. k + 1 \in 1 .. Len(seq) + 1 /\ ~(k + 1 < i) /\ k + 1 # i /\ (k + 1) - 1 = k
        BY <1>1, <3>1, <3>3
      <4>2. r[k + 1] = seq[(k + 1) - 1]
        BY <4>1
      <4>3. r[k + 1] \in Members(r)
        BY <4>1, Indexed
      <4> QED BY <4>1, <4>2, <4>3
    <3> QED BY <3>2, <3>3
  <2>4. Members(r) \subseteq Members(seq) \cup {e}
    BY <2>1, Indexed
  <2>5. Members(seq) \subseteq Members(r)
    BY <2>3, Indexed, SMTT(40)
  <2> QED BY <2>2, <2>4, <2>5
<1> QED BY <1>3, <1>4

\* r has the members of seq and e.
AddsTo(r, S, seq, e) == r \in Seq(S) /\ IsInjective(r) /\ Members(r) = Members(seq) \cup {e}

\* The three ways the kernel puts a thread into a list: last, first, at a place.
LEMMA Added ==
  ASSUME NEW S, NEW seq \in Seq(S), NEW e \in S, IsInjective(seq), e \notin Members(seq)
  PROVE  /\ AddsTo(Append(seq, e), S, seq, e) /\ AddsTo(<<e>> \o seq, S, seq, e)
         /\ \A i \in 1 .. Len(seq) + 1 : AddsTo(InsertAt(seq, i, e), S, seq, e)
<1>1. Len(seq) \in Nat
  OBVIOUS
<1>2. PICK r \in Seq(S) : r = Append(seq, e)
  <2>1. Append(seq, e) \in Seq(S)
    OBVIOUS
  <2> QED BY <2>1, Zenon
<1>3. PutAt(seq, Len(seq) + 1, e, r) /\ Len(seq) + 1 \in 1 .. Len(seq) + 1
  BY <1>1, <1>2, AppendProperties DEF PutAt
<1>4. AddsTo(r, S, seq, e)
  BY <1>3, OneMore DEF AddsTo
<1>5. PICK one \in Seq(S) : one = <<e>> /\ Len(one) = 1 /\ one[1] = e
  <2>1. <<e>> \in Seq(S) /\ Len(<<e>>) = 1 /\ <<e>>[1] = e
    OBVIOUS
  <2> QED BY <2>1, Zenon
<1>6. one \o seq \in Seq(S) /\ Len(one \o seq) = Len(one) + Len(seq)
  BY Joined2, Zenon
<1>7. PICK p \in Seq(S) : p = one \o seq /\ Len(p) = Len(one) + Len(seq)
  BY <1>6, Zenon
<1>8. PutAt(seq, 1, e, p) /\ 1 \in 1 .. Len(seq) + 1
  <2>1. Len(p) = Len(seq) + 1 /\ 1 \in 1 .. Len(seq) + 1
    BY <1>1, <1>5, <1>7
  <2>2. ASSUME NEW j \in 1 .. Len(seq) + 1
        PROVE  p[j] = IF j < 1 THEN seq[j] ELSE IF j = 1 THEN e ELSE seq[j - 1]
    <3>1. j \in Nat /\ 1 <= j /\ j \in 1 .. Len(one) + Len(seq)
      BY <1>1, <1>5
    <3>2. CASE j = 1
      <4>1. j <= Len(one)
        BY <1>5, <3>2
      <4>2. (one \o seq)[j] = one[j]
        BY <3>1, <4>1, JoinedAt, Zenon
      <4> QED BY <1>5, <1>7, <3>2, <4>2
    <3>3. CASE j # 1
      <4>1. ~(j <= Len(one))
        BY <1>5, <3>1, <3>3
      <4>2. (one \o seq)[j] = seq[j - Len(one)]
        BY <3>1, <4>1, JoinedAt, Zenon
      <4> QED BY <1>5, <1>7, <3>1, <3>3, <4>2
    <3> QED BY <3>2, <3>3
  <2> QED BY <2>1, <2>2 DEF PutAt
<1>9. AddsTo(p, S, seq, e)
  BY <1>8, OneMore DEF AddsTo
<1>10. ASSUME NEW i \in 1 .. Len(seq) + 1
       PROVE  AddsTo(InsertAt(seq, i, e), S, seq, e)
  <2>1. PICK q : q = InsertAt(seq, i, e)
    OBVIOUS
  <2>2. q \in Seq(S) /\ PutAt(seq, i, e, q)
    BY <2>1, Inserted, Zenon
  <2>3. AddsTo(q, S, seq, e)
    BY <2>2, OneMore DEF AddsTo
  <2> QED BY <2>1, <2>3, Zenon
<1>11. <<e>> \o seq = p
  BY <1>5, <1>7, Zenon
<1> QED BY <1>2, <1>4, <1>9, <1>10, <1>11, Zenon

\* The index sets a fold runs through.
LEMMA UpTo ==
  ASSUME NEW k \in Nat, NEW I \in SUBSET (1 .. k + 1)
  PROVE  /\ k + 1 \in I => Max(I) = k + 1 /\ I \ {Max(I)} \in SUBSET (1 .. k)
         /\ k + 1 \notin I => I \in SUBSET (1 .. k)
<1>1. CASE k + 1 \notin I
  BY <1>1
<1>2. CASE k + 1 \in I
  <2>1. \A j \in I : j <= k + 1
    OBVIOUS
  <2>2. ASSUME NEW i \in I, \A j \in I : j <= i PROVE i = k + 1
    BY <1>2, <2>1, <2>2
  <2>3. Max(I) = k + 1
    BY <1>2, <2>1, <2>2 DEF Max
  <2>4. I \ {k + 1} \in SUBSET (1 .. k)
    OBVIOUS
  <2> QED BY <1>2, <2>3, <2>4
<1> QED BY <1>1, <1>2

\* What the empty set has and each set gets from itself without its last
\* element, all have: a fold from left to right reaches its end.
LEMMA Folded ==
  ASSUME NEW n \in Nat, NEW G, {} \in G,
         \A I \in SUBSET (1 .. n) : I # {} /\ I \ {Max(I)} \in G => I \in G
  PROVE  1 .. n \in G
<1> DEFINE S == {k \in Nat : k <= n => \A I \in SUBSET (1 .. k) : I \in G}
<1>1. 0 \in S
  <2> SUFFICES ASSUME NEW I \in SUBSET (1 .. 0) PROVE I \in G
    OBVIOUS
  <2>1. I = {}
    OBVIOUS
  <2> QED BY <2>1
<1>2. ASSUME NEW k \in S PROVE k + 1 \in S
  <2>1. k \in Nat
    OBVIOUS
  <2> SUFFICES ASSUME k + 1 <= n, NEW I \in SUBSET (1 .. k + 1) PROVE I \in G
    BY <2>1
  <2>2. \A J \in SUBSET (1 .. k) : J \in G
    BY <2>1
  <2>3. I \in SUBSET (1 .. n)
    BY <2>1
  <2>4. CASE k + 1 \in I
    <3>1. I \ {Max(I)} \in G /\ I # {}
      BY <2>1, <2>2, <2>4, UpTo
    <3> QED BY <2>3, <3>1
  <2>5. CASE k + 1 \notin I
    BY <2>1, <2>2, <2>5, UpTo
  <2> QED BY <2>4, <2>5
<1>3. S \in SUBSET Nat
  OBVIOUS
<1> HIDE DEF S
<1>4. S = Nat
  BY <1>1, <1>2, <1>3, UpFromZero
<1>5. n \in S
  BY <1>4
<1> QED BY <1>5 DEF S

\* A set of positions that is not empty has a last one.
LEMMA LastOf ==
  ASSUME NEW n \in Nat, NEW I \in SUBSET (1 .. n), I # {}
  PROVE  Max(I) \in I
<1> DEFINE S == {k \in Nat : \A J \in SUBSET (1 .. k) : J # {} => Max(J) \in J}
<1>1. 0 \in S
  <2>1. \A J \in SUBSET (1 .. 0) : J = {}
    OBVIOUS
  <2> QED BY <2>1
<1>2. ASSUME NEW k \in S PROVE k + 1 \in S
  <2>1. k \in Nat
    OBVIOUS
  <2>2. ASSUME NEW J \in SUBSET (1 .. k + 1), J # {} PROVE Max(J) \in J
    <3>1. CASE k + 1 \in J
      BY <2>1, <3>1, UpTo
    <3>2. CASE k + 1 \notin J
      BY <2>1, <2>2, <3>2, UpTo
    <3> QED BY <3>1, <3>2
  <2> QED BY <2>1, <2>2
<1>3. S \in SUBSET Nat
  OBVIOUS
<1> HIDE DEF S
<1>4. n \in S
  BY <1>1, <1>2, <1>3, UpFromZero
<1> QED BY <1>4 DEF S

\* SetToSeq lists each element of a finite set once.
LEMMA SetListed ==
  ASSUME NEW S, IsFiniteSet(S)
  PROVE  SetToSeq(S) \in Seq(S) /\ IsInjective(SetToSeq(S)) /\ Members(SetToSeq(S)) = S
<1>1. PICK n \in Nat : n = Cardinality(S)
  BY FS_CardinalityType
<1>2. PICK f : f \in Bijection(1 .. n, S)
  BY <1>1, FS_CardinalityType DEF ExistsBijection
<1>3. f \in [1 .. n -> S] /\ IsInjective(f)
  BY <1>2 DEF Bijection, Injection
<1>4. PICK q : q = SetToSeq(S)
  OBVIOUS
<1>5. q \in [1 .. n -> S] /\ IsInjective(q)
  BY <1>1, <1>3, <1>4, Zenon DEF SetToSeq
<1>6. q \in Seq(S) /\ DOMAIN q = 1 .. n
  BY <1>5
<1>7. q \in Surjection(1 .. n, S)
  <2>1. q \in Injection(1 .. n, S)
    BY <1>5 DEF Injection
  <2>2. Cardinality(1 .. n) = n
    BY FS_Interval
  <2> QED BY <1>1, <2>1, <2>2, FS_Injection
<1>8. Members(q) = S
  BY <1>5, <1>6, <1>7 DEF Surjection, Members
<1> QED BY <1>4, <1>5, <1>6, <1>8

-----------------------------------------------------------------------------
Stat == {"running", "ready", "suspend"}

SchedType(z) ==
  /\ z = [cur |-> z.cur, stat |-> z.stat, prio |-> z.prio, ready |-> z.ready,
          wait |-> z.wait, timer |-> z.timer, yield |-> z.yield, err |-> z.err]
  /\ z.cur \in AllThreads /\ z.stat \in [AllThreads -> Stat] /\ z.prio \in [AllThreads -> Prios]
  /\ z.ready \in [Prios -> Seq(AllThreads)] /\ z.wait \in [WaitLists -> Seq(Threads)]
  /\ z.timer \in SUBSET AllThreads /\ z.yield \in SUBSET AllThreads
  /\ z.err \in [AllThreads -> {"EOK", "ERROR"}]

Lists(z) ==
  /\ \A p \in Prios : IsInjective(z.ready[p])
  /\ \A l \in WaitLists : IsInjective(z.wait[l])

InReady(z, t, p) == t \in Members(z.ready[p])
InWait(z, t, l) == t \in Members(z.wait[l])

Placed(z, t) ==
  /\ z.stat[t] = "running" => t = z.cur
  /\ z.stat[t] = "ready" => t # z.cur
  /\ \A p \in Prios : InReady(z, t, p) <=> z.stat[t] = "ready" /\ p = z.prio[t]
  /\ \A l \in WaitLists : InWait(z, t, l) => z.stat[t] = "suspend"
  /\ \A l, k \in WaitLists : InWait(z, t, l) /\ InWait(z, t, k) => l = k
  /\ t \in z.timer => z.stat[t] = "suspend"
  /\ z.stat[t] = "suspend" => t \in z.timer \/ \E l \in WaitLists : InWait(z, t, l)

\* In no list.
Loose(z, t) ==
  /\ \A p \in Prios : ~InReady(z, t, p)
  /\ \A l \in WaitLists : ~InWait(z, t, l)

Sound(z) == SchedType(z) /\ Lists(z) /\ \A t \in AllThreads : Placed(z, t)
SoundBut(z, t) ==
  /\ SchedType(z) /\ Lists(z) /\ Loose(z, t)
  /\ \A u \in AllThreads \ {t} : Placed(z, u)

\* rt_list_remove: types, and what it leaves alone.
LEMMA UnlinkType ==
  ASSUME NEW z, SchedType(z), Lists(z), NEW t \in AllThreads
  PROVE  LET x == Unlink(z, t) IN
         /\ SchedType(x) /\ Lists(x)
         /\ x.cur = z.cur /\ x.stat = z.stat /\ x.prio = z.prio /\ x.timer = z.timer
         /\ x.yield = z.yield /\ x.err = z.err
         /\ \A p \in Prios : x.ready[p] = RemoveFirst(z.ready[p], t)
         /\ \A l \in WaitLists : x.wait[l] = RemoveFirst(z.wait[l], t)
<1> DEFINE x == Unlink(z, t)
           ready == [p \in Prios |-> RemoveFirst(z.ready[p], t)]
           wait == [l \in WaitLists |-> RemoveFirst(z.wait[l], t)]
<1>1. x = [cur |-> z.cur, stat |-> z.stat, prio |-> z.prio, ready |-> ready,
           wait |-> wait, timer |-> z.timer, yield |-> z.yield, err |-> z.err]
  <2>1. DOMAIN z.ready = Prios /\ DOMAIN z.wait = WaitLists
    BY DEF SchedType
  <2>2. x = [z EXCEPT !.ready = ready, !.wait = wait]
    BY <2>1 DEF Unlink
  <2> HIDE DEF ready, wait, x
  <2> QED BY <2>2 DEF SchedType
<1>2. ASSUME NEW p \in Prios
      PROVE  /\ RemoveFirst(z.ready[p], t) \in Seq(AllThreads)
             /\ IsInjective(RemoveFirst(z.ready[p], t))
  <2>1. z.ready[p] \in Seq(AllThreads) /\ IsInjective(z.ready[p])
    BY DEF SchedType, Lists
  <2> QED BY <2>1, RemovedFrom
<1>3. ASSUME NEW l \in WaitLists
      PROVE  RemoveFirst(z.wait[l], t) \in Seq(Threads) /\ IsInjective(RemoveFirst(z.wait[l], t))
  <2>1. z.wait[l] \in Seq(Threads) /\ IsInjective(z.wait[l])
    BY DEF SchedType, Lists
  <2> QED BY <2>1, RemovedFrom
<1>4. ready \in [Prios -> Seq(AllThreads)] /\ wait \in [WaitLists -> Seq(Threads)]
  BY <1>2, <1>3
<1>5. /\ x.cur = z.cur /\ x.stat = z.stat /\ x.prio = z.prio /\ x.timer = z.timer
      /\ x.yield = z.yield /\ x.err = z.err /\ x.ready = ready /\ x.wait = wait
  BY <1>1
<1>6. /\ \A p \in Prios : x.ready[p] = RemoveFirst(z.ready[p], t)
      /\ \A l \in WaitLists : x.wait[l] = RemoveFirst(z.wait[l], t)
  BY <1>5
<1> HIDE DEF x, ready, wait
<1>7. SchedType(x)
  BY <1>1, <1>4, <1>5 DEF SchedType
<1>8. Lists(x)
  BY <1>2, <1>3, <1>6 DEF Lists
<1> QED BY <1>5, <1>6, <1>7, <1>8 DEF x

\* rt_list_remove: the thread is in no list, the others are where they were.
LEMMA UnlinkSound ==
  ASSUME NEW z, Sound(z), NEW t \in AllThreads
  PROVE  LET x == Unlink(z, t) IN
         /\ SoundBut(x, t)
         /\ x.cur = z.cur /\ x.stat = z.stat /\ x.prio = z.prio /\ x.timer = z.timer
         /\ x.yield = z.yield /\ x.err = z.err
         /\ \A u \in AllThreads : \A l \in WaitLists : InWait(x, u, l) <=> InWait(z, u, l) /\ u # t
         /\ \A l \in WaitLists : ~InWait(z, t, l) => x.wait[l] = z.wait[l]
<1> DEFINE x == Unlink(z, t)
<1>1. /\ SchedType(x) /\ Lists(x)
      /\ x.cur = z.cur /\ x.stat = z.stat /\ x.prio = z.prio /\ x.timer = z.timer
      /\ x.yield = z.yield /\ x.err = z.err
      /\ \A p \in Prios : x.ready[p] = RemoveFirst(z.ready[p], t)
      /\ \A l \in WaitLists : x.wait[l] = RemoveFirst(z.wait[l], t)
  BY UnlinkType DEF Sound
<1> HIDE DEF x
<1>2. ASSUME NEW p \in Prios, NEW u PROVE InReady(x, u, p) <=> InReady(z, u, p) /\ u # t
  <2>1. z.ready[p] \in Seq(AllThreads) /\ IsInjective(z.ready[p])
    BY DEF Sound, SchedType, Lists
  <2>2. Members(x.ready[p]) = Members(z.ready[p]) \ {t}
    BY <1>1, <2>1, RemovedFrom
  <2> QED BY <2>2 DEF InReady
<1>3. ASSUME NEW l \in WaitLists, NEW u PROVE InWait(x, u, l) <=> InWait(z, u, l) /\ u # t
  <2>1. z.wait[l] \in Seq(Threads) /\ IsInjective(z.wait[l])
    BY DEF Sound, SchedType, Lists
  <2>2. Members(x.wait[l]) = Members(z.wait[l]) \ {t}
    BY <1>1, <2>1, RemovedFrom
  <2> QED BY <2>2 DEF InWait
<1>4. ASSUME NEW l \in WaitLists, ~InWait(z, t, l) PROVE x.wait[l] = z.wait[l]
  <2>1. z.wait[l] \in Seq(Threads) /\ IsInjective(z.wait[l])
    BY DEF Sound, SchedType, Lists
  <2> QED BY <1>1, <1>4, <2>1, RemovedFrom DEF InWait
<1>5. Loose(x, t)
  BY <1>2, <1>3 DEF Loose
<1>6. ASSUME NEW u \in AllThreads \ {t} PROVE Placed(x, u)
  BY <1>1, <1>2, <1>3 DEF Placed, Sound
<1> QED BY <1>1, <1>3, <1>4, <1>5, <1>6 DEF SoundBut, x

\* Into the ready list of its priority, at the head or the tail: types.
LEMMA InsertType ==
  ASSUME NEW z, SchedType(z), Lists(z), NEW t \in AllThreads, ~InReady(z, t, z.prio[t])
  PROVE  LET x == Insert(z, t) IN
         /\ SchedType(x) /\ Lists(x)
         /\ x.cur = z.cur /\ x.stat = [z.stat EXCEPT ![t] = "ready"] /\ x.prio = z.prio
         /\ x.wait = z.wait /\ x.timer = z.timer /\ x.yield = z.yield /\ x.err = z.err
         /\ \A u \in AllThreads : \A p \in Prios :
              InReady(x, u, p) <=> InReady(z, u, p) \/ (u = t /\ p = z.prio[t])
<1> DEFINE x == Insert(z, t)
           hp == z.prio[t]
           q == z.ready[hp]
           r == IF t \in z.yield THEN Append(q, t) ELSE <<t>> \o q
<1>1. hp \in Prios /\ q \in Seq(AllThreads) /\ IsInjective(q) /\ t \notin Members(q)
  BY DEF SchedType, Lists, InReady
<1>2. r \in Seq(AllThreads) /\ IsInjective(r) /\ Members(r) = Members(q) \cup {t}
  <2> HIDE DEF q
  <2>1. AddsTo(r, AllThreads, q, t)
    BY <1>1, Added
  <2> HIDE DEF r
  <2> QED BY <2>1 DEF AddsTo
<1>3. x = [cur |-> z.cur, stat |-> [z.stat EXCEPT ![t] = "ready"], prio |-> z.prio,
           ready |-> [z.ready EXCEPT ![hp] = r],
           wait |-> z.wait, timer |-> z.timer, yield |-> z.yield, err |-> z.err]
  <2>1. x = [z EXCEPT !.stat = [z.stat EXCEPT ![t] = "ready"], !.ready = [z.ready EXCEPT ![hp] = r]]
    BY DEF Insert
  <2> HIDE DEF r, hp, x
  <2> QED BY <2>1 DEF SchedType
<1> HIDE DEF x, hp, r, q
<1>4. /\ x.cur = z.cur /\ x.stat = [z.stat EXCEPT ![t] = "ready"] /\ x.prio = z.prio
      /\ x.wait = z.wait /\ x.timer = z.timer /\ x.yield = z.yield /\ x.err = z.err
      /\ x.ready = [z.ready EXCEPT ![hp] = r]
  BY <1>3
<1>5. x.ready[hp] = r /\ \A p \in Prios \ {hp} : x.ready[p] = z.ready[p]
  BY <1>1, <1>4 DEF SchedType
<1>6. SchedType(x)
  <2>1. x.stat \in [AllThreads -> Stat]
    BY <1>4 DEF SchedType, Stat
  <2>2. x.ready \in [Prios -> Seq(AllThreads)]
    BY <1>1, <1>2, <1>4 DEF SchedType
  <2> QED BY <1>3, <1>4, <2>1, <2>2 DEF SchedType
<1>7. Lists(x)
  BY <1>1, <1>2, <1>4, <1>5 DEF Lists
<1>8. ASSUME NEW u \in AllThreads, NEW p \in Prios
      PROVE  InReady(x, u, p) <=> InReady(z, u, p) \/ (u = t /\ p = hp)
  BY <1>1, <1>2, <1>5 DEF InReady, q
<1> QED BY <1>4, <1>6, <1>7, <1>8 DEF x, hp

\* rt_schedule_insert_thread makes a thread that is in no list ready or running.
LEMMA InsertSound ==
  ASSUME NEW z, NEW t \in AllThreads, SoundBut(z, t), t \notin z.timer
  PROVE  LET x == rt_schedule_insert_thread(z, t) IN
         /\ Sound(x)
         /\ x.cur = z.cur /\ x.prio = z.prio /\ x.wait = z.wait /\ x.timer = z.timer
         /\ x.yield = z.yield /\ x.err = z.err
         /\ x.stat = [z.stat EXCEPT ![t] = IF t = z.cur THEN "running" ELSE "ready"]
<1> DEFINE x == rt_schedule_insert_thread(z, t)
<1>1. CASE t = z.cur
  <2>1. x = [z EXCEPT !.stat = [z.stat EXCEPT ![t] = "running"]]
    BY <1>1 DEF rt_schedule_insert_thread
  <2> HIDE DEF x
  <2>2. x = [cur |-> z.cur, stat |-> [z.stat EXCEPT ![t] = "running"], prio |-> z.prio,
             ready |-> z.ready,
             wait |-> z.wait, timer |-> z.timer, yield |-> z.yield, err |-> z.err]
    BY <2>1 DEF SoundBut, SchedType
  <2>3. /\ x.cur = z.cur /\ x.stat = [z.stat EXCEPT ![t] = "running"] /\ x.prio = z.prio
        /\ x.wait = z.wait /\ x.timer = z.timer /\ x.yield = z.yield /\ x.err = z.err
        /\ x.ready = z.ready
    BY <2>2
  <2>4. SchedType(x) /\ Lists(x)
    <3>1. x.stat \in [AllThreads -> Stat]
      BY <2>3 DEF SoundBut, SchedType, Stat
    <3> QED BY <2>2, <2>3, <3>1 DEF SoundBut, SchedType, Lists
  <2>5. x.stat[t] = "running" /\ \A u \in AllThreads \ {t} : x.stat[u] = z.stat[u]
    BY <2>3 DEF SoundBut, SchedType
  <2>6. Placed(x, t)
    BY <1>1, <2>3, <2>5 DEF SoundBut, Loose, Placed, InReady, InWait
  <2>7. ASSUME NEW u \in AllThreads \ {t} PROVE Placed(x, u)
    BY <2>3, <2>5 DEF SoundBut, Placed, InReady, InWait
  <2> QED BY <1>1, <2>3, <2>4, <2>6, <2>7 DEF Sound, x
<1>2. CASE t # z.cur
  <2>1. x = Insert(z, t)
    BY <1>2 DEF rt_schedule_insert_thread
  <2>2. z.prio[t] \in Prios /\ ~InReady(z, t, z.prio[t])
    BY DEF SoundBut, Loose, SchedType
  <2> HIDE DEF x
  <2>3. /\ SchedType(x) /\ Lists(x)
        /\ x.cur = z.cur /\ x.stat = [z.stat EXCEPT ![t] = "ready"] /\ x.prio = z.prio
        /\ x.wait = z.wait /\ x.timer = z.timer /\ x.yield = z.yield /\ x.err = z.err
        /\ \A u \in AllThreads : \A p \in Prios :
             InReady(x, u, p) <=> InReady(z, u, p) \/ (u = t /\ p = z.prio[t])
    BY <2>1, <2>2, InsertType DEF SoundBut
  <2>4. x.stat[t] = "ready" /\ \A u \in AllThreads \ {t} : x.stat[u] = z.stat[u]
    BY <2>3 DEF SoundBut, SchedType
  <2>5. Placed(x, t)
    BY <1>2, <2>3, <2>4 DEF SoundBut, Loose, Placed, InWait
  <2>6. ASSUME NEW u \in AllThreads \ {t} PROVE Placed(x, u)
    BY <2>3, <2>4 DEF SoundBut, Placed, InWait
  <2> QED BY <1>2, <2>3, <2>5, <2>6 DEF Sound, x
<1> QED BY <1>1, <1>2

\* Sound does not depend on errors and time slices.
LEMMA SameSound ==
  ASSUME NEW z, NEW x, Sound(z), SchedType(x),
         x.cur = z.cur, x.stat = z.stat, x.prio = z.prio, x.ready = z.ready, x.wait = z.wait,
         x.timer = z.timer
  PROVE  Sound(x)
<1>1. Lists(x)
  BY DEF Sound, Lists
<1>2. ASSUME NEW t \in AllThreads PROVE Placed(x, t)
  BY DEF Sound, Placed, InReady, InWait
<1> QED BY <1>1, <1>2 DEF Sound

\* Nor does SoundBut, nor on the timer of the thread that is left out.
LEMMA SameSoundBut ==
  ASSUME NEW z, NEW x, NEW t, SoundBut(z, t), SchedType(x),
         x.cur = z.cur, x.ready = z.ready, x.wait = z.wait,
         \A u \in AllThreads \ {t} : /\ x.stat[u] = z.stat[u] /\ x.prio[u] = z.prio[u]
                                     /\ u \in x.timer <=> u \in z.timer
  PROVE  SoundBut(x, t)
<1>1. Lists(x)
  BY DEF SoundBut, Lists
<1>2. Loose(x, t)
  BY DEF SoundBut, Loose, InReady, InWait
<1>3. ASSUME NEW u \in AllThreads \ {t} PROVE Placed(x, u)
  BY DEF SoundBut, Placed, InReady, InWait
<1> QED BY <1>1, <1>2, <1>3 DEF SoundBut

\* A return value changes nothing.
LEMMA ErrSound ==
  ASSUME NEW z, Sound(z), NEW t \in AllThreads, NEW e \in {"EOK", "ERROR"}
  PROVE  LET x == [z EXCEPT !.err[t] = e] IN
         /\ Sound(x)
         /\ x.cur = z.cur /\ x.stat = z.stat /\ x.prio = z.prio /\ x.wait = z.wait
         /\ x.timer = z.timer /\ x.yield = z.yield /\ x.err = [z.err EXCEPT ![t] = e]
<1> DEFINE x == [z EXCEPT !.err[t] = e]
<1>1. x = [cur |-> z.cur, stat |-> z.stat, prio |-> z.prio, ready |-> z.ready,
           wait |-> z.wait, timer |-> z.timer, yield |-> z.yield, err |-> [z.err EXCEPT ![t] = e]]
  <2>1. SchedType(z) /\ x = [z EXCEPT !.err = [z.err EXCEPT ![t] = e]]
    BY DEF Sound
  <2> HIDE DEF x
  <2> QED BY <2>1 DEF SchedType
<1> HIDE DEF x
<1>2. /\ x.cur = z.cur /\ x.stat = z.stat /\ x.prio = z.prio /\ x.wait = z.wait
      /\ x.timer = z.timer /\ x.yield = z.yield /\ x.err = [z.err EXCEPT ![t] = e]
      /\ x.ready = z.ready
  BY <1>1
<1>3. SchedType(x)
  BY <1>1, <1>2 DEF Sound, SchedType
<1> QED BY <1>2, <1>3, SameSound DEF x

\* A time slice used up changes nothing yet.
LEMMA YieldSound ==
  ASSUME NEW z, Sound(z), NEW y \in SUBSET AllThreads
  PROVE  LET x == [z EXCEPT !.yield = y] IN
         /\ Sound(x)
         /\ x.cur = z.cur /\ x.stat = z.stat /\ x.prio = z.prio /\ x.wait = z.wait
         /\ x.timer = z.timer /\ x.err = z.err /\ x.ready = z.ready
<1> DEFINE x == [z EXCEPT !.yield = y]
<1>1. x = [cur |-> z.cur, stat |-> z.stat, prio |-> z.prio, ready |-> z.ready,
           wait |-> z.wait, timer |-> z.timer, yield |-> y, err |-> z.err]
  <2>1. SchedType(z) /\ x = [z EXCEPT !.yield = y]
    BY DEF Sound
  <2> HIDE DEF x
  <2> QED BY <2>1 DEF SchedType
<1> HIDE DEF x
<1>2. /\ x.cur = z.cur /\ x.stat = z.stat /\ x.prio = z.prio /\ x.wait = z.wait
      /\ x.timer = z.timer /\ x.yield = y /\ x.err = z.err
      /\ x.ready = z.ready
  BY <1>1
<1>3. SchedType(x)
  BY <1>1, <1>2 DEF Sound, SchedType
<1> QED BY <1>2, <1>3, SameSound DEF x

\* The thread's timer is started, whatever else it waits for.
LEMMA TimerSound ==
  ASSUME NEW z, Sound(z), NEW t \in AllThreads, z.stat[t] = "suspend"
  PROVE  LET x == StartTimer(z, t) IN
         /\ Sound(x)
         /\ x.cur = z.cur /\ x.stat = z.stat /\ x.prio = z.prio /\ x.wait = z.wait
         /\ x.timer = z.timer \cup {t} /\ x.yield = z.yield /\ x.err = z.err
<1> DEFINE x == StartTimer(z, t)
<1>1. x = [cur |-> z.cur, stat |-> z.stat, prio |-> z.prio, ready |-> z.ready,
           wait |-> z.wait, timer |-> z.timer \cup {t}, yield |-> z.yield, err |-> z.err]
  <2>1. SchedType(z) /\ x = [z EXCEPT !.timer = z.timer \cup {t}]
    BY DEF Sound, StartTimer
  <2> HIDE DEF x
  <2> QED BY <2>1 DEF SchedType
<1> HIDE DEF x
<1>2. /\ x.cur = z.cur /\ x.stat = z.stat /\ x.prio = z.prio /\ x.wait = z.wait
      /\ x.timer = z.timer \cup {t} /\ x.yield = z.yield /\ x.err = z.err
      /\ x.ready = z.ready
  BY <1>1
<1>3. SchedType(x) /\ Lists(x)
  BY <1>1, <1>2 DEF Sound, SchedType, Lists
<1>4. ASSUME NEW u \in AllThreads PROVE Placed(x, u)
  BY <1>2 DEF Sound, Placed, InReady, InWait
<1> QED BY <1>2, <1>3, <1>4 DEF Sound, x

\* rt_thread_resume: the thread leaves its wait list and its timer stops.
LEMMA ResumeSound ==
  ASSUME NEW z, Sound(z), NEW t \in AllThreads
  PROVE  LET x == rt_thread_resume(z, t) IN
         /\ Sound(x)
         /\ x.cur = z.cur /\ x.prio = z.prio /\ x.yield = z.yield /\ x.err = z.err
         /\ z.stat[t] # "suspend" => x = z
         /\ z.stat[t] = "suspend" =>
              /\ x.timer = z.timer \ {t}
              /\ \A u \in AllThreads \ {t} : x.stat[u] = z.stat[u]
              /\ x.stat[t] # "suspend"
              /\ \A u \in AllThreads : \A l \in WaitLists :
                   InWait(x, u, l) <=> InWait(z, u, l) /\ u # t
              /\ \A l \in WaitLists : ~InWait(z, t, l) => x.wait[l] = z.wait[l]
              /\ \A l \in WaitLists : x.wait[l] = RemoveFirst(z.wait[l], t)
<1> DEFINE x == rt_thread_resume(z, t)
<1>1. CASE z.stat[t] # "suspend"
  BY <1>1 DEF rt_thread_resume
<1>2. CASE z.stat[t] = "suspend"
  <2> DEFINE y == Unlink(z, t)
             v == [y EXCEPT !.timer = @ \ {t}]
  <2>1. /\ SoundBut(y, t)
        /\ y.cur = z.cur /\ y.stat = z.stat /\ y.prio = z.prio /\ y.timer = z.timer
        /\ y.yield = z.yield /\ y.err = z.err
        /\ \A u \in AllThreads : \A l \in WaitLists : InWait(y, u, l) <=> InWait(z, u, l) /\ u # t
        /\ \A l \in WaitLists : ~InWait(z, t, l) => y.wait[l] = z.wait[l]
    BY UnlinkSound
  <2>2. \A l \in WaitLists : y.wait[l] = RemoveFirst(z.wait[l], t)
    BY UnlinkType DEF Sound
  <2>3. x = rt_schedule_insert_thread(v, t)
    BY <1>2 DEF rt_thread_resume
  <2> HIDE DEF y, x
  <2>4. v = [cur |-> y.cur, stat |-> y.stat, prio |-> y.prio, ready |-> y.ready,
             wait |-> y.wait, timer |-> y.timer \ {t}, yield |-> y.yield, err |-> y.err]
    <3>1. SchedType(y) /\ v = [y EXCEPT !.timer = y.timer \ {t}]
      BY <2>1 DEF SoundBut
    <3> HIDE DEF v
    <3> QED BY <3>1 DEF SchedType
  <2> HIDE DEF v
  <2>5. /\ v.cur = y.cur /\ v.stat = y.stat /\ v.prio = y.prio /\ v.ready = y.ready
        /\ v.wait = y.wait /\ v.timer = y.timer \ {t} /\ v.yield = y.yield /\ v.err = y.err
    BY <2>4
  <2>6. SchedType(v)
    BY <2>1, <2>4, <2>5 DEF SoundBut, SchedType
  <2>7. SoundBut(v, t) /\ t \notin v.timer
    BY <2>1, <2>5, <2>6, SameSoundBut
  <2>8. /\ Sound(x)
        /\ x.cur = v.cur /\ x.prio = v.prio /\ x.wait = v.wait /\ x.timer = v.timer
        /\ x.yield = v.yield /\ x.err = v.err
        /\ x.stat = [v.stat EXCEPT ![t] = IF t = v.cur THEN "running" ELSE "ready"]
    BY <2>3, <2>7, InsertSound
  <2>9. x.stat[t] # "suspend" /\ \A u \in AllThreads \ {t} : x.stat[u] = z.stat[u]
    BY <2>1, <2>5, <2>6, <2>8 DEF SchedType
  <2>10. \A u \in AllThreads : \A l \in WaitLists : InWait(x, u, l) <=> InWait(z, u, l) /\ u # t
    BY <2>1, <2>5, <2>8 DEF InWait
  <2> QED BY <1>2, <2>1, <2>2, <2>5, <2>8, <2>9, <2>10 DEF x
<1> QED BY <1>1, <1>2

TimedOut(z, x, t) ==
  /\ Sound(x)
  /\ x.cur = z.cur /\ x.prio = z.prio /\ x.yield = z.yield
  /\ x.err = [z.err EXCEPT ![t] = "ERROR"]
  /\ x.timer = z.timer \ {t}
  /\ x.stat[t] # "suspend" /\ \A u \in AllThreads \ {t} : x.stat[u] = z.stat[u]
  /\ \A u \in AllThreads : \A l \in WaitLists : InWait(x, u, l) <=> InWait(z, u, l) /\ u # t

\* thread_timeout: the same for a thread whose timer expired.
LEMMA TimeoutSound ==
  ASSUME NEW z, Sound(z), NEW t \in z.timer
  PROVE  TimedOut(z, thread_timeout(z, t), t)
<1> DEFINE x == thread_timeout(z, t)
           y == Unlink(z, t)
           v == [y EXCEPT !.timer = @ \ {t}, !.err[t] = "ERROR"]
<1>1. t \in AllThreads
  BY DEF Sound, SchedType
<1>2. /\ SoundBut(y, t)
      /\ y.cur = z.cur /\ y.stat = z.stat /\ y.prio = z.prio /\ y.timer = z.timer
      /\ y.yield = z.yield /\ y.err = z.err
      /\ \A u \in AllThreads : \A l \in WaitLists : InWait(y, u, l) <=> InWait(z, u, l) /\ u # t
      /\ \A l \in WaitLists : ~InWait(z, t, l) => y.wait[l] = z.wait[l]
  BY <1>1, UnlinkSound
<1>3. x = rt_schedule_insert_thread(v, t)
  BY DEF thread_timeout
<1> HIDE DEF y, x
<1>4. v = [cur |-> y.cur, stat |-> y.stat, prio |-> y.prio, ready |-> y.ready,
           wait |-> y.wait, timer |-> y.timer \ {t}, yield |-> y.yield,
           err |-> [y.err EXCEPT ![t] = "ERROR"]]
  <2>1. /\ SchedType(y)
        /\ v = [y EXCEPT !.timer = y.timer \ {t}, !.err = [y.err EXCEPT ![t] = "ERROR"]]
    BY <1>2 DEF SoundBut
  <2> HIDE DEF v
  <2> QED BY <2>1 DEF SchedType
<1> HIDE DEF v
<1>5. /\ v.cur = y.cur /\ v.stat = y.stat /\ v.prio = y.prio /\ v.ready = y.ready
      /\ v.wait = y.wait /\ v.timer = y.timer \ {t} /\ v.yield = y.yield
      /\ v.err = [y.err EXCEPT ![t] = "ERROR"]
  BY <1>4
<1>6. SchedType(v)
  BY <1>1, <1>2, <1>4, <1>5 DEF SoundBut, SchedType
<1>7. SoundBut(v, t) /\ t \notin v.timer
  BY <1>2, <1>5, <1>6, SameSoundBut
<1>8. /\ Sound(x)
      /\ x.cur = v.cur /\ x.prio = v.prio /\ x.wait = v.wait /\ x.timer = v.timer
      /\ x.yield = v.yield /\ x.err = v.err
      /\ x.stat = [v.stat EXCEPT ![t] = IF t = v.cur THEN "running" ELSE "ready"]
  BY <1>1, <1>3, <1>7, InsertSound
<1>9. x.stat[t] # "suspend" /\ \A u \in AllThreads \ {t} : x.stat[u] = z.stat[u]
  BY <1>1, <1>2, <1>5, <1>6, <1>8 DEF SchedType
<1>10. \A u \in AllThreads : \A l \in WaitLists : InWait(x, u, l) <=> InWait(z, u, l) /\ u # t
  BY <1>2, <1>5, <1>8 DEF InWait
<1> QED BY <1>2, <1>5, <1>8, <1>9, <1>10 DEF x, TimedOut

PrioChanged(z, x, t, p) ==
  /\ Sound(x)
  /\ x.cur = z.cur /\ x.stat = z.stat /\ x.wait = z.wait /\ x.timer = z.timer
  /\ x.yield = z.yield /\ x.err = z.err /\ x.prio = [z.prio EXCEPT ![t] = p]

\* A change of priority moves a ready thread to another list, once.
LEMMA ChangePrioritySound ==
  ASSUME NEW z, Sound(z), NEW t \in AllThreads, NEW p \in Prios
  PROVE  PrioChanged(z, ChangePriority(z, t, p), t, p)
<1> DEFINE x == ChangePriority(z, t, p)
           prio == [z.prio EXCEPT ![t] = p]
<1>0. SchedType(z)
  BY DEF Sound
<1>1. CASE z.stat[t] # "ready"
  <2>1. x = [z EXCEPT !.prio = prio]
    BY <1>1 DEF ChangePriority
  <2> HIDE DEF x, prio
  <2>2. x = [cur |-> z.cur, stat |-> z.stat, prio |-> prio, ready |-> z.ready,
             wait |-> z.wait, timer |-> z.timer, yield |-> z.yield, err |-> z.err]
    BY <1>0, <2>1 DEF SchedType
  <2>3. /\ x.cur = z.cur /\ x.stat = z.stat /\ x.prio = prio /\ x.wait = z.wait
        /\ x.timer = z.timer /\ x.yield = z.yield /\ x.err = z.err /\ x.ready = z.ready
    BY <2>2
  <2>4. prio \in [AllThreads -> Prios] /\ \A u \in AllThreads \ {t} : prio[u] = z.prio[u]
    BY <1>0 DEF SchedType, prio
  <2>5. SchedType(x) /\ Lists(x)
    BY <2>2, <2>3, <2>4 DEF Sound, SchedType, Lists
  <2>6. ASSUME NEW u \in AllThreads PROVE Placed(x, u)
    BY <1>1, <2>3, <2>4 DEF Sound, Placed, InReady, InWait
  <2> QED BY <2>3, <2>5, <2>6 DEF Sound, x, prio, PrioChanged
<1>2. CASE z.stat[t] = "ready"
  <2> DEFINE y == Unlink(z, t)
             v == [y EXCEPT !.prio = [y.prio EXCEPT ![t] = p]]
  <2>1. /\ SoundBut(y, t)
        /\ y.cur = z.cur /\ y.stat = z.stat /\ y.prio = z.prio /\ y.timer = z.timer
        /\ y.yield = z.yield /\ y.err = z.err
        /\ \A l \in WaitLists : ~InWait(z, t, l) => y.wait[l] = z.wait[l]
    BY UnlinkSound
  <2>2. x = rt_schedule_insert_thread(v, t)
    BY <1>2 DEF ChangePriority
  <2>3. Placed(z, t)
    BY DEF Sound
  <2> HIDE DEF y, x
  <2>4. v = [cur |-> y.cur, stat |-> y.stat, prio |-> [y.prio EXCEPT ![t] = p], ready |-> y.ready,
             wait |-> y.wait, timer |-> y.timer, yield |-> y.yield, err |-> y.err]
    <3>1. SchedType(y) /\ v = [y EXCEPT !.prio = [y.prio EXCEPT ![t] = p]]
      BY <2>1 DEF SoundBut
    <3> HIDE DEF v
    <3> QED BY <3>1 DEF SchedType
  <2> HIDE DEF v
  <2>5. /\ v.cur = y.cur /\ v.stat = y.stat /\ v.prio = [y.prio EXCEPT ![t] = p]
        /\ v.ready = y.ready
        /\ v.wait = y.wait /\ v.timer = y.timer /\ v.yield = y.yield /\ v.err = y.err
    BY <2>4
  <2>6. SchedType(v)
    BY <2>1, <2>4, <2>5 DEF SoundBut, SchedType
  <2>7. \A u \in AllThreads \ {t} : v.prio[u] = y.prio[u]
    BY <2>1, <2>5 DEF SoundBut, SchedType
  <2>8. SoundBut(v, t) /\ t \notin v.timer
    BY <1>2, <2>1, <2>3, <2>5, <2>6, <2>7, SameSoundBut DEF Placed
  <2>9. /\ Sound(x)
        /\ x.cur = v.cur /\ x.prio = v.prio /\ x.wait = v.wait /\ x.timer = v.timer
        /\ x.yield = v.yield /\ x.err = v.err
        /\ x.stat = [v.stat EXCEPT ![t] = IF t = v.cur THEN "running" ELSE "ready"]
    BY <2>2, <2>8, InsertSound
  <2>10. x.stat = z.stat
    <3>1. t # v.cur
      BY <1>2, <2>1, <2>3, <2>5 DEF Placed
    <3> QED BY <1>0, <1>2, <2>1, <2>5, <2>9, <3>1 DEF SchedType
  <2>11. x.wait = z.wait
    <3>1. ASSUME NEW l \in WaitLists PROVE y.wait[l] = z.wait[l]
      BY <1>2, <2>1, <2>3 DEF Placed
    <3>2. SchedType(y)
      BY <2>1 DEF SoundBut
    <3> QED BY <1>0, <2>5, <2>9, <3>1, <3>2 DEF SchedType
  <2> QED BY <2>1, <2>5, <2>9, <2>10, <2>11 DEF x, PrioChanged
<1> QED BY <1>1, <1>2

\* Where ipc_list_suspend puts a thread.
Place(q, t, prio) == SelectInSeq(q, LAMBDA u : prio[t] < prio[u])

\* Whatever the discipline, ipc_list_suspend adds the thread once.
LEMMA QueuedAt ==
  ASSUME NEW S, NEW q \in Seq(S), NEW t \in S, IsInjective(q), t \notin Members(q),
         NEW prio, NEW flag
  PROVE  LET at == Place(q, t, prio)
             r == IF flag = "FIFO" \/ at = 0 THEN Append(q, t) ELSE InsertAt(q, at, t)
         IN AddsTo(r, S, q, t)
<1> DEFINE at == Place(q, t, prio)
           I == {i \in 1 .. Len(q) : prio[t] < prio[q[i]]}
<1>1. at = IF I # {} THEN Min(I) ELSE 0
  BY Zenon DEF SelectInSeq, Place
<1>2. I \subseteq 1 .. Len(q) /\ I \in SUBSET Nat /\ Len(q) \in Nat
  OBVIOUS
<1>3. at # 0 => at \in 1 .. Len(q) + 1
  <2> HIDE DEF at, I
  <2>1. CASE I # {}
    <3>1. PICK i \in I : \A j \in I : i <= j
      BY <1>2, <2>1, LeastOf
    <3>2. Min(I) \in I
      BY <3>1 DEF Min
    <3>3. at \in I
      BY <1>1, <2>1, <3>2
    <3> QED BY <1>2, <3>3
  <2> QED BY <1>1, <2>1
<1> HIDE DEF at, I
<1>4. AddsTo(Append(q, t), S, q, t)
  BY Added
<1>5. ASSUME NEW i \in 1 .. Len(q) + 1 PROVE AddsTo(InsertAt(q, i, t), S, q, t)
  BY Added
<1>6. AddsTo(IF flag = "FIFO" \/ at = 0 THEN Append(q, t) ELSE InsertAt(q, at, t), S, q, t)
  BY <1>3, <1>4, <1>5
<1> QED BY <1>6 DEF at

\* t, in no list, is suspended in list l.
PutToWait(z, x, t, l) ==
  /\ Sound(x)
  /\ x.cur = z.cur /\ x.prio = z.prio /\ x.yield = z.yield /\ x.err = z.err
  /\ x.timer = IF z.stat[t] = "suspend" THEN z.timer ELSE z.timer \ {t}
  /\ x.stat = [z.stat EXCEPT ![t] = "suspend"]
  /\ \A u \in AllThreads : \A k \in WaitLists :
       InWait(x, u, k) <=> InWait(z, u, k) \/ (u = t /\ k = l)

\* ipc_list_suspend: the thread waits in that list and in no other.
LEMMA SuspendSound ==
  ASSUME NEW z, NEW t \in Threads, SoundBut(z, t), z.stat[t] = "suspend" \/ t = z.cur,
         NEW l \in WaitLists, NEW flag
  PROVE  PutToWait(z, ipc_list_suspend(z, l, t, flag), t, l)
<1> DEFINE x == ipc_list_suspend(z, l, t, flag)
           stat == [z.stat EXCEPT ![t] = "suspend"]
           timer == IF z.stat[t] = "suspend" THEN z.timer ELSE z.timer \ {t}
<1>1. SchedType(z) /\ Lists(z) /\ Loose(z, t) /\ t \in AllThreads
  BY DEF SoundBut, AllThreads
<1>2. PICK q : q = z.wait[l]
  OBVIOUS
<1>14. q \in Seq(Threads) /\ IsInjective(q) /\ t \notin Members(q)
  BY <1>1, <1>2 DEF SchedType, Lists, Loose, InWait
<1>15. PICK prio : prio = z.prio
  OBVIOUS
<1> DEFINE at == Place(q, t, prio)
           r == IF flag = "FIFO" \/ at = 0 THEN Append(q, t) ELSE InsertAt(q, at, t)
<1>16. AddsTo(r, Threads, q, t)
  BY <1>14, QueuedAt
<1>3. r \in Seq(Threads) /\ IsInjective(r) /\ Members(r) = Members(q) \cup {t}
  <2> HIDE DEF r
  <2> QED BY <1>16 DEF AddsTo
<1>4. x = [z EXCEPT !.stat = stat, !.timer = timer, !.wait = [z.wait EXCEPT ![l] = r]]
  <2>1. CASE z.stat[t] = "suspend"
    <3>1. stat = z.stat
      BY <1>1, <2>1 DEF SchedType
    <3>2. x = [z EXCEPT !.wait = [z.wait EXCEPT ![l] = r]]
      BY <1>2, <1>15, <2>1 DEF ipc_list_suspend, Place
    <3> HIDE DEF x, r, stat
    <3> QED BY <1>1, <2>1, <3>1, <3>2 DEF SchedType
  <2>2. CASE z.stat[t] # "suspend"
    <3>1. PICK z1 : z1 = rt_thread_suspend(z, t)
      OBVIOUS
    <3>2. x = [z1 EXCEPT !.wait = [z1.wait EXCEPT ![l] = IF flag = "FIFO" \/ at = 0
                                                         THEN Append(@, t) ELSE InsertAt(@, at, t)]]
      BY <1>2, <1>15, <2>2, <3>1 DEF ipc_list_suspend, Place
    <3> HIDE DEF x, at
    <3>3. z1 = [z EXCEPT !.stat = stat, !.timer = timer]
      BY <2>2, <3>1 DEF rt_thread_suspend
    <3> HIDE DEF stat, timer
    <3>4. z1.wait = z.wait
      BY <1>1, <3>3 DEF SchedType
    <3>5. x = [z1 EXCEPT !.wait = [z.wait EXCEPT ![l] = r]]
      BY <1>2, <3>2, <3>4
    <3> HIDE DEF r
    <3> QED BY <1>1, <3>3, <3>5 DEF SchedType
  <2> QED BY <2>1, <2>2
<1> HIDE DEF x, r, stat, timer
<1>5. x = [cur |-> z.cur, stat |-> stat, prio |-> z.prio, ready |-> z.ready,
           wait |-> [z.wait EXCEPT ![l] = r], timer |-> timer, yield |-> z.yield, err |-> z.err]
  BY <1>1, <1>4 DEF SchedType
<1>6. /\ x.cur = z.cur /\ x.stat = stat /\ x.prio = z.prio /\ x.ready = z.ready
      /\ x.timer = timer /\ x.yield = z.yield /\ x.err = z.err
      /\ x.wait = [z.wait EXCEPT ![l] = r]
  BY <1>5
<1>7. x.wait[l] = r /\ \A k \in WaitLists \ {l} : x.wait[k] = z.wait[k]
  BY <1>1, <1>6 DEF SchedType
<1>8. /\ stat \in [AllThreads -> Stat] /\ stat[t] = "suspend"
      /\ \A u \in AllThreads \ {t} : stat[u] = z.stat[u]
      /\ timer \in SUBSET AllThreads /\ \A u \in AllThreads \ {t} : u \in timer <=> u \in z.timer
  BY <1>1 DEF SchedType, stat, timer, Stat
<1>9. SchedType(x)
  <2>1. x.wait \in [WaitLists -> Seq(Threads)]
    BY <1>1, <1>3, <1>6 DEF SchedType
  <2> QED BY <1>1, <1>5, <1>6, <1>8, <2>1 DEF SchedType
<1>10. Lists(x)
  BY <1>1, <1>3, <1>6, <1>7 DEF Lists
<1>11. ASSUME NEW u \in AllThreads, NEW k \in WaitLists
       PROVE  InWait(x, u, k) <=> InWait(z, u, k) \/ (u = t /\ k = l)
  BY <1>2, <1>3, <1>7 DEF InWait
<1>12. Placed(x, t)
  BY <1>1, <1>6, <1>8, <1>11 DEF Placed, Loose, InReady
<1>13. ASSUME NEW u \in AllThreads \ {t} PROVE Placed(x, u)
  <2>1. Placed(z, u)
    BY DEF SoundBut
  <2> QED BY <1>6, <1>8, <1>11, <2>1 DEF Placed, InReady
<1> QED BY <1>6, <1>9, <1>10, <1>11, <1>12, <1>13 DEF Sound, x, stat, timer, PutToWait

\* All but the running thread agree with their lists: what a switch starts from.
ReadyListed(z) ==
  \A u \in AllThreads : \A p \in Prios : InReady(z, u, p) <=> z.stat[u] = "ready" /\ p = z.prio[u]

\* u does not run, and it waits in at most one list, for something that can come.
WaitListed(z, u) ==
  /\ z.stat[u] # "running"
  /\ \A l \in WaitLists : InWait(z, u, l) => z.stat[u] = "suspend"
  /\ \A l, k \in WaitLists : InWait(z, u, l) /\ InWait(z, u, k) => l = k
  /\ u \in z.timer => z.stat[u] = "suspend"
  /\ z.stat[u] = "suspend" => u \in z.timer \/ \E l \in WaitLists : InWait(z, u, l)

\* A switch takes the next thread off its ready list and lets it run.
LEMMA SwitchSound ==
  ASSUME NEW v, SchedType(v), Lists(v), ReadyListed(v), NEW to \in AllThreads,
         v.stat[to] = "ready",
         \A u \in AllThreads : WaitListed(v, u)
  PROVE  LET x == [Unlink(v, to) EXCEPT !.cur = to, !.stat[to] = "running"] IN
         /\ Sound(x)
         /\ x.prio = v.prio /\ x.wait = v.wait /\ x.timer = v.timer /\ x.err = v.err
         /\ \A u \in AllThreads : x.stat[u] = "suspend" <=> v.stat[u] = "suspend"
<1> DEFINE y == Unlink(v, to)
           x == [y EXCEPT !.cur = to, !.stat[to] = "running"]
<1>1. /\ SchedType(y) /\ Lists(y)
      /\ y.cur = v.cur /\ y.stat = v.stat /\ y.prio = v.prio /\ y.timer = v.timer
      /\ y.yield = v.yield /\ y.err = v.err
      /\ \A p \in Prios : y.ready[p] = RemoveFirst(v.ready[p], to)
      /\ \A l \in WaitLists : y.wait[l] = RemoveFirst(v.wait[l], to)
  BY UnlinkType
<1>2. y.wait = v.wait
  <2>1. ASSUME NEW l \in WaitLists PROVE y.wait[l] = v.wait[l]
    <3>1. v.wait[l] \in Seq(Threads) /\ IsInjective(v.wait[l])
      BY DEF SchedType, Lists
    <3>2. to \notin Members(v.wait[l])
      BY DEF WaitListed, InWait
    <3> QED BY <1>1, <3>1, <3>2, RemovedFrom
  <2> QED BY <1>1, <2>1 DEF SchedType
<1>3. ASSUME NEW p \in Prios, NEW u PROVE InReady(y, u, p) <=> InReady(v, u, p) /\ u # to
  <2>1. v.ready[p] \in Seq(AllThreads) /\ IsInjective(v.ready[p])
    BY DEF SchedType, Lists
  <2>2. Members(y.ready[p]) = Members(v.ready[p]) \ {to}
    BY <1>1, <2>1, RemovedFrom
  <2> QED BY <2>2 DEF InReady
<1> HIDE DEF y
<1>4. x = [cur |-> to, stat |-> [y.stat EXCEPT ![to] = "running"], prio |-> y.prio,
           ready |-> y.ready, wait |-> y.wait, timer |-> y.timer, yield |-> y.yield, err |-> y.err]
  <2>1. SchedType(y) /\ x = [y EXCEPT !.cur = to, !.stat = [y.stat EXCEPT ![to] = "running"]]
    BY <1>1
  <2> HIDE DEF x
  <2> QED BY <2>1 DEF SchedType
<1> HIDE DEF x
<1>5. /\ x.cur = to /\ x.stat = [y.stat EXCEPT ![to] = "running"] /\ x.prio = y.prio
      /\ x.ready = y.ready /\ x.wait = y.wait /\ x.timer = y.timer /\ x.yield = y.yield
      /\ x.err = y.err
  BY <1>4
<1>6. x.stat[to] = "running" /\ \A u \in AllThreads \ {to} : x.stat[u] = v.stat[u]
  BY <1>1, <1>5 DEF SchedType
<1>7. SchedType(x) /\ Lists(x)
  <2>1. x.stat \in [AllThreads -> Stat]
    BY <1>1, <1>5 DEF SchedType, Stat
  <2> QED BY <1>1, <1>4, <1>5, <2>1 DEF SchedType, Lists
<1>8. Placed(x, to)
  <2>1. ASSUME NEW p \in Prios PROVE ~InReady(x, to, p)
    BY <1>3, <1>5 DEF InReady
  <2>2. to \notin v.timer /\ \A l \in WaitLists : ~InWait(v, to, l)
    BY DEF WaitListed
  <2> QED BY <1>1, <1>2, <1>5, <1>6, <2>1, <2>2 DEF Placed, InWait
<1>9. ASSUME NEW u \in AllThreads \ {to} PROVE Placed(x, u)
  <2>1. ASSUME NEW p \in Prios
        PROVE  InReady(x, u, p) <=> x.stat[u] = "ready" /\ p = x.prio[u]
    BY <1>1, <1>3, <1>5, <1>6 DEF InReady, ReadyListed
  <2>2. WaitListed(v, u) /\ \A l \in WaitLists : InWait(x, u, l) <=> InWait(v, u, l)
    BY <1>2, <1>5 DEF InWait
  <2> QED BY <1>1, <1>5, <1>6, <2>1, <2>2 DEF Placed, WaitListed
<1> QED BY <1>1, <1>2, <1>5, <1>6, <1>7, <1>8, <1>9 DEF Sound, x, y

\* The thread rt_schedule switches to is ready, and is not the running one.
LEMMA FirstReady ==
  ASSUME NEW z, Sound(z), ~\A p \in DOMAIN z.ready : z.ready[p] = <<>>
  PROVE  LET to == Head(z.ready[HighestReady(z)]) IN
         /\ to \in AllThreads /\ z.stat[to] = "ready" /\ to # z.cur
<1> DEFINE occupied == {p \in DOMAIN z.ready : z.ready[p] # <<>>}
<1>1. SchedType(z) /\ Lists(z) /\ DOMAIN z.ready = Prios
  BY DEF Sound, SchedType
<1>2. occupied \in SUBSET Nat /\ occupied # {} /\ occupied \subseteq Prios
  BY <1>1, ThreadAssumption DEF Prios
<1> HIDE DEF occupied
<1>3. PICK p \in occupied : \A q \in occupied : p <= q
  BY <1>2, LeastOf
<1>4. HighestReady(z) \in occupied
  BY <1>3 DEF HighestReady, occupied
<1>5. PICK hp \in Prios : hp = HighestReady(z) /\ z.ready[hp] # <<>>
  BY <1>2, <1>4 DEF occupied
<1>6. PICK q \in Seq(AllThreads) : q = z.ready[hp]
  BY <1>1 DEF SchedType
<1>7. Head(q) \in Members(q) /\ Head(q) \in AllThreads
  <2>1. q # <<>>
    BY <1>5, <1>6
  <2>2. Len(q) \in Nat /\ Len(q) # 0 /\ DOMAIN q = 1 .. Len(q)
    BY <2>1
  <2>3. 1 \in DOMAIN q /\ Head(q) = q[1]
    BY <2>1, <2>2
  <2> QED BY <2>2, <2>3 DEF Members
<1>8. InReady(z, Head(q), hp)
  BY <1>6, <1>7 DEF InReady
<1>9. Placed(z, Head(q))
  BY <1>7 DEF Sound
<1> QED BY <1>5, <1>6, <1>7, <1>8, <1>9 DEF Placed

\* rt_schedule: who is suspended stays so, in its list and with its timer.
LEMMA ScheduleSound ==
  ASSUME NEW z, Sound(z)
  PROVE  LET x == rt_schedule(z) IN
         /\ Sound(x)
         /\ x.prio = z.prio /\ x.wait = z.wait /\ x.timer = z.timer /\ x.err = z.err
         /\ \A u \in AllThreads : x.stat[u] = "suspend" <=> z.stat[u] = "suspend"
<1> DEFINE x == rt_schedule(z)
           c == z.cur
           to == Head(z.ready[HighestReady(z)])
           runs == z.stat[c] = "running"
           hp == HighestReady(z)
           keeps == runs /\ (z.prio[c] < hp \/ (z.prio[c] = hp /\ c \notin z.yield))
<1>0. SchedType(z) /\ Lists(z) /\ c \in AllThreads
  BY DEF Sound, SchedType
<1>1. CASE \A p \in DOMAIN z.ready : z.ready[p] = <<>>
  BY <1>1 DEF rt_schedule
<1>2. CASE ~\A p \in DOMAIN z.ready : z.ready[p] = <<>>
  <2>1. to \in AllThreads /\ z.stat[to] = "ready" /\ to # c
    BY <1>2, FirstReady
  <2>2. CASE keeps
    <3>1. x = [z EXCEPT !.yield = z.yield \ {c}]
      BY <1>2, <2>2 DEF rt_schedule
    <3>2. z.yield \ {c} \in SUBSET AllThreads
      BY <1>0 DEF SchedType
    <3> HIDE DEF x
    <3>3. /\ Sound(x) /\ x.stat = z.stat
          /\ x.prio = z.prio /\ x.wait = z.wait /\ x.timer = z.timer /\ x.err = z.err
      BY <3>1, <3>2, YieldSound
    <3> QED BY <3>3 DEF x
  <2>3. CASE ~keeps /\ ~runs
    <3>1. x = [Unlink(z, to) EXCEPT !.cur = to, !.stat[to] = "running"]
      BY <1>2, <2>3 DEF rt_schedule
    <3>2. ReadyListed(z)
      BY DEF Sound, Placed, ReadyListed
    <3>3. ASSUME NEW u \in AllThreads PROVE WaitListed(z, u)
      <4>1. Placed(z, u)
        BY DEF Sound
      <4> QED BY <2>3, <4>1 DEF Placed, WaitListed
    <3> HIDE DEF x, to
    <3>4. /\ Sound(x)
          /\ x.prio = z.prio /\ x.wait = z.wait /\ x.timer = z.timer /\ x.err = z.err
          /\ \A u \in AllThreads : x.stat[u] = "suspend" <=> z.stat[u] = "suspend"
      BY <1>0, <2>1, <3>1, <3>2, <3>3, SwitchSound
    <3> QED BY <3>4 DEF x
  <2>4. CASE ~keeps /\ runs
    <3> DEFINE put == Insert(z, c)
               v == [put EXCEPT !.yield = @ \ {c}]
    <3>1. x = [Unlink(v, to) EXCEPT !.cur = to, !.stat[to] = "running"]
      BY <1>2, <2>4 DEF rt_schedule
    <3>2. ~InReady(z, c, z.prio[c])
      <4>1. Placed(z, c) /\ z.prio[c] \in Prios
        BY <1>0 DEF Sound, SchedType
      <4> QED BY <2>4, <4>1 DEF Placed
    <3>3. /\ SchedType(put) /\ Lists(put)
          /\ put.cur = z.cur /\ put.stat = [z.stat EXCEPT ![c] = "ready"] /\ put.prio = z.prio
          /\ put.wait = z.wait /\ put.timer = z.timer /\ put.yield = z.yield /\ put.err = z.err
          /\ \A u \in AllThreads : \A p \in Prios :
               InReady(put, u, p) <=> InReady(z, u, p) \/ (u = c /\ p = z.prio[c])
      BY <1>0, <3>2, InsertType
    <3> HIDE DEF put, x, to
    <3>4. v = [cur |-> put.cur, stat |-> put.stat, prio |-> put.prio, ready |-> put.ready,
               wait |-> put.wait, timer |-> put.timer, yield |-> put.yield \ {c},
               err |-> put.err]
      <4>1. SchedType(put) /\ v = [put EXCEPT !.yield = put.yield \ {c}]
        BY <3>3
      <4> HIDE DEF v
      <4> QED BY <4>1 DEF SchedType
    <3> HIDE DEF v
    <3>5. /\ v.cur = put.cur /\ v.stat = put.stat /\ v.prio = put.prio /\ v.ready = put.ready
          /\ v.wait = put.wait /\ v.timer = put.timer /\ v.yield = put.yield \ {c}
          /\ v.err = put.err
      BY <3>4
    <3>6. SchedType(v) /\ Lists(v)
      BY <3>3, <3>4, <3>5 DEF SchedType, Lists
    <3>7. v.stat[c] = "ready" /\ \A u \in AllThreads \ {c} : v.stat[u] = z.stat[u]
      BY <1>0, <3>3, <3>5 DEF SchedType
    <3>8. ReadyListed(v)
      <4> SUFFICES ASSUME NEW u \in AllThreads, NEW p \in Prios
                   PROVE  InReady(v, u, p) <=> v.stat[u] = "ready" /\ p = v.prio[u]
        BY DEF ReadyListed
      <4>1. InReady(v, u, p) <=> InReady(z, u, p) \/ (u = c /\ p = z.prio[c])
        BY <3>3, <3>5 DEF InReady
      <4>2. InReady(z, u, p) <=> z.stat[u] = "ready" /\ p = z.prio[u]
        BY DEF Sound, Placed
      <4> QED BY <2>4, <3>3, <3>5, <3>7, <4>1, <4>2
    <3>9. ASSUME NEW u \in AllThreads PROVE WaitListed(v, u)
      <4>1. Placed(z, u)
        BY DEF Sound
      <4>2. \A l \in WaitLists : InWait(v, u, l) <=> InWait(z, u, l)
        BY <3>3, <3>5 DEF InWait
      <4> QED BY <2>4, <3>3, <3>5, <3>7, <4>1, <4>2 DEF Placed, WaitListed
    <3>10. v.stat[to] = "ready"
      BY <2>1, <3>7
    <3>11. /\ Sound(x)
           /\ x.prio = v.prio /\ x.wait = v.wait /\ x.timer = v.timer /\ x.err = v.err
           /\ \A u \in AllThreads : x.stat[u] = "suspend" <=> v.stat[u] = "suspend"
      BY <2>1, <3>1, <3>6, <3>8, <3>9, <3>10, SwitchSound, ZenonT(60)
    <3> QED BY <2>4, <3>3, <3>5, <3>7, <3>11 DEF x
  <2> QED BY <2>2, <2>3, <2>4
<1> QED BY <1>1, <1>2

\* One step of ipc_list_resume_all.
ResumeStep(y, t) == rt_thread_resume([y EXCEPT !.err[t] = "ERROR"], t)
ResumeFold(g, z, q, n) ==
  g = [I \in SUBSET (1 .. n) |-> IF I = {} THEN z ELSE ResumeStep(g[I \ {Max(I)}], q[Max(I)])]

\* The recursive function that resuming all of a list is exists.
LEMMA ResumeFoldExists ==
  ASSUME NEW z, NEW q, NEW n \in Nat
  PROVE  \E g : ResumeFold(g, z, q, n)
<1> DEFINE S == {k \in Nat : \E g : ResumeFold(g, z, q, k)}
<1>1. 0 \in S
  <2>1. \A I \in SUBSET (1 .. 0) : I = {}
    OBVIOUS
  <2> DEFINE g == [I \in SUBSET (1 .. 0) |-> z]
  <2>2. ResumeFold(g, z, q, 0)
    BY <2>1 DEF ResumeFold
  <2> QED BY <2>2
<1>2. ASSUME NEW k \in S PROVE k + 1 \in S
  <2>1. PICK g : ResumeFold(g, z, q, k)
    OBVIOUS
  <2>0. k \in Nat /\ k + 1 \in Nat
    OBVIOUS
  <2> DEFINE f == [I \in SUBSET (1 .. k + 1) |->
                     IF k + 1 \in I THEN ResumeStep(g[I \ {k + 1}], q[k + 1]) ELSE g[I]]
             e == [I \in SUBSET (1 .. k + 1) |->
                     IF I = {} THEN z ELSE ResumeStep(f[I \ {Max(I)}], q[Max(I)])]
  <2>2. ASSUME NEW I \in SUBSET (1 .. k) PROVE I \in SUBSET (1 .. k + 1) /\ f[I] = g[I]
    <3>1. k + 1 \notin I /\ I \in SUBSET (1 .. k + 1)
      BY <2>0
    <3> QED BY <3>1
  <2>3. ASSUME NEW I \in SUBSET (1 .. k + 1) PROVE f[I] = e[I]
    <3>1. CASE k + 1 \in I
      <4>1. I # {} /\ Max(I) = k + 1 /\ I \ {k + 1} \in SUBSET (1 .. k)
        BY <2>0, <3>1, UpTo
      <4>2. f[I \ {k + 1}] = g[I \ {k + 1}]
        BY <2>2, <4>1
      <4>3. f[I] = ResumeStep(g[I \ {k + 1}], q[k + 1])
        BY <3>1
      <4>4. e[I] = ResumeStep(f[I \ {k + 1}], q[k + 1])
        BY <4>1
      <4> HIDE DEF f, e
      <4> QED BY <4>2, <4>3, <4>4
    <3>2. CASE k + 1 \notin I
      <4>1. I \in SUBSET (1 .. k)
        BY <2>0, <3>2, UpTo
      <4>2. f[I] = g[I]
        BY <2>2, <4>1
      <4>3. g[I] = IF I = {} THEN z ELSE ResumeStep(g[I \ {Max(I)}], q[Max(I)])
        BY <2>1, <4>1 DEF ResumeFold
      <4>4. f[I \ {Max(I)}] = g[I \ {Max(I)}]
        BY <2>2, <4>1
      <4>5. e[I] = IF I = {} THEN z ELSE ResumeStep(f[I \ {Max(I)}], q[Max(I)])
        OBVIOUS
      <4> HIDE DEF f, e
      <4> QED BY <4>2, <4>3, <4>4, <4>5
    <3> QED BY <3>1, <3>2
  <2>4. f = e
    BY <2>3
  <2>5. ResumeFold(f, z, q, k + 1)
    BY <2>4 DEF ResumeFold
  <2> QED BY <2>0, <2>5
<1>3. S \in SUBSET Nat
  OBVIOUS
<1> HIDE DEF S
<1>4. S = Nat
  BY <1>1, <1>2, <1>3, UpFromZero
<1>5. n \in S
  BY <1>4
<1> QED BY <1>5 DEF S

\* ipc_list_resume_all is that function at the whole list.
LEMMA ResumeAllIsFold ==
  ASSUME NEW z, NEW l, NEW S, z.wait[l] \in Seq(S)
  PROVE  \E g : /\ ResumeFold(g, z, z.wait[l], Len(z.wait[l]))
                /\ ipc_list_resume_all(z, l) = g[1 .. Len(z.wait[l])]
<1>1. PICK q \in Seq(S) : q = z.wait[l]
  OBVIOUS
<1>2. DOMAIN q = 1 .. Len(q) /\ Len(q) \in Nat
  OBVIOUS
<1>3. PICK D : D = 1 .. Len(q)
  OBVIOUS
<1> DEFINE g == CHOOSE g : g = [I \in SUBSET D |->
                    IF I = {} THEN z ELSE ResumeStep(g[I \ {Max(I)}], q[Max(I)])]
<1>4. ipc_list_resume_all(z, l) = g[D]
  BY <1>1, <1>2, <1>3, Zenon DEF ipc_list_resume_all, FoldLeft, MapThenFoldSet, ResumeStep
<1>5. ResumeFold(g, z, q, Len(q))
  <2>1. PICK f : ResumeFold(f, z, q, Len(q))
    BY <1>2, ResumeFoldExists
  <2>2. f = [I \in SUBSET D |-> IF I = {} THEN z ELSE ResumeStep(f[I \ {Max(I)}], q[Max(I)])]
    BY <1>3, <2>1 DEF ResumeFold
  <2>3. g = [I \in SUBSET D |-> IF I = {} THEN z ELSE ResumeStep(g[I \ {Max(I)}], q[Max(I)])]
    BY <2>2, Zenon
  <2> QED BY <1>3, <2>3 DEF ResumeFold
<1> HIDE DEF g
<1> QED BY <1>1, <1>3, <1>4, <1>5

\* ipc_list_resume_all leaves the scheduler sound.
LEMMA ResumeAllSound ==
  ASSUME NEW z, Sound(z), NEW l \in WaitLists
  PROVE  Sound(ipc_list_resume_all(z, l))
<1>1. PICK q \in Seq(Threads) : q = z.wait[l]
  BY DEF Sound, SchedType
<1>2. PICK n \in Nat : n = Len(q)
  BY <1>1
<1>3. PICK g : ResumeFold(g, z, q, n) /\ ipc_list_resume_all(z, l) = g[1 .. n]
  BY <1>1, <1>2, ResumeAllIsFold
<1> DEFINE G == {I \in SUBSET (1 .. n) : Sound(g[I])}
<1>4. {} \in G
  <2>1. g[{}] = z
    BY <1>3 DEF ResumeFold
  <2> QED BY <2>1
<1>5. ASSUME NEW I \in SUBSET (1 .. n), I # {}, I \ {Max(I)} \in G PROVE I \in G
  <2>1. g[I] = ResumeStep(g[I \ {Max(I)}], q[Max(I)])
    BY <1>3, <1>5 DEF ResumeFold
  <2>2. PICK y : y = g[I \ {Max(I)}] /\ Sound(y)
    BY <1>5
  <2>3. PICK t \in AllThreads : t = q[Max(I)]
    <3>1. Max(I) \in 1 .. n
      BY <1>5, LastOf
    <3> QED BY <1>2, <3>1 DEF AllThreads
  <2>4. Sound(ResumeStep(y, t))
    <3>1. PICK v : v = [y EXCEPT !.err[t] = "ERROR"]
      OBVIOUS
    <3>2. Sound(v)
      BY <2>2, <3>1, ErrSound
    <3>3. Sound(rt_thread_resume(v, t))
      BY <3>2, ResumeSound
    <3> QED BY <3>1, <3>3 DEF ResumeStep
  <2> QED BY <2>1, <2>2, <2>3, <2>4
<1> HIDE DEF G
<1>6. 1 .. n \in G
  BY <1>4, <1>5, Folded
<1> QED BY <1>3, <1>6 DEF G

EventFold(g, z, q, n) ==
  g = [I \in SUBSET (1 .. n) |-> IF I = {} THEN z ELSE EventOffer(g[I \ {Max(I)}], q[Max(I)])]

\* The recursive function that offering an event to all waiters is exists.
LEMMA EventFoldExists ==
  ASSUME NEW z, NEW q, NEW n \in Nat
  PROVE  \E g : EventFold(g, z, q, n)
<1> DEFINE S == {k \in Nat : \E g : EventFold(g, z, q, k)}
<1>1. 0 \in S
  <2>1. \A I \in SUBSET (1 .. 0) : I = {}
    OBVIOUS
  <2> DEFINE g == [I \in SUBSET (1 .. 0) |-> z]
  <2>2. EventFold(g, z, q, 0)
    BY <2>1 DEF EventFold
  <2> QED BY <2>2
<1>2. ASSUME NEW k \in S PROVE k + 1 \in S
  <2>1. PICK g : EventFold(g, z, q, k)
    OBVIOUS
  <2>0. k \in Nat /\ k + 1 \in Nat
    OBVIOUS
  <2> DEFINE f == [I \in SUBSET (1 .. k + 1) |->
                     IF k + 1 \in I THEN EventOffer(g[I \ {k + 1}], q[k + 1]) ELSE g[I]]
             e == [I \in SUBSET (1 .. k + 1) |->
                     IF I = {} THEN z ELSE EventOffer(f[I \ {Max(I)}], q[Max(I)])]
  <2>2. ASSUME NEW I \in SUBSET (1 .. k) PROVE I \in SUBSET (1 .. k + 1) /\ f[I] = g[I]
    <3>1. k + 1 \notin I /\ I \in SUBSET (1 .. k + 1)
      BY <2>0
    <3> QED BY <3>1
  <2>3. ASSUME NEW I \in SUBSET (1 .. k + 1) PROVE f[I] = e[I]
    <3>1. CASE k + 1 \in I
      <4>1. I # {} /\ Max(I) = k + 1 /\ I \ {k + 1} \in SUBSET (1 .. k)
        BY <2>0, <3>1, UpTo
      <4>2. f[I \ {k + 1}] = g[I \ {k + 1}]
        BY <2>2, <4>1
      <4>3. f[I] = EventOffer(g[I \ {k + 1}], q[k + 1])
        BY <3>1
      <4>4. e[I] = EventOffer(f[I \ {k + 1}], q[k + 1])
        BY <4>1
      <4> HIDE DEF f, e
      <4> QED BY <4>2, <4>3, <4>4
    <3>2. CASE k + 1 \notin I
      <4>1. I \in SUBSET (1 .. k)
        BY <2>0, <3>2, UpTo
      <4>2. f[I] = g[I]
        BY <2>2, <4>1
      <4>3. g[I] = IF I = {} THEN z ELSE EventOffer(g[I \ {Max(I)}], q[Max(I)])
        BY <2>1, <4>1 DEF EventFold
      <4>4. f[I \ {Max(I)}] = g[I \ {Max(I)}]
        BY <2>2, <4>1
      <4>5. e[I] = IF I = {} THEN z ELSE EventOffer(f[I \ {Max(I)}], q[Max(I)])
        OBVIOUS
      <4> HIDE DEF f, e
      <4> QED BY <4>2, <4>3, <4>4, <4>5
    <3> QED BY <3>1, <3>2
  <2>4. f = e
    BY <2>3
  <2>5. EventFold(f, z, q, k + 1)
    BY <2>4 DEF EventFold
  <2> QED BY <2>0, <2>5
<1>3. S \in SUBSET Nat
  OBVIOUS
<1> HIDE DEF S
<1>4. S = Nat
  BY <1>1, <1>2, <1>3, UpFromZero
<1>5. n \in S
  BY <1>4
<1> QED BY <1>5 DEF S

\* The loop of rt_event_send is that function at the whole list.
LEMMA EventIsFold ==
  ASSUME NEW z, NEW S, NEW q \in Seq(S)
  PROVE  \E g : EventFold(g, z, q, Len(q)) /\ FoldLeft(EventOffer, z, q) = g[1 .. Len(q)]
<1>2. DOMAIN q = 1 .. Len(q) /\ Len(q) \in Nat
  OBVIOUS
<1>3. PICK D : D = 1 .. Len(q)
  OBVIOUS
<1> DEFINE g == CHOOSE g : g = [I \in SUBSET D |->
                    IF I = {} THEN z ELSE EventOffer(g[I \ {Max(I)}], q[Max(I)])]
<1>4. FoldLeft(EventOffer, z, q) = g[D]
  BY <1>2, <1>3, Zenon DEF FoldLeft, MapThenFoldSet
<1>5. EventFold(g, z, q, Len(q))
  <2>1. PICK f : EventFold(f, z, q, Len(q))
    BY <1>2, EventFoldExists
  <2>2. f = [I \in SUBSET D |-> IF I = {} THEN z ELSE EventOffer(f[I \ {Max(I)}], q[Max(I)])]
    BY <1>3, <2>1 DEF EventFold
  <2>3. g = [I \in SUBSET D |-> IF I = {} THEN z ELSE EventOffer(g[I \ {Max(I)}], q[Max(I)])]
    BY <2>2, Zenon
  <2> QED BY <1>3, <2>3 DEF EventFold
<1> HIDE DEF g
<1> QED BY <1>3, <1>4, <1>5

\* The loop of rt_event_send leaves the scheduler sound.
LEMMA EventSound ==
  ASSUME NEW a, Sound(a.s), NEW q \in Seq(Threads)
  PROVE  Sound(FoldLeft(EventOffer, a, q).s)
<1>2. PICK n \in Nat : n = Len(q)
  OBVIOUS
<1>3. PICK g : EventFold(g, a, q, n) /\ FoldLeft(EventOffer, a, q) = g[1 .. n]
  BY <1>2, EventIsFold
<1> DEFINE G == {I \in SUBSET (1 .. n) : Sound(g[I].s)}
<1>4. {} \in G
  <2>1. g[{}] = a
    BY <1>3 DEF EventFold
  <2> QED BY <2>1
<1>5. ASSUME NEW I \in SUBSET (1 .. n), I # {}, I \ {Max(I)} \in G PROVE I \in G
  <2>1. g[I] = EventOffer(g[I \ {Max(I)}], q[Max(I)])
    BY <1>3, <1>5 DEF EventFold
  <2>2. PICK y : y = g[I \ {Max(I)}] /\ Sound(y.s)
    BY <1>5
  <2>3. PICK t \in AllThreads : t = q[Max(I)]
    <3>1. Max(I) \in 1 .. n
      BY <1>5, LastOf
    <3> QED BY <1>2, <3>1 DEF AllThreads
  <2>4. Sound(EventOffer(y, t).s)
    <3>1. Sound(rt_thread_resume([y.s EXCEPT !.err[t] = "EOK"], t))
      BY <2>2, ErrSound, ResumeSound, ZenonT(60)
    <3> QED BY <2>2, <3>1 DEF EventOffer
  <2> QED BY <2>1, <2>2, <2>3, <2>4
<1> HIDE DEF G
<1>6. 1 .. n \in G
  BY <1>4, <1>5, Folded
<1> QED BY <1>3, <1>6 DEF G

\* A thread that runs is in no list and has no timer running.
LEMMA RunningLoose ==
  ASSUME NEW z, Sound(z), NEW t \in AllThreads, z.stat[t] = "running"
  PROVE  SoundBut(z, t) /\ t = z.cur /\ t \notin z.timer
<1>1. Placed(z, t)
  BY DEF Sound
<1> QED BY <1>1 DEF Sound, SoundBut, Loose, Placed

\* The running thread starts to wait in a list, with its timer.
LEMMA BlockSound ==
  ASSUME NEW z, Sound(z), NEW t \in Threads, z.stat[t] = "running", NEW l \in WaitLists, NEW flag,
         NEW e \in {"EOK", "ERROR"}
  PROVE  Sound(StartTimer(ipc_list_suspend([z EXCEPT !.err[t] = e], l, t, flag), t))
<1>1. PICK z1 : z1 = [z EXCEPT !.err[t] = e]
  OBVIOUS
<1>2. t \in AllThreads
  BY DEF AllThreads
<1>3. Sound(z1) /\ z1.stat = z.stat
  <2>1. Sound(z1)
    BY <1>1, <1>2, ErrSound, Zenon
  <2>2. z1.stat = z.stat
    BY <1>1 DEF Sound, SchedType
  <2> QED BY <2>1, <2>2
<1>4. SoundBut(z1, t) /\ t = z1.cur
  BY <1>2, <1>3, RunningLoose
<1>5. PICK z2 : z2 = ipc_list_suspend(z1, l, t, flag)
  OBVIOUS
<1>6. PutToWait(z1, z2, t, l)
  BY <1>4, <1>5, SuspendSound
<1>7. Sound(z2) /\ z2.stat[t] = "suspend"
  BY <1>2, <1>3, <1>6 DEF PutToWait, Sound, SchedType
<1>8. Sound(StartTimer(z2, t))
  BY <1>2, <1>7, TimerSound
<1> QED BY <1>1, <1>5, <1>8

\* The running thread t suspends itself, with its timer running, and is put
\* into at most one list.
LEMMA SelfSuspended ==
  ASSUME NEW z, NEW t \in Threads, SoundBut(z, t), t = z.cur, NEW x, SchedType(x), Lists(x),
         x.cur = z.cur, x.stat = [z.stat EXCEPT ![t] = "suspend"], x.prio = z.prio,
         x.ready = z.ready, x.timer = z.timer \cup {t},
         \A u \in AllThreads \ {t} : \A l \in WaitLists : InWait(x, u, l) <=> InWait(z, u, l),
         \A l, k \in WaitLists : InWait(x, t, l) /\ InWait(x, t, k) => l = k
  PROVE  Sound(x)
<1>1. t \in AllThreads
  BY DEF AllThreads
<1>2. x.stat[t] = "suspend" /\ \A u \in AllThreads \ {t} : x.stat[u] = z.stat[u]
  BY <1>1 DEF SoundBut, SchedType
<1>3. Placed(x, t)
  BY <1>1, <1>2 DEF SoundBut, Loose, Placed, InReady
<1>4. ASSUME NEW u \in AllThreads \ {t} PROVE Placed(x, u)
  <2>1. Placed(z, u)
    BY DEF SoundBut
  <2> QED BY <1>2, <2>1 DEF Placed, InReady
<1> QED BY <1>3, <1>4 DEF Sound

\* The running thread starts to sleep: in no list, but with its timer.
LEMMA SleepSound ==
  ASSUME NEW z, Sound(z), NEW t \in Threads, z.stat[t] = "running"
  PROVE  LET x == StartTimer(rt_thread_suspend(z, t), t)
         IN /\ Sound(x) /\ x.wait = z.wait /\ x.timer = z.timer \cup {t}
            /\ x.stat = [z.stat EXCEPT ![t] = "suspend"] /\ x.err = z.err
<1> DEFINE stat == [z.stat EXCEPT ![t] = "suspend"]
<1>1. SchedType(z) /\ t \in AllThreads /\ SoundBut(z, t) /\ t = z.cur
  BY RunningLoose DEF Sound, AllThreads
<1>2. PICK x : x = StartTimer(rt_thread_suspend(z, t), t)
  OBVIOUS
<1>3. x = [z EXCEPT !.stat = stat, !.timer = z.timer \cup {t}]
  <2>1. PICK y : y = rt_thread_suspend(z, t)
    OBVIOUS
  <2>2. y = [z EXCEPT !.stat = stat, !.timer = z.timer \ {t}]
    BY <2>1 DEF rt_thread_suspend
  <2>3. x = [y EXCEPT !.timer = y.timer \cup {t}]
    BY <1>2, <2>1 DEF StartTimer
  <2> HIDE DEF stat
  <2> QED BY <1>1, <2>2, <2>3 DEF SchedType
<1>4. x = [cur |-> z.cur, stat |-> stat, prio |-> z.prio, ready |-> z.ready,
           wait |-> z.wait, timer |-> z.timer \cup {t}, yield |-> z.yield, err |-> z.err]
  <2> HIDE DEF stat
  <2> QED BY <1>1, <1>3 DEF SchedType
<1>5. /\ x.cur = z.cur /\ x.stat = stat /\ x.prio = z.prio /\ x.ready = z.ready /\ x.wait = z.wait
      /\ x.timer = z.timer \cup {t} /\ x.yield = z.yield /\ x.err = z.err
  BY <1>4
<1>6. stat \in [AllThreads -> Stat]
  BY <1>1 DEF SchedType, Stat
<1>7. SchedType(x) /\ Lists(x)
  <2> HIDE DEF stat
  <2> QED BY <1>1, <1>4, <1>5, <1>6 DEF SoundBut, SchedType, Lists
<1>8. \A u \in AllThreads : \A l \in WaitLists : InWait(x, u, l) <=> InWait(z, u, l)
  BY <1>5 DEF InWait
<1>9. \A l, k \in WaitLists : InWait(x, t, l) /\ InWait(x, t, k) => l = k
  BY <1>1, <1>8 DEF SoundBut, Loose
<1> QED BY <1>1, <1>2, <1>5, <1>7, <1>8, <1>9, SelfSuspended

Stacked(z, x, t, l) ==
  /\ Sound(x) /\ x.stat = [z.stat EXCEPT ![t] = "suspend"] /\ x.err = z.err
  /\ \A u \in AllThreads : \A k \in WaitLists :
       InWait(x, u, k) <=> InWait(z, u, k) \/ (u = t /\ k = l)

\* rt_mp_alloc queues the running thread first, not last.
LEMMA StackSound ==
  ASSUME NEW z, Sound(z), NEW t \in Threads, z.stat[t] = "running", NEW l \in WaitLists
  PROVE  Stacked(z, StartTimer([rt_thread_suspend(z, t) EXCEPT !.wait[l] = <<t>> \o @], t), t, l)
<1> DEFINE stat == [z.stat EXCEPT ![t] = "suspend"]
<1>1. SchedType(z) /\ t \in AllThreads /\ SoundBut(z, t) /\ t = z.cur
  BY RunningLoose DEF Sound, AllThreads
<1>2. PICK x : x = StartTimer([rt_thread_suspend(z, t) EXCEPT !.wait[l] = <<t>> \o @], t)
  OBVIOUS
<1>10. PICK q \in Seq(Threads) : q = z.wait[l] /\ IsInjective(q) /\ t \notin Members(q)
  BY <1>1 DEF SoundBut, SchedType, Lists, Loose, InWait
<1>11. PICK r : r = <<t>> \o q
  OBVIOUS
<1>12. AddsTo(r, Threads, q, t)
  BY <1>10, <1>11, Added
<1>3. x = [z EXCEPT !.stat = stat, !.timer = z.timer \cup {t}, !.wait = [z.wait EXCEPT ![l] = r]]
  <2>1. PICK y : y = rt_thread_suspend(z, t)
    OBVIOUS
  <2>2. y = [z EXCEPT !.stat = stat, !.timer = z.timer \ {t}]
    BY <2>1 DEF rt_thread_suspend
  <2> HIDE DEF stat
  <2>3. y.wait = z.wait
    BY <1>1, <2>2 DEF SchedType
  <2>4. PICK v : v = [y EXCEPT !.wait = [y.wait EXCEPT ![l] = <<t>> \o y.wait[l]]]
    OBVIOUS
  <2>5. x = [v EXCEPT !.timer = v.timer \cup {t}]
    BY <1>2, <2>1, <2>4 DEF StartTimer
  <2>6. v = [y EXCEPT !.wait = [z.wait EXCEPT ![l] = r]]
    BY <1>10, <1>11, <2>3, <2>4
  <2> QED BY <1>1, <2>2, <2>5, <2>6 DEF SchedType
<1>4. x = [cur |-> z.cur, stat |-> stat, prio |-> z.prio, ready |-> z.ready,
           wait |-> [z.wait EXCEPT ![l] = r], timer |-> z.timer \cup {t}, yield |-> z.yield,
           err |-> z.err]
  <2> HIDE DEF stat
  <2> QED BY <1>1, <1>3 DEF SchedType
<1>5. /\ x.cur = z.cur /\ x.stat = stat /\ x.prio = z.prio /\ x.ready = z.ready
      /\ x.wait = [z.wait EXCEPT ![l] = r]
      /\ x.timer = z.timer \cup {t} /\ x.yield = z.yield /\ x.err = z.err
  BY <1>4
<1>6. stat \in [AllThreads -> Stat]
  BY <1>1 DEF SchedType, Stat
<1>13. x.wait[l] = r /\ \A k \in WaitLists \ {l} : x.wait[k] = z.wait[k]
  BY <1>1, <1>5 DEF SchedType
<1>7. SchedType(x) /\ Lists(x)
  <2> HIDE DEF stat
  <2>1. x.wait \in [WaitLists -> Seq(Threads)]
    BY <1>1, <1>5, <1>12 DEF SchedType, AddsTo
  <2>2. SchedType(x)
    BY <1>1, <1>4, <1>5, <1>6, <2>1 DEF SchedType
  <2>3. Lists(x)
    BY <1>1, <1>5, <1>12, <1>13 DEF SoundBut, Lists, AddsTo
  <2> QED BY <2>2, <2>3
<1>8. ASSUME NEW u \in AllThreads, NEW k \in WaitLists
      PROVE  InWait(x, u, k) <=> InWait(z, u, k) \/ (u = t /\ k = l)
  BY <1>10, <1>12, <1>13 DEF InWait, AddsTo
<1>9. \A k, j \in WaitLists : InWait(x, t, k) /\ InWait(x, t, j) => k = j
  BY <1>1, <1>8 DEF SoundBut, Loose
<1>14. \A u \in AllThreads \ {t} : \A k \in WaitLists : InWait(x, u, k) <=> InWait(z, u, k)
  BY <1>8
<1>15. Sound(x)
  BY <1>1, <1>5, <1>7, <1>9, <1>14, SelfSuspended
<1>16. Stacked(z, x, t, l)
  BY <1>5, <1>8, <1>15 DEF Stacked
<1> QED BY <1>2, <1>16, Zenon

\* Waking the first waiter and scheduling.
LEMMA WakeSound ==
  ASSUME NEW z, Sound(z), NEW l \in WaitLists, z.wait[l] # <<>>
  PROVE  Sound(rt_schedule(ipc_list_resume(z, l)))
<1>1. PICK t \in AllThreads : t = Head(z.wait[l])
  <2>1. z.wait[l] \in Seq(Threads)
    BY DEF Sound, SchedType
  <2> QED BY <2>1 DEF AllThreads
<1>2. PICK y : y = [z EXCEPT !.err[t] = "EOK"]
  OBVIOUS
<1>3. Sound(y)
  BY <1>2, ErrSound, Zenon
<1>4. Sound(rt_thread_resume(y, t))
  BY <1>3, ResumeSound
<1>5. ipc_list_resume(z, l) = rt_thread_resume(y, t)
  BY <1>1, <1>2 DEF ipc_list_resume
<1>6. Sound(ipc_list_resume(z, l))
  BY <1>4, <1>5
<1> QED BY <1>6, ScheduleSound

\* The invariant says what the property says.
LEMMA SoundIsPlaced == Sound(s) => ThreadsInPlace
<1> SUFFICES ASSUME Sound(s) PROVE ThreadsInPlace
  OBVIOUS
<1>1. SchedType(s) /\ Lists(s) /\ DOMAIN s.ready = Prios /\ DOMAIN s.wait = WaitLists
  BY DEF Sound, SchedType
<1>2. ASSUME NEW t \in AllThreads
      PROVE  /\ t # s.cur => s.stat[t] # "running"
             /\ ReadyAt(t) = IF s.stat[t] = "ready" THEN {s.prio[t]} ELSE {}
             /\ Cardinality(WaitsIn(t)) <= 1
             /\ IF s.stat[t] = "suspend" THEN WaitsIn(t) # {} \/ t \in s.timer
                ELSE WaitsIn(t) = {} /\ t \notin s.timer
  <2>1. Placed(s, t) /\ s.prio[t] \in Prios
    BY <1>1 DEF Sound, SchedType
  <2>2. ReadyAt(t) = IF s.stat[t] = "ready" THEN {s.prio[t]} ELSE {}
    BY <1>1, <2>1 DEF Placed, ReadyAt, InReady
  <2>3. WaitsIn(t) = {l \in WaitLists : InWait(s, t, l)}
    BY <1>1 DEF WaitsIn, InWait
  <2>4. Cardinality(WaitsIn(t)) <= 1
    <3>1. CASE WaitsIn(t) = {}
      BY <3>1, FS_EmptySet
    <3>2. CASE WaitsIn(t) # {}
      <4>1. PICK l : WaitsIn(t) = {l}
        BY <2>1, <2>3, <3>2 DEF Placed
      <4> QED BY <4>1, FS_Singleton
    <3> QED BY <3>1, <3>2
  <2> QED BY <2>1, <2>2, <2>3, <2>4 DEF Placed
<1>3. s.stat[s.cur] # "ready"
  BY <1>1 DEF Sound, SchedType, Placed
<1> QED BY <1>1, <1>2, <1>3 DEF ThreadsInPlace, Lists

\* All threads ready in the lists of their priorities, nobody waiting.
LEMMA InitSound ==
  ASSUME ThreadInit
  PROVE  Sound(s) /\ s.timer = {} /\ \A l \in WaitLists : s.wait[l] = <<>>
<1> DEFINE stat == [t \in AllThreads |-> IF t = Idle THEN "running" ELSE "ready"]
           ready == [p \in Prios |-> SetToSeq({t \in Threads : InitPrio[t] = p})]
           wait == [l \in WaitLists |-> <<>>]
           err == [t \in AllThreads |-> "EOK"]
<1>1. PICK z : z = [cur |-> Idle, stat |-> stat, prio |-> InitPrio, ready |-> ready, wait |-> wait,
                    timer |-> {}, yield |-> {}, err |-> err]
  OBVIOUS
<1>2. s = rt_schedule(z)
  BY <1>1 DEF ThreadInit
<1>3. ASSUME NEW p \in Prios
      PROVE  /\ ready[p] \in Seq(AllThreads) /\ IsInjective(ready[p])
             /\ Members(ready[p]) = {t \in Threads : InitPrio[t] = p}
  <2>1. PICK S : S = {t \in Threads : InitPrio[t] = p}
    OBVIOUS
  <2>2. IsFiniteSet(S) /\ S \subseteq AllThreads
    BY <2>1, ThreadAssumption, FS_Subset DEF AllThreads
  <2>3. PICK q : q = SetToSeq(S)
    OBVIOUS
  <2>4. q \in Seq(S) /\ IsInjective(q) /\ Members(q) = S
    BY <2>2, <2>3, SetListed
  <2>5. q \in Seq(AllThreads)
    BY <2>2, <2>4
  <2> QED BY <2>1, <2>3, <2>4, <2>5
<1>4. ready \in [Prios -> Seq(AllThreads)]
  BY <1>3
<1>5. /\ wait \in [WaitLists -> Seq(Threads)] /\ \A l \in WaitLists : IsInjective(wait[l])
      /\ \A l \in WaitLists : Members(wait[l]) = {}
  BY DEF IsInjective, Members
<1>6. stat \in [AllThreads -> Stat] /\ err \in [AllThreads -> {"EOK", "ERROR"}]
  BY DEF Stat
<1>7. Idle \in AllThreads /\ InitPrio \in [AllThreads -> Prios]
  BY ThreadAssumption DEF AllThreads, Prios
<1>8. SchedType(z) /\ Lists(z)
  <2> HIDE DEF ready, wait, stat, err
  <2> QED BY <1>1, <1>3, <1>4, <1>5, <1>6, <1>7 DEF SchedType, Lists
<1>9. ASSUME NEW t \in AllThreads PROVE Placed(z, t)
  <2>1. stat[t] = IF t = Idle THEN "running" ELSE "ready"
    OBVIOUS
  <2>2. t # Idle <=> t \in Threads
    BY ThreadAssumption DEF AllThreads
  <2> HIDE DEF ready, wait, stat, err
  <2>3. ASSUME NEW p \in Prios PROVE InReady(z, t, p) <=> z.stat[t] = "ready" /\ p = z.prio[t]
    BY <1>1, <1>3, <2>1, <2>2 DEF InReady
  <2>4. ASSUME NEW l \in WaitLists PROVE ~InWait(z, t, l)
    BY <1>1, <1>5 DEF InWait
  <2> QED BY <1>1, <2>1, <2>3, <2>4 DEF Placed
<1>10. Sound(z)
  BY <1>8, <1>9 DEF Sound
<1>11. z.timer = {} /\ \A l \in WaitLists : z.wait[l] = <<>>
  BY <1>1
<1> QED BY <1>2, <1>10, <1>11, ScheduleSound

\* An action that blocks its thread.
LEMMA BlockStep ==
  ASSUME Sound(s), NEW t \in Threads, Runs(t), NEW l \in WaitLists, NEW flag, NEW op, NEW arg,
         Block(t, l, flag, op, arg)
  PROVE  Sound(s')
<1>1. s.stat[t] = "running"
  BY DEF Runs
<1> QED BY <1>1, BlockSound DEF Block

\* An action that ends with a return value.
LEMMA ReturnStep ==
  ASSUME NEW t \in Threads, NEW z, Sound(z), Return(t, z)
  PROVE  Sound(s')
<1>1. t \in AllThreads
  BY DEF AllThreads
<1>2. s' = [z EXCEPT !.err[t] = "EOK"]
  BY DEF Return
<1> QED BY <1>1, <1>2, ErrSound, Zenon

\* The state a release leaves, whether somebody waits or not.
LEMMA WakeStep ==
  ASSUME Sound(s), NEW l \in WaitLists
  PROVE  Sound(Wake(l))
  BY WakeSound DEF Wake, Waiting

\* Ticks, timeouts, calls of rt_schedule and sleeping.
LEMMA ThreadStepSound == Sound(s) /\ ThreadStep => Sound(s')
<1> SUFFICES ASSUME Sound(s), ThreadStep PROVE Sound(s')
  OBVIOUS
<1>1. CASE Tick
  <2>1. CASE s' = rt_schedule([s EXCEPT !.yield = @ \cup {s.cur}])
    <3>1. PICK z : z = [s EXCEPT !.yield = s.yield \cup {s.cur}]
      OBVIOUS
    <3>2. s.yield \cup {s.cur} \in SUBSET AllThreads
      BY DEF Sound, SchedType
    <3>3. Sound(z)
      BY <3>1, <3>2, YieldSound
    <3> QED BY <2>1, <3>1, <3>3, ScheduleSound
  <2>2. CASE \E t \in s.timer : s' = rt_schedule(thread_timeout(s, t))
    <3>1. PICK t \in s.timer : s' = rt_schedule(thread_timeout(s, t))
      BY <2>2
    <3>2. PICK z : z = thread_timeout(s, t)
      OBVIOUS
    <3>3. Sound(z)
      BY <3>2, TimeoutSound DEF TimedOut
    <3> QED BY <3>1, <3>2, <3>3, ScheduleSound
  <2> QED BY <1>1, <2>1, <2>2 DEF Tick
<1>2. ASSUME NEW t \in Threads, CallSchedule(t) PROVE Sound(s')
  BY <1>2, ScheduleSound DEF CallSchedule
<1>3. ASSUME NEW t \in Threads, Sleep(t) PROVE Sound(s')
  <2>1. PICK z : z = [s EXCEPT !.err[t] = "ERROR"]
    OBVIOUS
  <2>2. Sound(z)
    BY <2>1, ErrSound, Zenon DEF AllThreads
  <2>3. z.stat[t] = "running"
    BY <1>3, <2>1 DEF Sleep, InUser, Runs, Sound, SchedType
  <2> QED BY <1>3, <2>1, <2>2, <2>3, SleepSound DEF Sleep
<1>4. ASSUME NEW t \in Threads, SleepOver(t) PROVE Sound(s')
  <2>1. t \in AllThreads
    BY DEF AllThreads
  <2>2. s' = [s EXCEPT !.err[t] = "EOK"]
    BY <1>4 DEF SleepOver
  <2> QED BY <2>1, <2>2, ErrSound, Zenon
<1> QED BY <1>1, <1>2, <1>3, <1>4 DEF ThreadStep

\* A thread that looks at an object runs.
LEMMA LooksRuns ==
  ASSUME NEW t, NEW op, NEW arg, Looks(t, op, arg)
  PROVE  Runs(t)
  BY DEF Looks, InUser, Woken

\* A blocking call that returns an error.
LEMMA FailsStep ==
  ASSUME Sound(s), NEW t \in Threads, NEW op, Fails(t, op)
  PROVE  Sound(s')
  BY ReturnStep DEF Fails

\* The suspend lists of an object.
LEMMA Lists2 == recv \in WaitLists /\ send \in WaitLists
  BY IpcAssumption DEF recv, send

\* A reset of an object with one list, or with two.
LEMMA ResetStep ==
  ASSUME Sound(s)
  PROVE  /\ \A l \in WaitLists : Sound(rt_schedule(ipc_list_resume_all(s, l)))
         /\ Sound(rt_schedule(ipc_list_resume_all(ipc_list_resume_all(s, recv), send)))
<1>1. ASSUME NEW l \in WaitLists PROVE Sound(rt_schedule(ipc_list_resume_all(s, l)))
  <2>1. PICK z : z = ipc_list_resume_all(s, l)
    OBVIOUS
  <2>2. Sound(z)
    BY <2>1, ResumeAllSound
  <2> QED BY <2>1, <2>2, ScheduleSound
<1>2. Sound(rt_schedule(ipc_list_resume_all(ipc_list_resume_all(s, recv), send)))
  <2>1. PICK z : z = ipc_list_resume_all(s, recv)
    OBVIOUS
  <2>2. Sound(z)
    BY <2>1, Lists2, ResumeAllSound
  <2>3. PICK y : y = ipc_list_resume_all(z, send)
    OBVIOUS
  <2>4. Sound(y)
    BY <2>2, <2>3, Lists2, ResumeAllSound
  <2> QED BY <2>1, <2>3, <2>4, ScheduleSound
<1> QED BY <1>1, <1>2

\* Semaphores.
LEMMA SemSound ==
  ASSUME Sound(s), NEW t \in Threads, SemStep(t)
  PROVE  Sound(s')
<1>1. CASE rt_sem_take(t)
  BY <1>1, BlockStep, Lists2 DEF rt_sem_take, InUser
<1>2. CASE sem_taken(t)
  BY <1>2, ReturnStep DEF sem_taken
<1>3. CASE Fails(t, "sem_take")
  BY <1>3, FailsStep
<1>4. CASE rt_sem_release(t)
  BY <1>4, WakeStep, Lists2 DEF rt_sem_release
<1>5. CASE rt_sem_control(t)
  BY <1>5, ResetStep, Lists2 DEF rt_sem_control
<1> QED BY <1>1, <1>2, <1>3, <1>4, <1>5 DEF SemStep

\* Event sets.
LEMMA EventStepSound ==
  ASSUME Sound(s), NEW t \in Threads, EventStep(t)
  PROVE  Sound(s')
<1>1. ASSUME NEW set, rt_event_send(t, set) PROVE Sound(s')
  <2>1. PICK a : a = [s |-> s, th |-> th, set |-> o.set \cup set]
    OBVIOUS
  <2>2. PICK q \in Seq(Threads) : q = s.wait[recv]
    BY Lists2 DEF Sound, SchedType
  <2>3. PICK end : end = FoldLeft(EventOffer, a, q)
    OBVIOUS
  <2>4. Sound(end.s)
    BY <2>1, <2>3, EventSound
  <2>5. s' = IF end.s = s THEN s ELSE rt_schedule(end.s)
    BY <1>1, <2>1, <2>2, <2>3 DEF rt_event_send
  <2>6. Sound(rt_schedule(end.s))
    BY <2>4, ScheduleSound
  <2> QED BY <2>5, <2>6
<1>2. ASSUME NEW wants, rt_event_recv(t, wants) PROVE Sound(s')
  BY <1>2, BlockStep, Lists2 DEF rt_event_recv, InUser
<1>3. CASE event_recved(t)
  BY <1>3, ReturnStep DEF event_recved
<1>4. CASE Fails(t, "event_recv")
  BY <1>4, FailsStep
<1>5. CASE rt_event_control(t)
  BY <1>5, ResetStep, Lists2 DEF rt_event_control
<1> QED BY <1>1, <1>2, <1>3, <1>4, <1>5 DEF EventStep

\* Mailboxes.
LEMMA MbSound ==
  ASSUME Sound(s), NEW t \in Threads, MbStep(t)
  PROVE  Sound(s')
<1>1. ASSUME NEW msg, rt_mb_send(t, msg) PROVE Sound(s')
  BY <1>1, BlockStep, ReturnStep, WakeStep, LooksRuns, Lists2 DEF rt_mb_send
<1>2. ASSUME NEW msg, rt_mb_urgent(t, msg) PROVE Sound(s')
  BY <1>2, WakeStep, Lists2 DEF rt_mb_urgent
<1>3. CASE rt_mb_recv(t)
  BY <1>3, BlockStep, ReturnStep, WakeStep, LooksRuns, Lists2 DEF rt_mb_recv
<1>4. CASE Fails(t, "mb_send") \/ Fails(t, "mb_recv")
  BY <1>4, FailsStep
<1>5. CASE rt_mb_control(t)
  BY <1>5, ResetStep DEF rt_mb_control
<1> QED BY <1>1, <1>2, <1>3, <1>4, <1>5 DEF MbStep

\* Message queues.
LEMMA MqSound ==
  ASSUME Sound(s), NEW t \in Threads, MqStep(t)
  PROVE  Sound(s')
<1>1. ASSUME NEW msg, rt_mq_send(t, msg) PROVE Sound(s')
  BY <1>1, BlockStep, ReturnStep, LooksRuns, Lists2 DEF rt_mq_send, TakesBlock
<1>2. ASSUME NEW msg, rt_mq_urgent(t, msg) PROVE Sound(s')
  BY <1>2 DEF rt_mq_urgent, TakesBlock
<1>3. CASE rt_mq_recv(t)
  BY <1>3, BlockStep, ReturnStep, LooksRuns, Lists2 DEF rt_mq_recv
<1>4. CASE mq_link(t)
  BY <1>4, ReturnStep, WakeStep, Lists2 DEF mq_link
<1>5. CASE mq_link_first(t)
  BY <1>5, ReturnStep, WakeStep, Lists2 DEF mq_link_first
<1>6. CASE mq_unlink(t)
  BY <1>6, ReturnStep, WakeStep, Lists2 DEF mq_unlink
<1>7. CASE Fails(t, "mq_send") \/ Fails(t, "mq_recv")
  BY <1>7, FailsStep
<1>8. CASE rt_mq_control(t)
  BY <1>8, ResetStep DEF rt_mq_control
<1> QED BY <1>1, <1>2, <1>3, <1>4, <1>5, <1>6, <1>7, <1>8 DEF MqStep

\* Memory pools.
LEMMA MpSound ==
  ASSUME Sound(s), NEW t \in Threads, MpStep(t)
  PROVE  Sound(s')
<1>1. CASE rt_mp_alloc(t)
  <2>1. CASE Return(t, s)
    BY <2>1, ReturnStep
  <2>2. ASSUME s' = StartTimer([rt_thread_suspend([s EXCEPT !.err[t] = "EOK"], t)
                                  EXCEPT !.wait[recv] = <<t>> \o @], t)
        PROVE  Sound(s')
    <3>1. PICK z : z = [s EXCEPT !.err[t] = "EOK"]
      OBVIOUS
    <3>2. Sound(z)
      BY <3>1, ErrSound, Zenon DEF AllThreads
    <3>3. z.stat[t] = "running"
      BY <1>1, <3>1, LooksRuns DEF rt_mp_alloc, Runs, Sound, SchedType
    <3>4. s' = StartTimer([rt_thread_suspend(z, t) EXCEPT !.wait[recv] = <<t>> \o @], t)
      BY <2>2, <3>1
    <3>5. Stacked(z, s', t, recv)
      BY <3>2, <3>3, <3>4, StackSound, Lists2, Zenon
    <3> QED BY <3>5 DEF Stacked
  <2> QED BY <1>1, <2>1, <2>2 DEF rt_mp_alloc
<1>2. CASE Fails(t, "mp_alloc")
  BY <1>2, FailsStep
<1>3. ASSUME NEW b, rt_mp_free(t, b) PROVE Sound(s')
  BY <1>3, WakeStep, Lists2 DEF rt_mp_free
<1> QED BY <1>1, <1>2, <1>3 DEF MpStep

\* Everything but the mutexes.
LEMMA IpcSound ==
  ASSUME Sound(s), IpcNext
  PROVE  Sound(s')
  BY SemSound, EventStepSound, MbSound, MqSound, MpSound, ThreadStepSound DEF IpcNext, IpcStep
=============================================================================
