--------------------------- MODULE RtKernelProofs ---------------------------
(***************************************************************************)
(* The threads are in place, the mutexes exclude and the timers go off on  *)
(* time, for every number of threads, mutexes and timers, every priority   *)
(* and every interleaving.                                                 *)
(*                                                                         *)
(* What a mutex step does to the scheduler is sound by the lemmas of       *)
(* RtThreadProofs; what is new is the fold over the chain of owners, whose *)
(* every step leaves all but priorities and the order in the lists alone.  *)
(* MutexInv, inductive together with Sound, says of each thread and mutex: *)
(* who takes part in what it claims, waits exactly where its               *)
(* pending_object says, and either has the mutex by its own account or was *)
(* handed it and has not run yet.                                          *)
(*                                                                         *)
(* The timers have an invariant of their own, TimerInv, and so has         *)
(* priority inheritance, BoostInv (both below).                            *)
(***************************************************************************)
EXTENDS RtThreadProofs

UpdateFold(g, z, q, n) ==
  g = [I \in SUBSET (1 .. n) |-> IF I = {} THEN z ELSE UpdateOne(g[I \ {Max(I)}], q[Max(I)])]

\* The recursive function that _thread_update_priority is exists.
LEMMA UpdateFoldExists ==
  ASSUME NEW z, NEW q, NEW n \in Nat
  PROVE  \E g : UpdateFold(g, z, q, n)
<1> DEFINE S == {k \in Nat : \E g : UpdateFold(g, z, q, k)}
<1>1. 0 \in S
  <2>1. \A I \in SUBSET (1 .. 0) : I = {}
    OBVIOUS
  <2> DEFINE g == [I \in SUBSET (1 .. 0) |-> z]
  <2>2. UpdateFold(g, z, q, 0)
    BY <2>1 DEF UpdateFold
  <2> QED BY <2>2
<1>2. ASSUME NEW k \in S PROVE k + 1 \in S
  <2>1. PICK g : UpdateFold(g, z, q, k)
    OBVIOUS
  <2>0. k \in Nat /\ k + 1 \in Nat
    OBVIOUS
  <2> DEFINE f == [I \in SUBSET (1 .. k + 1) |->
                     IF k + 1 \in I THEN UpdateOne(g[I \ {k + 1}], q[k + 1]) ELSE g[I]]
             e == [I \in SUBSET (1 .. k + 1) |->
                     IF I = {} THEN z ELSE UpdateOne(f[I \ {Max(I)}], q[Max(I)])]
  <2>2. ASSUME NEW I \in SUBSET (1 .. k) PROVE I \in SUBSET (1 .. k + 1) /\ f[I] = g[I]
    <3>1. k + 1 \notin I /\ I \in SUBSET (1 .. k + 1)
      BY <2>0
    <3> QED BY <3>1
  <2>3. ASSUME NEW I \in SUBSET (1 .. k + 1) PROVE f[I] = e[I]
    <3>1. CASE k + 1 \in I
      <4>1. I # {} /\ Max(I) = k + 1 /\ I \ {k + 1} \in SUBSET (1 .. k)
        BY <2>0, <3>1, UpTo
      <4>2. f[I \ {k + 1}] = g[I \ {k + 1}]
        BY <2>2, <4>1
      <4>3. f[I] = UpdateOne(g[I \ {k + 1}], q[k + 1])
        BY <3>1
      <4>4. e[I] = UpdateOne(f[I \ {k + 1}], q[k + 1])
        BY <4>1
      <4> HIDE DEF f, e
      <4> QED BY <4>2, <4>3, <4>4
    <3>2. CASE k + 1 \notin I
      <4>1. I \in SUBSET (1 .. k)
        BY <2>0, <3>2, UpTo
      <4>2. f[I] = g[I]
        BY <2>2, <4>1
      <4>3. g[I] = IF I = {} THEN z ELSE UpdateOne(g[I \ {Max(I)}], q[Max(I)])
        BY <2>1, <4>1 DEF UpdateFold
      <4>4. f[I \ {Max(I)}] = g[I \ {Max(I)}]
        BY <2>2, <4>1
      <4>5. e[I] = IF I = {} THEN z ELSE UpdateOne(f[I \ {Max(I)}], q[Max(I)])
        OBVIOUS
      <4> HIDE DEF f, e
      <4> QED BY <4>2, <4>3, <4>4, <4>5
    <3> QED BY <3>1, <3>2
  <2>4. f = e
    BY <2>3
  <2>5. UpdateFold(f, z, q, k + 1)
    BY <2>4 DEF UpdateFold
  <2> QED BY <2>0, <2>5
<1>3. S \in SUBSET Nat
  OBVIOUS
<1> HIDE DEF S
<1>4. S = Nat
  BY <1>1, <1>2, <1>3, UpFromZero
<1>5. n \in S
  BY <1>4
<1> QED BY <1>5 DEF S

\* _thread_update_priority is that function at the length of the chain.
LEMMA UpdateIsFold ==
  ASSUME NEW k, NEW n \in Nat
  PROVE  \E g : /\ UpdateFold(g, k, [i \in 1 .. n |-> i], n)
                /\ FoldLeft(UpdateOne, k, [i \in 1 .. n |-> i]) = g[1 .. n]
<1>1. PICK q : q = [i \in 1 .. n |-> i]
  OBVIOUS
<1>3. PICK D : D = 1 .. n
  OBVIOUS
<1>2. DOMAIN q = D
  BY <1>1, <1>3
<1> DEFINE g == CHOOSE g : g = [I \in SUBSET D |->
                    IF I = {} THEN k ELSE UpdateOne(g[I \ {Max(I)}], q[Max(I)])]
<1>4. FoldLeft(UpdateOne, k, q) = g[D]
  BY <1>2, Zenon DEF FoldLeft, MapThenFoldSet
<1>5. UpdateFold(g, k, q, n)
  <2>1. PICK f : UpdateFold(f, k, q, n)
    BY UpdateFoldExists
  <2>2. f = [I \in SUBSET D |-> IF I = {} THEN k ELSE UpdateOne(f[I \ {Max(I)}], q[Max(I)])]
    BY <1>3, <2>1 DEF UpdateFold
  <2>3. g = [I \in SUBSET D |-> IF I = {} THEN k ELSE UpdateOne(g[I \ {Max(I)}], q[Max(I)])]
    BY <2>2, Zenon
  <2> QED BY <1>3, <2>3 DEF UpdateFold
<1> HIDE DEF g
<1> QED BY <1>1, <1>3, <1>4, <1>5

MxType(y) ==
  /\ y = [owner |-> y.owner, hold |-> y.hold, prio |-> y.prio, taken |-> y.taken,
          pend |-> y.pend, CLAIMS |-> y.CLAIMS]
  /\ y.owner \in [Mutexes -> Threads \cup {None}] /\ y.hold \in [Mutexes -> Int]
  /\ y.prio \in [Mutexes -> Prios \cup {NoPrio}] /\ y.taken \in [Threads -> SUBSET Mutexes]
  /\ y.pend \in [Threads -> Mutexes \cup {None}]
  /\ y.CLAIMS \in [Mutexes -> [Threads -> Int]]

\* A thread that gives up a boost gets the priority of some thread.
LEMMA BasePrio ==
  ASSUME NEW y, MxType(y), NEW t \in Threads
  PROVE  thread_get_mutex_priority(y, t) \in Prios
<1> DEFINE S == {InitPrio[t]} \cup {y.prio[m] : m \in y.taken[t]}
<1>1. /\ InitPrio[t] \in Prios /\ InitPrio[t] \in Nat /\ InitPrio[t] < NoPrio
      /\ NoPrio \in Nat /\ Prios \in SUBSET Nat
  BY ThreadAssumption, MutexAssumption DEF Prios, AllThreads
<1>2. \A m \in y.taken[t] : y.prio[m] \in Prios \cup {NoPrio}
  BY DEF MxType
<1>3. S \in SUBSET Nat /\ S # {} /\ S \subseteq Prios \cup {NoPrio} /\ InitPrio[t] \in S
  BY <1>1, <1>2
<1> HIDE DEF S
<1>4. PICK p \in S : \A q \in S : p <= q
  BY <1>3, LeastOf
<1>5. Lowest(S) \in S /\ \A q \in S : Lowest(S) <= q
  BY <1>4 DEF Lowest
<1>6. Lowest(S) # NoPrio
  <2>1. PICK v \in Nat : v = Lowest(S)
    BY <1>3, <1>5
  <2>2. v <= InitPrio[t]
    BY <1>3, <1>5, <2>1
  <2> QED BY <1>1, <2>1, <2>2
<1> QED BY <1>3, <1>5, <1>6 DEF thread_get_mutex_priority, S

\* Of the fold: who comes next and at which priority.
UpdateType(k) ==
  /\ k = [z |-> k.z, y |-> k.y, t |-> k.t, p |-> k.p]
  /\ MxType(k.y) /\ k.t \in Threads \cup {None} /\ (k.t # None => k.p \in Prios)
  
PendWaits(z, y) == \A t \in Threads : \A m \in Mutexes : y.pend[t] = m => InWait(z, t, m)

\* What an update of priorities leaves alone.
SameButPrio(z, y, k) ==
  /\ k.z.cur = z.cur /\ k.z.stat = z.stat /\ k.z.timer = z.timer /\ k.z.err = z.err
  /\ k.y.owner = y.owner /\ k.y.hold = y.hold /\ k.y.taken = y.taken /\ k.y.pend = y.pend
  /\ k.y.CLAIMS = y.CLAIMS
  /\ PendWaits(z, y) =>
      \A u \in AllThreads : \A l \in WaitLists : InWait(k.z, u, l) <=> InWait(z, u, l)

\* One thread of the chain of owners: nobody leaves or enters a list.
LEMMA UpdateOneSound ==
  ASSUME NEW k, UpdateType(k), Sound(k.z), NEW i
  PROVE  LET x == UpdateOne(k, i) IN UpdateType(x) /\ Sound(x.z) /\ SameButPrio(k.z, k.y, x)
<1>0. MxType(k.y) /\ k.t \in Threads \cup {None} /\ None \notin Threads
  BY MutexAssumption DEF UpdateType, AllThreads
<1>1. CASE k.t = None
  <2>1. UpdateOne(k, i) = k
    BY <1>1 DEF UpdateOne
  <2> QED BY <2>1 DEF SameButPrio
<1>2. CASE k.t # None
  <2>1. PICK t \in Threads : t = k.t
    BY <1>0, <1>2
  <2>2. PICK z : z = ChangePriority(k.z, t, k.p)
    OBVIOUS
  <2>3. PICK m \in Mutexes \cup {None} : m = k.y.pend[t]
    BY <1>0 DEF MxType
  <2>4. /\ Sound(z)
        /\ z.cur = k.z.cur /\ z.stat = k.z.stat /\ z.wait = k.z.wait /\ z.timer = k.z.timer
        /\ z.yield = k.z.yield /\ z.err = k.z.err
    <3>1. PICK p \in Prios : p = k.p
      BY <1>2 DEF UpdateType
    <3>2. t \in AllThreads
      BY DEF AllThreads
    <3>3. PICK kz : kz = k.z
      OBVIOUS
    <3>4. z = ChangePriority(kz, t, p) /\ Sound(kz)
      BY <2>2, <3>1, <3>3
    <3>5. PrioChanged(kz, z, t, p)
      BY <3>2, <3>4, ChangePrioritySound
    <3> QED BY <3>3, <3>5 DEF PrioChanged
  <2>5. CASE z.stat[t] # "suspend" \/ m = None
    <3>1. UpdateOne(k, i) = [k EXCEPT !.z = z, !.t = None]
      BY <1>2, <2>1, <2>2, <2>3, <2>5 DEF UpdateOne
    <3>2. PICK x : x = UpdateOne(k, i)
      OBVIOUS
    <3>3. x = [z |-> z, y |-> k.y, t |-> None, p |-> k.p]
      BY <3>1, <3>2 DEF UpdateType
    <3>4. UpdateType(x) /\ Sound(x.z)
      BY <1>0, <2>4, <3>3 DEF UpdateType
    <3>5. SameButPrio(k.z, k.y, x)
      BY <2>4, <3>3 DEF SameButPrio, InWait
    <3> QED BY <3>2, <3>4, <3>5
  <2>6. CASE z.stat[t] = "suspend" /\ m # None
    <3>1. m \in WaitLists /\ m \in Mutexes /\ t \in AllThreads
      BY <2>6, MutexAssumption DEF AllThreads
    <3>2. PICK v : v = Unlink(z, t)
      OBVIOUS
    <3>3. PICK zq : zq = ipc_list_suspend(v, m, t, "PRIO")
      OBVIOUS
    <3>4. PICK y : y = [k.y EXCEPT !.prio[m] = FirstPrio(zq, m)]
      OBVIOUS
    <3>5. PICK up \in Threads \cup {None} : up = y.owner[m]
      <4>1. y.owner = k.y.owner
        BY <1>0, <3>4 DEF MxType
      <4> QED BY <1>0, <3>1, <4>1 DEF MxType
    <3>6. PICK p : p = thread_get_mutex_priority(y, up)
      OBVIOUS
    <3>7. PICK x : x = UpdateOne(k, i)
      OBVIOUS
    <3>8. x = [z |-> zq, y |-> y, t |-> IF p = zq.prio[up] THEN None ELSE up, p |-> p]
      <4>1. k.t = t /\ t # None /\ z = ChangePriority(k.z, t, k.p)
        BY <1>2, <2>1, <2>2
      <4>2. m = k.y.pend[t] /\ z.stat[t] = "suspend" /\ m # None
        BY <2>3, <2>6
      <4> QED BY <3>2, <3>3, <3>4, <3>5, <3>6, <3>7, <4>1, <4>2, SMTT(40) DEF UpdateOne
    <3>9. /\ SoundBut(v, t)
          /\ v.cur = z.cur /\ v.stat = z.stat /\ v.prio = z.prio /\ v.timer = z.timer
          /\ v.yield = z.yield /\ v.err = z.err
          /\ \A u \in AllThreads : \A l \in WaitLists : InWait(v, u, l) <=> InWait(z, u, l) /\ u # t
      BY <2>4, <3>1, <3>2, UnlinkSound
    <3>10. /\ Sound(zq)
           /\ zq.cur = v.cur /\ zq.prio = v.prio /\ zq.yield = v.yield /\ zq.err = v.err
           /\ zq.timer = v.timer /\ zq.stat = [v.stat EXCEPT ![t] = "suspend"]
           /\ \A u \in AllThreads : \A l \in WaitLists :
                InWait(zq, u, l) <=> InWait(v, u, l) \/ (u = t /\ l = m)
      <4>1. v.stat[t] = "suspend"
        BY <2>6, <3>9
      <4>2. PutToWait(v, zq, t, m)
        BY <3>1, <3>3, <3>9, <4>1, SuspendSound
      <4> QED BY <4>1, <4>2 DEF PutToWait
    <3>11. zq.stat = z.stat
      <4>1. v.stat \in [AllThreads -> Stat] /\ v.stat[t] = "suspend"
        BY <2>6, <3>9 DEF SoundBut, SchedType
      <4> QED BY <3>9, <3>10, <4>1
    <3>12. FirstPrio(zq, m) \in Prios \cup {NoPrio}
      <4>1. PICK q \in Seq(Threads) : q = zq.wait[m]
        BY <3>1, <3>10 DEF Sound, SchedType
      <4>2. q # <<>> => Head(q) \in AllThreads
        BY DEF AllThreads
      <4> QED BY <3>10, <4>1, <4>2 DEF FirstPrio, Sound, SchedType
    <3>13. y = [owner |-> k.y.owner, hold |-> k.y.hold,
                prio |-> [k.y.prio EXCEPT ![m] = FirstPrio(zq, m)],
                taken |-> k.y.taken, pend |-> k.y.pend, CLAIMS |-> k.y.CLAIMS]
      BY <1>0, <3>4 DEF MxType
    <3>14. MxType(y)
      <4>1. [k.y.prio EXCEPT ![m] = FirstPrio(zq, m)] \in [Mutexes -> Prios \cup {NoPrio}]
        BY <1>0, <3>12 DEF MxType
      <4>2. PICK f \in [Mutexes -> Prios \cup {NoPrio}] :
               f = [k.y.prio EXCEPT ![m] = FirstPrio(zq, m)]
        BY <4>1
      <4>3. y = [owner |-> k.y.owner, hold |-> k.y.hold, prio |-> f,
                taken |-> k.y.taken, pend |-> k.y.pend, CLAIMS |-> k.y.CLAIMS]
        BY <3>13, <4>2
      <4> QED BY <1>0, <4>3 DEF MxType
    <3>15. up # None => p \in Prios
      BY <3>6, <3>14, BasePrio
    <3>16. UpdateType(x)
      BY <3>8, <3>14, <3>15 DEF UpdateType
    <3>17. SameButPrio(k.z, k.y, x)
      <4>1. ASSUME PendWaits(k.z, k.y), NEW u \in AllThreads, NEW l \in WaitLists
            PROVE  InWait(zq, u, l) <=> InWait(k.z, u, l)
        <5>1. InWait(zq, u, l) <=> (InWait(k.z, u, l) /\ u # t) \/ (u = t /\ l = m)
          BY <2>4, <3>9, <3>10 DEF InWait
        <5>2. InWait(k.z, t, m) /\ Placed(k.z, t)
          BY <2>3, <3>1, <4>1 DEF PendWaits, Sound
        <5> QED BY <3>1, <5>1, <5>2 DEF Placed
      <4>2. x.z = zq /\ x.y = y
        BY <3>8
      <4>3. /\ y.owner = k.y.owner /\ y.hold = k.y.hold /\ y.taken = k.y.taken
            /\ y.pend = k.y.pend /\ y.CLAIMS = k.y.CLAIMS
        BY <3>13
      <4> QED BY <2>4, <3>9, <3>10, <3>11, <4>1, <4>2, <4>3 DEF SameButPrio
    <3> QED BY <3>7, <3>8, <3>10, <3>16, <3>17
  <2> QED BY <2>5, <2>6
<1> QED BY <1>1, <1>2

\* The whole chain.
LEMMA UpdateSound ==
  ASSUME NEW z, Sound(z), NEW y, MxType(y), NEW t \in Threads, NEW p \in Prios
  PROVE  LET x == thread_update_priority(z, y, t, p)
         IN Sound(x.z) /\ MxType(x.y) /\ SameButPrio(z, y, x)
<1>1. PICK n \in Nat : n = Cardinality(Threads) + 1
  BY ThreadAssumption, FS_CardinalityType
<1>2. PICK k : k = [z |-> z, y |-> y, t |-> t, p |-> p]
  OBVIOUS
<1>3. PICK x : x = thread_update_priority(z, y, t, p)
  OBVIOUS
<1>4. PICK g : UpdateFold(g, k, [i \in 1 .. n |-> i], n) /\ x = g[1 .. n]
  <2>1. x = FoldLeft(UpdateOne, k, [i \in 1 .. n |-> i])
    BY <1>1, <1>2, <1>3 DEF thread_update_priority
  <2> QED BY <2>1, UpdateIsFold
<1> DEFINE P(a) == UpdateType(a) /\ Sound(a.z) /\ SameButPrio(z, y, a)
           G == {I \in SUBSET (1 .. n) : P(g[I])}
<1>5. {} \in G
  <2>1. g[{}] = k
    BY <1>4 DEF UpdateFold
  <2>2. P(k)
    BY <1>2 DEF UpdateType, SameButPrio
  <2> QED BY <2>1, <2>2
<1>6. ASSUME NEW I \in SUBSET (1 .. n), I # {}, I \ {Max(I)} \in G PROVE I \in G
  <2>1. PICK i : g[I] = UpdateOne(g[I \ {Max(I)}], i)
    BY <1>4, <1>6 DEF UpdateFold
  <2>2. PICK a : a = g[I \ {Max(I)}] /\ P(a)
    BY <1>6
  <2>3. PICK b : b = UpdateOne(a, i)
    OBVIOUS
  <2>4. UpdateType(b) /\ Sound(b.z) /\ SameButPrio(a.z, a.y, b)
    BY <2>2, <2>3, UpdateOneSound
  <2>5. SameButPrio(z, y, b)
    <3>1. PendWaits(z, y) => PendWaits(a.z, a.y)
      BY <2>2, MutexAssumption DEF SameButPrio, PendWaits, AllThreads
    <3> QED BY <2>2, <2>4, <3>1 DEF SameButPrio
  <2> QED BY <2>1, <2>2, <2>3, <2>4, <2>5
<1> HIDE DEF G
<1>7. 1 .. n \in G
  BY <1>5, <1>6, Folded
<1>8. P(x)
  BY <1>4, <1>7 DEF G
<1> QED BY <1>3, <1>8 DEF UpdateType

ThType ==
  th \in [Threads -> [pc : {"user", "sched", "woken"}, op : {"none", "sleep", "mutex_take"},
                      arg : Mutexes \cup {"none"}]]

Claimed(t, m) ==
  /\ mx.CLAIMS[m][t] >= 0 /\ (mx.CLAIMS[m][t] > 0 => mx.owner[m] = t)
  /\ m \in mx.taken[t] <=> mx.owner[m] = t
Queued(t, m) ==
  /\ InWait(s, t, m) <=> mx.pend[t] = m
  /\ InWait(s, t, m) =>
       /\ th[t].op = "mutex_take" /\ th[t].arg = m /\ t \notin s.timer
       /\ mx.owner[m] \notin {t, None}
HandedOver(t, m) ==
  mx.owner[m] = t /\ mx.CLAIMS[m][t] = 0 /\ mx.hold[m] = 1 /\ ~InWait(s, t, m)
Owned(t, m) ==
  mx.owner[m] = t =>
    \/ mx.hold[m] = mx.CLAIMS[m][t] /\ mx.hold[m] > 0
    \/ HandedOver(t, m) /\ th[t].op = "mutex_take" /\ th[t].arg = m
AtTake(t) ==
  /\ th[t].op = "mutex_take" =>
       /\ th[t].arg \in Mutexes
       /\ HandedOver(t, th[t].arg) \/ InWait(s, t, th[t].arg)
  /\ th[t].pc = "user" => th[t].op = "none"
  /\ t \in s.timer => th[t].op = "sleep"
MutexInv ==
  /\ MxType(mx) /\ ThType
  /\ \A t \in Threads : AtTake(t) /\ \A m \in Mutexes : Claimed(t, m) /\ Queued(t, m) /\ Owned(t, m)
  /\ \A m \in Mutexes : mx.owner[m] = None => mx.hold[m] = 0
KernelInv == Sound(s) /\ (kind = "mutex" => MutexInv)

SameQueues == \A t \in Threads : \A m \in Mutexes : InWait(s', t, m) <=> InWait(s, t, m)

\* What moves no thread in or out of a wait list keeps the invariant, as long
\* as the calls in progress stay what they are.
LEMMA QuietStep ==
  ASSUME MutexInv, mx' = mx, SameQueues, ThType',
         \A t \in Threads :
           /\ th'[t].op = "mutex_take" <=> th[t].op = "mutex_take"
           /\ th[t].op = "mutex_take" => th'[t].arg = th[t].arg
           /\ th'[t].pc = "user" => th'[t].op = "none"
           /\ t \in s'.timer => th'[t].op = "sleep"
  PROVE  MutexInv'
<1>1. ASSUME NEW t \in Threads PROVE AtTake(t)'
  <2>1. AtTake(t)
    BY DEF MutexInv
  <2> QED BY <2>1 DEF AtTake, HandedOver, SameQueues
<1>2. ASSUME NEW t \in Threads, NEW m \in Mutexes
      PROVE  Claimed(t, m)' /\ Queued(t, m)' /\ Owned(t, m)'
  <2>1. Claimed(t, m) /\ Queued(t, m) /\ Owned(t, m)
    BY DEF MutexInv
  <2>2. t \in s'.timer => th'[t].op = "sleep"
    OBVIOUS
  <2> QED BY <2>1, <2>2 DEF Claimed, Queued, Owned, HandedOver, SameQueues
<1> QED BY <1>1, <1>2 DEF MutexInv

\* Threads and mutexes are among those the scheduler knows.
LEMMA InLists == Threads \subseteq AllThreads /\ Mutexes \subseteq WaitLists
  BY MutexAssumption DEF AllThreads

\* A tick, or a timeout: none of a thread that waits for a mutex.
LEMMA TickMutex ==
  ASSUME Sound(s), MutexInv, Tick, mx' = mx
  PROVE  MutexInv'
<1>1. SameQueues /\ s'.timer \subseteq s.timer
  <2>1. CASE s' = rt_schedule([s EXCEPT !.yield = @ \cup {s.cur}])
    <3>1. PICK z : z = [s EXCEPT !.yield = s.yield \cup {s.cur}]
      OBVIOUS
    <3>2. s.yield \cup {s.cur} \in SUBSET AllThreads
      BY DEF Sound, SchedType
    <3>3. Sound(z) /\ z.wait = s.wait /\ z.timer = s.timer
      BY <3>1, <3>2, YieldSound
    <3>4. s'.wait = s.wait /\ s'.timer = s.timer
      BY <2>1, <3>1, <3>3, ScheduleSound
    <3> QED BY <3>4 DEF SameQueues, InWait
  <2>2. CASE \E t \in s.timer : s' = rt_schedule(thread_timeout(s, t))
    <3>1. PICK t \in s.timer : s' = rt_schedule(thread_timeout(s, t))
      BY <2>2
    <3>2. PICK z : z = thread_timeout(s, t)
      OBVIOUS
    <3>3. TimedOut(s, z, t)
      BY <3>2, TimeoutSound
    <3>4. \A u \in AllThreads : \A l \in WaitLists : InWait(z, u, l) <=> InWait(s, u, l) /\ u # t
      BY <3>3 DEF TimedOut
    <3>5. Sound(z) /\ z.timer = s.timer \ {t}
      BY <3>3 DEF TimedOut
    <3>6. s'.wait = z.wait /\ s'.timer = z.timer
      BY <3>1, <3>2, <3>5, ScheduleSound
    <3>7. ASSUME NEW u \in Threads, NEW m \in Mutexes PROVE InWait(s', u, m) <=> InWait(s, u, m)
      <4>1. InWait(s, u, m) => u # t
        BY DEF MutexInv, Queued
      <4> QED BY <3>4, <3>6, <4>1, InLists DEF InWait
    <3> QED BY <3>5, <3>6, <3>7 DEF SameQueues
  <2> QED BY <2>1, <2>2 DEF Tick
<1>2. th' = th
  BY DEF Tick
<1>3. \A t \in Threads : AtTake(t)
  BY DEF MutexInv
<1>4. ThType'
  BY <1>2 DEF MutexInv, ThType
<1> QED BY <1>1, <1>2, <1>3, <1>4, QuietStep DEF AtTake

\* Ticks, calls of rt_schedule and sleeping.
LEMMA ThreadMutex ==
  ASSUME Sound(s), MutexInv, ThreadStep, mx' = mx
  PROVE  MutexInv'
<1>0. ThType /\ \A t \in Threads : AtTake(t)
  BY DEF MutexInv
<1>1. CASE Tick
  BY <1>1, TickMutex
<1>2. ASSUME NEW t \in Threads, CallSchedule(t) PROVE MutexInv'
  <2>1. s'.wait = s.wait /\ s'.timer = s.timer
    BY <1>2, ScheduleSound DEF CallSchedule
  <2>2. th' = [th EXCEPT ![t] = [th[t] EXCEPT !.pc = "woken"]]
    BY <1>2 DEF CallSchedule
  <2>3. th'[t] = [pc |-> "woken", op |-> th[t].op, arg |-> th[t].arg]
    BY <1>0, <2>2 DEF ThType
  <2>4. \A u \in Threads \ {t} : th'[u] = th[u]
    BY <1>0, <2>2 DEF ThType
  <2>5. ThType'
    <3>1. th'[t] \in [pc : {"user", "sched", "woken"}, op : {"none", "sleep", "mutex_take"},
                      arg : Mutexes \cup {"none"}]
      BY <1>0, <2>3 DEF ThType
    <3> QED BY <1>0, <2>2, <3>1 DEF ThType
  <2>6. SameQueues
    BY <2>1 DEF SameQueues, InWait
  <2>7. ASSUME NEW u \in Threads
        PROVE  /\ th'[u].op = "mutex_take" <=> th[u].op = "mutex_take"
               /\ th[u].op = "mutex_take" => th'[u].arg = th[u].arg
               /\ th'[u].pc = "user" => th'[u].op = "none"
               /\ u \in s'.timer => th'[u].op = "sleep"
    BY <1>0, <2>1, <2>3, <2>4 DEF AtTake
  <2> QED BY <2>5, <2>6, <2>7, QuietStep
<1>3. ASSUME NEW t \in Threads, Sleep(t) PROVE MutexInv'
  <2>1. s'.wait = s.wait /\ s'.timer = s.timer \cup {t}
    <3>1. PICK z : z = [s EXCEPT !.err[t] = "ERROR"]
      OBVIOUS
    <3>2. Sound(z)
      BY <3>1, ErrSound, Zenon DEF AllThreads
    <3>3. z.stat[t] = "running" /\ z.wait = s.wait /\ z.timer = s.timer
      BY <1>3, <3>1 DEF Sleep, InUser, Runs, Sound, SchedType
    <3>4. PICK x : x = StartTimer(rt_thread_suspend(z, t), t)
      OBVIOUS
    <3>5. x.wait = z.wait /\ x.timer = z.timer \cup {t}
      BY <3>2, <3>3, <3>4, SleepSound
    <3> QED BY <1>3, <3>1, <3>3, <3>4, <3>5 DEF Sleep
  <2>2. th' = [th EXCEPT ![t] = [pc |-> "sched", op |-> "sleep", arg |-> "none"]]
    <3>1. PICK r : r = [User EXCEPT !.pc = "sched", !.op = "sleep"]
      OBVIOUS
    <3>2. r = [pc |-> "sched", op |-> "sleep", arg |-> "none"]
      BY <3>1 DEF User
    <3>3. th' = [th EXCEPT ![t] = r]
      BY <1>3, <3>1 DEF Sleep
    <3> QED BY <3>2, <3>3
  <2>3. th'[t] = [pc |-> "sched", op |-> "sleep", arg |-> "none"]
    BY <1>0, <2>2 DEF ThType
  <2>4. \A u \in Threads \ {t} : th'[u] = th[u]
    BY <1>0, <2>2 DEF ThType
  <2>5. ThType'
    BY <1>0, <2>2 DEF ThType
  <2>6. SameQueues
    BY <2>1 DEF SameQueues, InWait
  <2>8. th[t].op = "none"
    BY <1>0, <1>3 DEF Sleep, InUser, AtTake
  <2>7. ASSUME NEW u \in Threads
        PROVE  /\ th'[u].op = "mutex_take" <=> th[u].op = "mutex_take"
               /\ th[u].op = "mutex_take" => th'[u].arg = th[u].arg
               /\ th'[u].pc = "user" => th'[u].op = "none"
               /\ u \in s'.timer => th'[u].op = "sleep"
    BY <1>0, <2>1, <2>3, <2>4, <2>8 DEF AtTake
  <2> QED BY <2>5, <2>6, <2>7, QuietStep
<1>4. ASSUME NEW t \in Threads, SleepOver(t) PROVE MutexInv'
  <2>1. s'.wait = s.wait /\ s'.timer = s.timer
    BY <1>4 DEF SleepOver, Sound, SchedType
  <2>2. th' = [th EXCEPT ![t] = [pc |-> "user", op |-> "none", arg |-> "none"]]
    BY <1>4 DEF SleepOver, User
  <2>3. th'[t] = [pc |-> "user", op |-> "none", arg |-> "none"]
    BY <1>0, <2>2 DEF ThType
  <2>4. \A u \in Threads \ {t} : th'[u] = th[u]
    BY <1>0, <2>2 DEF ThType
  <2>5. ThType'
    BY <1>0, <2>2 DEF ThType
  <2>6. SameQueues
    BY <2>1 DEF SameQueues, InWait
  <2>8. th[t].op = "sleep" /\ t \notin s.timer
    <3>1. t \in AllThreads /\ s.stat[t] = "running"
      BY <1>4, InLists DEF SleepOver, Woken, Runs
    <3> QED BY <1>4, <3>1, RunningLoose DEF SleepOver, Woken
  <2>7. ASSUME NEW u \in Threads
        PROVE  /\ th'[u].op = "mutex_take" <=> th[u].op = "mutex_take"
               /\ th[u].op = "mutex_take" => th'[u].arg = th[u].arg
               /\ th'[u].pc = "user" => th'[u].op = "none"
               /\ u \in s'.timer => th'[u].op = "sleep"
    BY <1>0, <2>1, <2>3, <2>4, <2>8 DEF AtTake
  <2> QED BY <2>5, <2>6, <2>7, QuietStep
<1> QED BY <1>1, <1>2, <1>3, <1>4 DEF ThreadStep

\* The priority of a mutex is that of some thread, or none.
LEMMA FirstPrioType ==
  ASSUME NEW z, Sound(z), NEW m \in Mutexes
  PROVE  FirstPrio(z, m) \in Prios \cup {NoPrio}
<1>1. PICK q \in Seq(Threads) : q = z.wait[m]
  BY InLists DEF Sound, SchedType
<1>2. q # <<>> => Head(q) \in AllThreads
  BY InLists
<1> QED BY <1>1, <1>2 DEF FirstPrio, Sound, SchedType

\* A thread that runs its own code waits for no mutex, and accounts for those it has.
AllHis(t) ==
  /\ s.stat[t] = "running" /\ t = s.cur /\ t \notin s.timer /\ th[t].op = "none"
  /\ \A m \in Mutexes : ~InWait(s, t, m)
  /\ \A m \in Mutexes : mx.owner[m] = t => mx.hold[m] = mx.CLAIMS[m][t] /\ mx.hold[m] > 0

LEMMA UserOwns ==
  ASSUME Sound(s), MutexInv, NEW t \in Threads, InUser(t)
  PROVE  AllHis(t)
<1>1. s.stat[t] = "running" /\ t = s.cur /\ t \notin s.timer /\ SoundBut(s, t)
  BY RunningLoose, InLists DEF InUser, Runs
<1>2. th[t].op = "none"
  BY DEF MutexInv, AtTake, InUser
<1>3. ASSUME NEW m \in Mutexes
      PROVE  /\ ~InWait(s, t, m)
             /\ mx.owner[m] = t => mx.hold[m] = mx.CLAIMS[m][t] /\ mx.hold[m] > 0
  <2>1. ~InWait(s, t, m)
    BY <1>1, InLists DEF SoundBut, Loose
  <2>2. Owned(t, m)
    BY DEF MutexInv
  <2> QED BY <1>2, <2>1, <2>2 DEF Owned
<1> QED BY <1>1, <1>2, <1>3 DEF AllHis

\* rt_mutex_take by the owner.
LEMMA TakeAgain ==
  ASSUME Sound(s), MutexInv, NEW t \in Threads, NEW m \in Mutexes, InUser(t), mx.owner[m] = t,
         mx' = [mx EXCEPT !.hold[m] = @ + 1, !.CLAIMS[m][t] = @ + 1], s' = s, th' = th
  PROVE  MutexInv'
<1>0. AllHis(t)
  BY UserOwns
<1>1. MxType(mx) /\ ThType
  BY DEF MutexInv
<1> DEFINE hold == [mx.hold EXCEPT ![m] = mx.hold[m] + 1]
           claims == [mx.CLAIMS EXCEPT ![m] = [mx.CLAIMS[m] EXCEPT ![t] = mx.CLAIMS[m][t] + 1]]
<1>2. mx' = [owner |-> mx.owner, hold |-> hold, prio |-> mx.prio, taken |-> mx.taken,
             pend |-> mx.pend, CLAIMS |-> claims]
  <2>1. mx' = [mx EXCEPT !.hold = hold, !.CLAIMS = claims]
    OBVIOUS
  <2> HIDE DEF hold, claims
  <2> QED BY <1>1, <2>1 DEF MxType
<1>3. /\ mx'.owner = mx.owner /\ mx'.taken = mx.taken /\ mx'.pend = mx.pend /\ mx'.prio = mx.prio
      /\ mx'.hold = hold /\ mx'.CLAIMS = claims
  BY <1>2
<1>4. /\ hold \in [Mutexes -> Int] /\ claims \in [Mutexes -> [Threads -> Int]]
      /\ \A k \in Mutexes : hold[k] = IF k = m THEN mx.hold[m] + 1 ELSE mx.hold[k]
      /\ \A k \in Mutexes : \A u \in Threads :
           claims[k][u] = IF k = m /\ u = t THEN mx.CLAIMS[m][t] + 1 ELSE mx.CLAIMS[k][u]
  BY <1>1 DEF MxType
<1> HIDE DEF hold, claims
<1>5. MxType(mx')
  BY <1>1, <1>2, <1>3, <1>4 DEF MxType
<1>6. ASSUME NEW u \in Threads, NEW k \in Mutexes
      PROVE  Claimed(u, k)' /\ Queued(u, k)' /\ Owned(u, k)'
  <2>1. Claimed(u, k) /\ Queued(u, k) /\ Owned(u, k)
    BY DEF MutexInv
  <2>2. mx.hold[m] = mx.CLAIMS[m][t] /\ mx.hold[m] > 0
    BY <1>0 DEF AllHis
  <2>3. mx.hold[k] \in Int /\ mx.CLAIMS[k][u] \in Int /\ mx.hold[m] \in Int
    BY <1>1 DEF MxType
  <2> QED BY <1>3, <1>4, <2>1, <2>2, <2>3 DEF Claimed, Queued, Owned, HandedOver
<1>7. ASSUME NEW u \in Threads PROVE AtTake(u)'
  <2>1. AtTake(u)
    BY DEF MutexInv
  <2>2. th[u].op = "mutex_take" => u # t
    BY <1>0 DEF AllHis
  <2>3. HandedOver(u, th[u].arg) /\ u # t /\ th[u].arg \in Mutexes => HandedOver(u, th[u].arg)'
    BY <1>3, <1>4 DEF HandedOver
  <2> QED BY <2>1, <2>2, <2>3 DEF AtTake
<1>8. ASSUME NEW k \in Mutexes, mx'.owner[k] = None PROVE mx'.hold[k] = 0
  <2>1. k # m
    BY <1>3, <1>8, MutexAssumption, InLists
  <2> QED BY <1>3, <1>4, <1>8, <2>1 DEF MutexInv
<1> QED BY <1>1, <1>5, <1>6, <1>7, <1>8 DEF MutexInv, ThType

\* rt_mutex_take of a free mutex.
LEMMA TakeFree ==
  ASSUME Sound(s), MutexInv, NEW t \in Threads, NEW m \in Mutexes, InUser(t), mx.owner[m] = None,
         mx' = [mx EXCEPT !.owner[m] = t, !.prio[m] = NoPrio, !.hold[m] = 1,
                          !.taken[t] = @ \cup {m}, !.CLAIMS[m][t] = @ + 1],
         s' = s, th' = th
  PROVE  MutexInv'
<1>1. MxType(mx) /\ ThType
  BY DEF MutexInv
<1> DEFINE owner == [mx.owner EXCEPT ![m] = t]
           prio == [mx.prio EXCEPT ![m] = NoPrio]
           hold == [mx.hold EXCEPT ![m] = 1]
           taken == [mx.taken EXCEPT ![t] = mx.taken[t] \cup {m}]
           claims == [mx.CLAIMS EXCEPT ![m] = [mx.CLAIMS[m] EXCEPT ![t] = mx.CLAIMS[m][t] + 1]]
<1>2. mx' = [owner |-> owner, hold |-> hold, prio |-> prio, taken |-> taken,
             pend |-> mx.pend, CLAIMS |-> claims]
  <2>1. mx' = [mx EXCEPT !.owner = owner, !.prio = prio, !.hold = hold, !.taken = taken,
                         !.CLAIMS = claims]
    OBVIOUS
  <2> HIDE DEF owner, prio, hold, taken, claims
  <2> QED BY <1>1, <2>1 DEF MxType
<1>3. /\ mx'.owner = owner /\ mx'.taken = taken /\ mx'.pend = mx.pend /\ mx'.prio = prio
      /\ mx'.hold = hold /\ mx'.CLAIMS = claims
  BY <1>2
<1>4. /\ hold \in [Mutexes -> Int] /\ claims \in [Mutexes -> [Threads -> Int]]
      /\ \A k \in Mutexes : hold[k] = IF k = m THEN 1 ELSE mx.hold[k]
      /\ \A k \in Mutexes : \A u \in Threads :
           claims[k][u] = IF k = m /\ u = t THEN mx.CLAIMS[m][t] + 1 ELSE mx.CLAIMS[k][u]
  BY <1>1 DEF MxType
<1>9. /\ owner \in [Mutexes -> Threads \cup {None}] /\ prio \in [Mutexes -> Prios \cup {NoPrio}]
      /\ taken \in [Threads -> SUBSET Mutexes]
      /\ \A k \in Mutexes : owner[k] = IF k = m THEN t ELSE mx.owner[k]
      /\ \A k \in Mutexes : \A u \in Threads :
           k \in taken[u] <=> k \in mx.taken[u] \/ (k = m /\ u = t)
  BY <1>1 DEF MxType
<1> HIDE DEF owner, prio, hold, taken, claims
<1>5. MxType(mx')
  BY <1>1, <1>2, <1>3, <1>4, <1>9 DEF MxType
<1>10. None \notin Threads
  BY MutexAssumption, InLists
<1>6. ASSUME NEW u \in Threads, NEW k \in Mutexes
      PROVE  Claimed(u, k)' /\ Queued(u, k)' /\ Owned(u, k)'
  <2>1. Claimed(u, k) /\ Queued(u, k) /\ Owned(u, k) /\ Claimed(t, m)
    BY DEF MutexInv
  <2>3. mx.hold[k] \in Int /\ mx.CLAIMS[k][u] \in Int /\ mx.CLAIMS[m][t] \in Int
    BY <1>1 DEF MxType
  <2>4. mx.CLAIMS[m][t] = 0
    BY <1>10, <2>1, <2>3 DEF Claimed
  <2> QED BY <1>3, <1>4, <1>9, <1>10, <2>1, <2>3, <2>4 DEF Claimed, Queued, Owned, HandedOver
<1>7. ASSUME NEW u \in Threads PROVE AtTake(u)'
  <2>1. AtTake(u)
    BY DEF MutexInv
  <2>3. HandedOver(u, th[u].arg) /\ th[u].arg \in Mutexes => HandedOver(u, th[u].arg)'
    BY <1>3, <1>4, <1>9, <1>10 DEF HandedOver
  <2> QED BY <2>1, <2>3 DEF AtTake
<1>8. ASSUME NEW k \in Mutexes, mx'.owner[k] = None PROVE mx'.hold[k] = 0
  BY <1>3, <1>4, <1>8, <1>9, <1>10 DEF MutexInv
<1> QED BY <1>1, <1>5, <1>6, <1>7, <1>8 DEF MutexInv, ThType

\* t waits for m, and the owner of m runs at the priority of t if that is higher.
Blocking(t, m, z, p, raised, y, end) ==
  /\ z = ipc_list_suspend(s, m, t, "PRIO") /\ p = s.prio[t] /\ raised \in BOOLEAN
  /\ y = [mx EXCEPT !.pend[t] = m, !.prio[m] = IF raised THEN p ELSE @]
  /\ end = IF raised /\ p < s.prio[mx.owner[m]]
           THEN thread_update_priority(z, y, mx.owner[m], p) ELSE [z |-> z, y |-> y]
  /\ s' = end.z /\ mx' = end.y
  /\ th' = [th EXCEPT ![t] = [pc |-> "sched", op |-> "mutex_take", arg |-> m]]

\* rt_mutex_take of a mutex another thread has.
LEMMA TakeBlocks ==
  ASSUME Sound(s), MutexInv, NEW t \in Threads, NEW m \in Mutexes, InUser(t),
         mx.owner[m] \notin {t, None},
         NEW z, NEW p, NEW raised, NEW y, NEW end, Blocking(t, m, z, p, raised, y, end)
  PROVE  Sound(s') /\ MutexInv'
<1> SUFFICES
      ASSUME z = ipc_list_suspend(s, m, t, "PRIO"), p = s.prio[t], raised \in BOOLEAN,
             y = [mx EXCEPT !.pend[t] = m, !.prio[m] = IF raised THEN p ELSE @],
             end = IF raised /\ p < s.prio[mx.owner[m]]
                   THEN thread_update_priority(z, y, mx.owner[m], p) ELSE [z |-> z, y |-> y],
             s' = end.z, mx' = end.y,
             th' = [th EXCEPT ![t] = [pc |-> "sched", op |-> "mutex_take", arg |-> m]]
      PROVE  Sound(s') /\ MutexInv'
  BY DEF Blocking
<1>1. MxType(mx) /\ ThType /\ AllHis(t)
  BY UserOwns DEF MutexInv
<1>2. t \in AllThreads /\ m \in WaitLists /\ None \notin Threads
  BY MutexAssumption, InLists
<1>3. SoundBut(s, t) /\ t = s.cur
  BY <1>1, <1>2, RunningLoose DEF AllHis
<1>4. PutToWait(s, z, t, m)
  BY <1>2, <1>3, SuspendSound
<1>5. /\ Sound(z) /\ z.timer = s.timer
      /\ \A u \in AllThreads : \A k \in WaitLists :
           InWait(z, u, k) <=> InWait(s, u, k) \/ (u = t /\ k = m)
  <2>1. z.timer = s.timer
    BY <1>1, <1>4 DEF PutToWait, AllHis
  <2> QED BY <1>4, <2>1 DEF PutToWait
<1>6. p \in Prios /\ mx.owner[m] \in Threads
  BY <1>1, <1>2 DEF Sound, SchedType, MxType
<1> DEFINE pend == [mx.pend EXCEPT ![t] = m]
           prio == [mx.prio EXCEPT ![m] = IF raised THEN p ELSE mx.prio[m]]
<1>7. y = [owner |-> mx.owner, hold |-> mx.hold, prio |-> prio, taken |-> mx.taken,
           pend |-> pend, CLAIMS |-> mx.CLAIMS]
  <2>1. y = [mx EXCEPT !.pend = pend, !.prio = prio]
    OBVIOUS
  <2> HIDE DEF pend, prio
  <2> QED BY <1>1, <2>1 DEF MxType
<1>8. /\ pend \in [Threads -> Mutexes \cup {None}] /\ prio \in [Mutexes -> Prios \cup {NoPrio}]
      /\ \A u \in Threads : pend[u] = IF u = t THEN m ELSE mx.pend[u]
  BY <1>1, <1>6 DEF MxType
<1> HIDE DEF pend, prio
<1>19. /\ y.owner = mx.owner /\ y.hold = mx.hold /\ y.prio = prio /\ y.taken = mx.taken
       /\ y.pend = pend /\ y.CLAIMS = mx.CLAIMS
  <2>1. PICK r : r = [owner |-> mx.owner, hold |-> mx.hold, prio |-> prio, taken |-> mx.taken,
                      pend |-> pend, CLAIMS |-> mx.CLAIMS]
    OBVIOUS
  <2>2. /\ r.owner = mx.owner /\ r.hold = mx.hold /\ r.prio = prio /\ r.taken = mx.taken
        /\ r.pend = pend /\ r.CLAIMS = mx.CLAIMS
    BY <2>1
  <2>3. y = r
    BY <1>7, <2>1
  <2> QED BY <2>2, <2>3
<1>9. MxType(y)
  BY <1>1, <1>7, <1>8, <1>19 DEF MxType
<1>10. PendWaits(z, y)
  <2>1. ASSUME NEW u \in Threads, NEW k \in Mutexes, y.pend[u] = k PROVE InWait(z, u, k)
    <3>1. Queued(u, k)
      BY DEF MutexInv
    <3> QED BY <1>5, <1>7, <1>8, <2>1, <3>1, InLists DEF Queued
  <2> QED BY <2>1 DEF PendWaits
<1>11. Sound(end.z) /\ MxType(end.y) /\ SameButPrio(z, y, end)
  <2>1. CASE end = [z |-> z, y |-> y]
    <3>1. end.z = z /\ end.y = y
      BY <2>1
    <3> QED BY <1>5, <1>9, <3>1 DEF SameButPrio
  <2>2. CASE end = thread_update_priority(z, y, mx.owner[m], p)
    <3>1. PICK v \in Threads : v = mx.owner[m]
      BY <1>6
    <3>2. end = thread_update_priority(z, y, v, p)
      BY <2>2, <3>1
    <3>3. Sound(z) /\ MxType(y) /\ p \in Prios
      BY <1>5, <1>6, <1>9
    <3> QED BY <3>2, <3>3, UpdateSound, ZenonT(60)
  <2> QED BY <2>1, <2>2
<1>12. /\ Sound(s') /\ MxType(mx') /\ s'.timer = s.timer
       /\ mx'.owner = mx.owner /\ mx'.hold = mx.hold /\ mx'.taken = mx.taken
       /\ mx'.CLAIMS = mx.CLAIMS /\ mx'.pend = pend
  <2>1. /\ end.z.timer = z.timer
        /\ end.y.owner = y.owner /\ end.y.hold = y.hold /\ end.y.taken = y.taken
        /\ end.y.CLAIMS = y.CLAIMS /\ end.y.pend = y.pend
    BY <1>11 DEF SameButPrio
  <2> QED BY <1>5, <1>11, <1>19, <2>1
<1>13. ASSUME NEW u \in Threads, NEW k \in Mutexes
       PROVE  InWait(s', u, k) <=> InWait(s, u, k) \/ (u = t /\ k = m)
  BY <1>5, <1>10, <1>11, InLists DEF SameButPrio
<1>14. /\ th'[t] = [pc |-> "sched", op |-> "mutex_take", arg |-> m]
       /\ \A u \in Threads \ {t} : th'[u] = th[u]
  BY <1>1 DEF ThType
<1>15. ThType'
  BY <1>1 DEF ThType
<1>16. ASSUME NEW u \in Threads, NEW k \in Mutexes
       PROVE  Claimed(u, k)' /\ Queued(u, k)' /\ Owned(u, k)'
  <2>1. Claimed(u, k) /\ Queued(u, k) /\ Owned(u, k)
    BY DEF MutexInv
  <2>2. Claimed(u, k)'
    BY <1>12, <2>1 DEF Claimed
  <2>3. Queued(u, k)'
    <3>1. CASE u = t
      <4>1. InWait(s', t, k) <=> k = m
        BY <1>1, <1>13 DEF AllHis
      <4>2. mx'.pend[t] = k <=> k = m
        BY <1>8, <1>12
      <4>3. th'[t].op = "mutex_take" /\ th'[t].arg = m
        BY <1>14
      <4>4. t \notin s'.timer /\ mx'.owner[m] \notin {t, None}
        BY <1>1, <1>12 DEF AllHis
      <4> QED BY <3>1, <4>1, <4>2, <4>3, <4>4 DEF Queued
    <3>2. CASE u # t
      BY <1>8, <1>12, <1>13, <1>14, <2>1, <3>2, ZenonT(60) DEF Queued
    <3> QED BY <3>1, <3>2
  <2>4. Owned(u, k)'
    <3>1. CASE u = t
      BY <1>1, <1>12, <3>1 DEF Owned, AllHis
    <3>2. CASE u # t
      BY <1>12, <1>13, <1>14, <2>1, <3>2 DEF Owned, HandedOver
    <3> QED BY <3>1, <3>2
  <2> QED BY <2>2, <2>3, <2>4
<1>17. ASSUME NEW u \in Threads PROVE AtTake(u)'
  <2>1. AtTake(u)
    BY DEF MutexInv
  <2>2. CASE u = t
    <3>1. InWait(s', t, m) /\ t \notin s'.timer
      BY <1>1, <1>12, <1>13 DEF AllHis
    <3> QED BY <1>14, <2>2, <3>1, SMTT(40) DEF AtTake
  <2>3. CASE u # t
    BY <1>12, <1>13, <1>14, <2>1, <2>3 DEF AtTake, HandedOver
  <2> QED BY <2>2, <2>3
<1>18. ASSUME NEW k \in Mutexes, mx'.owner[k] = None PROVE mx'.hold[k] = 0
  BY <1>12, <1>18 DEF MutexInv
<1> QED BY <1>12, <1>15, <1>16, <1>17, <1>18 DEF MutexInv, ThType

\* rt_mutex_take returns to a thread the mutex was handed to.
LEMMA Taken ==
  ASSUME Sound(s), MutexInv, NEW t \in Threads, mutex_taken(t)
  PROVE  MutexInv'
<1>1. MxType(mx) /\ ThType /\ AtTake(t)
  BY DEF MutexInv
<1>2. PICK m \in Mutexes : m = th[t].arg
  BY <1>1 DEF mutex_taken, Woken, AtTake
<1>3. ~InWait(s, t, m) /\ t \notin s.timer /\ \A k \in Mutexes : ~InWait(s, t, k)
  <2>1. SoundBut(s, t) /\ t \notin s.timer
    BY RunningLoose, InLists DEF mutex_taken, Woken, Runs
  <2> QED BY <2>1, InLists DEF SoundBut, Loose
<1>4. HandedOver(t, m)
  BY <1>1, <1>2, <1>3 DEF AtTake, mutex_taken, Woken
<1> DEFINE claims == [mx.CLAIMS EXCEPT ![m] = [mx.CLAIMS[m] EXCEPT ![t] = mx.CLAIMS[m][t] + 1]]
<1>5. mx' = [owner |-> mx.owner, hold |-> mx.hold, prio |-> mx.prio, taken |-> mx.taken,
             pend |-> mx.pend, CLAIMS |-> claims]
  <2>1. mx' = [mx EXCEPT !.CLAIMS = claims]
    BY <1>2 DEF mutex_taken
  <2> HIDE DEF claims
  <2> QED BY <1>1, <2>1 DEF MxType
<1>6. /\ claims \in [Mutexes -> [Threads -> Int]]
      /\ \A k \in Mutexes : \A u \in Threads :
           claims[k][u] = IF k = m /\ u = t THEN mx.CLAIMS[m][t] + 1 ELSE mx.CLAIMS[k][u]
  BY <1>1 DEF MxType
<1> HIDE DEF claims
<1>7. /\ mx'.owner = mx.owner /\ mx'.taken = mx.taken /\ mx'.pend = mx.pend /\ mx'.prio = mx.prio
      /\ mx'.hold = mx.hold /\ mx'.CLAIMS = claims /\ s' = s
  BY <1>5 DEF mutex_taken
<1>8. MxType(mx')
  BY <1>1, <1>5, <1>6, <1>7 DEF MxType
<1>9. /\ th'[t] = [pc |-> "user", op |-> "none", arg |-> "none"]
      /\ \A u \in Threads \ {t} : th'[u] = th[u]
  BY <1>1 DEF ThType, mutex_taken, User
<1>10. ThType'
  BY <1>1 DEF ThType, mutex_taken, User
<1>11. ASSUME NEW u \in Threads, NEW k \in Mutexes
       PROVE  Claimed(u, k)' /\ Queued(u, k)' /\ Owned(u, k)'
  <2>1. Claimed(u, k) /\ Queued(u, k) /\ Owned(u, k)
    BY DEF MutexInv
  <2>2. mx.hold[k] \in Int /\ mx.CLAIMS[k][u] \in Int
    BY <1>1 DEF MxType
  <2>3. Claimed(u, k)'
    BY <1>4, <1>6, <1>7, <2>1, <2>2 DEF Claimed, HandedOver
  <2>4. Queued(u, k)'
    BY <1>3, <1>7, <1>9, <2>1 DEF Queued
  <2>5. Owned(u, k)'
    <3>1. CASE u = t /\ k = m
      BY <1>4, <1>6, <1>7, <3>1 DEF Owned, HandedOver
    <3>2. CASE u = t /\ k # m
      BY <1>2, <1>6, <1>7, <2>1, <3>2 DEF Owned
    <3>3. CASE u # t
      BY <1>6, <1>7, <1>9, <2>1, <3>3 DEF Owned, HandedOver
    <3> QED BY <3>1, <3>2, <3>3
  <2> QED BY <2>3, <2>4, <2>5
<1>12. ASSUME NEW u \in Threads PROVE AtTake(u)'
  <2>1. AtTake(u)
    BY DEF MutexInv
  <2>2. CASE u = t
    BY <1>3, <1>7, <1>9, <2>2 DEF AtTake
  <2>3. CASE u # t
    BY <1>6, <1>7, <1>9, <2>1, <2>3 DEF AtTake, HandedOver
  <2> QED BY <2>2, <2>3
<1>13. ASSUME NEW k \in Mutexes, mx'.owner[k] = None PROVE mx'.hold[k] = 0
  BY <1>7, <1>13 DEF MutexInv
<1> QED BY <1>8, <1>10, <1>11, <1>12, <1>13 DEF MutexInv, ThType

\* rt_mutex_release that is not the last.
LEMMA ReleaseNested ==
  ASSUME Sound(s), MutexInv, NEW t \in Threads, NEW m \in Mutexes, InUser(t), mx.owner[m] = t,
         mx.hold[m] > 1,
         mx' = [mx EXCEPT !.hold[m] = @ - 1, !.CLAIMS[m][t] = @ - 1], s' = s, th' = th
  PROVE  MutexInv'
<1>0. AllHis(t)
  BY UserOwns
<1>1. MxType(mx) /\ ThType
  BY DEF MutexInv
<1> DEFINE hold == [mx.hold EXCEPT ![m] = mx.hold[m] - 1]
           claims == [mx.CLAIMS EXCEPT ![m] = [mx.CLAIMS[m] EXCEPT ![t] = mx.CLAIMS[m][t] - 1]]
<1>2. mx' = [owner |-> mx.owner, hold |-> hold, prio |-> mx.prio, taken |-> mx.taken,
             pend |-> mx.pend, CLAIMS |-> claims]
  <2>1. mx' = [mx EXCEPT !.hold = hold, !.CLAIMS = claims]
    OBVIOUS
  <2> HIDE DEF hold, claims
  <2> QED BY <1>1, <2>1 DEF MxType
<1>3. /\ mx'.owner = mx.owner /\ mx'.taken = mx.taken /\ mx'.pend = mx.pend /\ mx'.prio = mx.prio
      /\ mx'.hold = hold /\ mx'.CLAIMS = claims
  BY <1>2
<1>4. /\ hold \in [Mutexes -> Int] /\ claims \in [Mutexes -> [Threads -> Int]]
      /\ \A k \in Mutexes : hold[k] = IF k = m THEN mx.hold[m] - 1 ELSE mx.hold[k]
      /\ \A k \in Mutexes : \A u \in Threads :
           claims[k][u] = IF k = m /\ u = t THEN mx.CLAIMS[m][t] - 1 ELSE mx.CLAIMS[k][u]
  BY <1>1 DEF MxType
<1> HIDE DEF hold, claims
<1>5. MxType(mx')
  BY <1>1, <1>2, <1>3, <1>4 DEF MxType
<1>9. mx.hold[m] = mx.CLAIMS[m][t] /\ mx.hold[m] \in Int /\ mx.CLAIMS[m][t] \in Int
  BY <1>0, <1>1 DEF AllHis, MxType
<1>6. ASSUME NEW u \in Threads, NEW k \in Mutexes
      PROVE  Claimed(u, k)' /\ Queued(u, k)' /\ Owned(u, k)'
  <2>1. Claimed(u, k) /\ Queued(u, k) /\ Owned(u, k)
    BY DEF MutexInv
  <2>3. mx.hold[k] \in Int /\ mx.CLAIMS[k][u] \in Int
    BY <1>1 DEF MxType
  <2> QED BY <1>3, <1>4, <1>9, <2>1, <2>3 DEF Claimed, Queued, Owned, HandedOver
<1>7. ASSUME NEW u \in Threads PROVE AtTake(u)'
  <2>1. AtTake(u)
    BY DEF MutexInv
  <2>2. th[u].op = "mutex_take" => u # t
    BY <1>0 DEF AllHis
  <2>3. HandedOver(u, th[u].arg) /\ u # t /\ th[u].arg \in Mutexes => HandedOver(u, th[u].arg)'
    BY <1>3, <1>4 DEF HandedOver
  <2> QED BY <2>1, <2>2, <2>3 DEF AtTake
<1>8. ASSUME NEW k \in Mutexes, mx'.owner[k] = None PROVE mx'.hold[k] = 0
  <2>1. k # m
    BY <1>3, <1>8, MutexAssumption, InLists
  <2> QED BY <1>3, <1>4, <1>8, <2>1 DEF MutexInv
<1> QED BY <1>1, <1>5, <1>6, <1>7, <1>8 DEF MutexInv, ThType

SomeFields(x, y, owner, hold, taken, pend, prio, claims) ==
  /\ x = [y EXCEPT !.hold = hold, !.owner = owner, !.prio = prio, !.CLAIMS = claims]
  /\ taken = y.taken /\ pend = y.pend
AllFields(x, y, owner, hold, taken, pend, prio, claims) ==
  x = [y EXCEPT !.owner = owner, !.hold = hold, !.taken = taken, !.pend = pend,
                !.prio = prio, !.CLAIMS = claims]

\* An update of all fields of the mutexes.
LEMMA MutexFields ==
  ASSUME NEW y, MxType(y), NEW owner, NEW hold, NEW taken, NEW pend, NEW prio, NEW claims, NEW x,
         AllFields(x, y, owner, hold, taken, pend, prio, claims)
  PROVE  x = [owner |-> owner, hold |-> hold, prio |-> prio, taken |-> taken,
              pend |-> pend, CLAIMS |-> claims]
  BY DEF MxType, AllFields

\* An update of four of them.
LEMMA FourFields ==
  ASSUME NEW y, MxType(y), NEW owner, NEW hold, NEW taken, NEW pend, NEW prio, NEW claims, NEW x,
         SomeFields(x, y, owner, hold, taken, pend, prio, claims)
  PROVE  x = [owner |-> owner, hold |-> hold, prio |-> prio, taken |-> taken,
              pend |-> pend, CLAIMS |-> claims]
  BY DEF MxType, SomeFields

\* y is mx with m no longer in the list of t.
Less(y, t, m) ==
  /\ MxType(y)
  /\ y.hold = mx.hold /\ y.owner = mx.owner /\ y.prio = mx.prio /\ y.CLAIMS = mx.CLAIMS
  /\ y.taken = [mx.taken EXCEPT ![t] = mx.taken[t] \ {m}] /\ y.pend = mx.pend

\* Its types.
LEMMA LessTaken ==
  ASSUME MxType(mx), NEW t \in Threads, NEW m, NEW y, y = [mx EXCEPT !.taken[t] = @ \ {m}]
  PROVE  Less(y, t, m)
<1> DEFINE taken == [mx.taken EXCEPT ![t] = mx.taken[t] \ {m}]
<1>1. y = [owner |-> mx.owner, hold |-> mx.hold, prio |-> mx.prio, taken |-> taken,
           pend |-> mx.pend, CLAIMS |-> mx.CLAIMS]
  <2>1. y = [mx EXCEPT !.taken = taken]
    OBVIOUS
  <2> HIDE DEF taken
  <2> QED BY <2>1 DEF MxType
<1>2. taken \in [Threads -> SUBSET Mutexes]
  BY DEF MxType
<1>3. /\ y.owner = mx.owner /\ y.hold = mx.hold /\ y.prio = mx.prio /\ y.taken = taken
      /\ y.pend = mx.pend /\ y.CLAIMS = mx.CLAIMS
  <2> HIDE DEF taken
  <2> QED BY <1>1
<1>4. MxType(y)
  <2> HIDE DEF taken
  <2> QED BY <1>1, <1>2, <1>3 DEF MxType
<1> QED BY <1>3, <1>4 DEF Less

\* The priority the thread has after it gave m up.
LEMMA Dropped ==
  ASSUME Sound(s), MxType(mx), NEW t \in Threads, NEW m,
         NEW y, y = [mx EXCEPT !.taken[t] = @ \ {m}],
         NEW z, z = IF s.prio[t] = mx.prio[m]
                    THEN ChangePriority(s, t, thread_get_mutex_priority(y, t)) ELSE s
  PROVE  Sound(z) /\ z.wait = s.wait /\ z.timer = s.timer /\ z.stat = s.stat
<1>3. MxType(y)
  BY LessTaken DEF Less
<1>4. PICK p \in Prios : p = thread_get_mutex_priority(y, t)
  BY <1>3, BasePrio
<1>5. CASE s.prio[t] = mx.prio[m]
  <2>1. z = ChangePriority(s, t, p)
    BY <1>4, <1>5
  <2>2. PrioChanged(s, z, t, p)
    BY <2>1, InLists, ChangePrioritySound
  <2> QED BY <2>2 DEF PrioChanged
<1>6. CASE s.prio[t] # mx.prio[m]
  BY <1>6
<1> QED BY <1>5, <1>6

\* The last rt_mutex_release with nobody waiting.
LEMMA ReleaseFree ==
  ASSUME Sound(s), MutexInv, NEW t \in Threads, NEW m \in Mutexes, InUser(t), mx.owner[m] = t,
         mx.hold[m] = 1, s.wait[m] = <<>>,
         NEW y, y = [mx EXCEPT !.taken[t] = @ \ {m}],
         mx' = [y EXCEPT !.hold[m] = 0, !.owner[m] = None, !.prio[m] = NoPrio,
                         !.CLAIMS[m][t] = @ - 1],
         s'.wait = s.wait, s'.timer = s.timer, th' = th
  PROVE  MutexInv'
<1>0. AllHis(t)
  BY UserOwns
<1>1. MxType(mx) /\ ThType
  BY DEF MutexInv
<1> DEFINE owner == [mx.owner EXCEPT ![m] = None]
           prio == [mx.prio EXCEPT ![m] = NoPrio]
           hold == [mx.hold EXCEPT ![m] = 0]
           taken == [mx.taken EXCEPT ![t] = mx.taken[t] \ {m}]
           claims == [mx.CLAIMS EXCEPT ![m] = [mx.CLAIMS[m] EXCEPT ![t] = mx.CLAIMS[m][t] - 1]]
<1>2. mx' = [owner |-> owner, hold |-> hold, prio |-> prio, taken |-> taken,
             pend |-> mx.pend, CLAIMS |-> claims]
  <2>1. /\ MxType(y) /\ y.hold = mx.hold /\ y.owner = mx.owner /\ y.prio = mx.prio
        /\ y.CLAIMS = mx.CLAIMS /\ y.taken = taken /\ y.pend = mx.pend
    <3>1. Less(y, t, m)
      BY <1>1, LessTaken
    <3> QED BY <3>1 DEF Less
  <2>2. PICK x : x = mx'
    OBVIOUS
  <2>5. PICK pend : pend = mx.pend
    OBVIOUS
  <2>3. SomeFields(x, y, owner, hold, taken, pend, prio, claims)
    <3> HIDE DEF taken
    <3> QED BY <2>1, <2>2, <2>5 DEF SomeFields
  <2> HIDE DEF owner, prio, hold, taken, claims
  <2>4. x = [owner |-> owner, hold |-> hold, prio |-> prio, taken |-> taken,
             pend |-> pend, CLAIMS |-> claims]
    BY <2>1, <2>3, FourFields
  <2> QED BY <2>2, <2>4, <2>5
<1>3. /\ mx'.owner = owner /\ mx'.taken = taken /\ mx'.pend = mx.pend /\ mx'.prio = prio
      /\ mx'.hold = hold /\ mx'.CLAIMS = claims
  BY <1>2
<1>4. /\ hold \in [Mutexes -> Int] /\ claims \in [Mutexes -> [Threads -> Int]]
      /\ \A k \in Mutexes : hold[k] = IF k = m THEN 0 ELSE mx.hold[k]
      /\ \A k \in Mutexes : \A u \in Threads :
           claims[k][u] = IF k = m /\ u = t THEN mx.CLAIMS[m][t] - 1 ELSE mx.CLAIMS[k][u]
  BY <1>1 DEF MxType
<1>9. /\ owner \in [Mutexes -> Threads \cup {None}] /\ prio \in [Mutexes -> Prios \cup {NoPrio}]
      /\ taken \in [Threads -> SUBSET Mutexes]
      /\ \A k \in Mutexes : owner[k] = IF k = m THEN None ELSE mx.owner[k]
      /\ \A k \in Mutexes : \A u \in Threads :
           k \in taken[u] <=> k \in mx.taken[u] /\ ~(k = m /\ u = t)
  BY <1>1 DEF MxType
<1> HIDE DEF owner, prio, hold, taken, claims
<1>5. MxType(mx')
  BY <1>1, <1>2, <1>3, <1>4, <1>9 DEF MxType
<1>10. None \notin Threads
  BY MutexAssumption, InLists
<1>11. mx.CLAIMS[m][t] = 1
  BY <1>0 DEF AllHis
<1>12. \A u \in Threads : ~InWait(s, u, m)
  BY DEF InWait, Members
<1>6. ASSUME NEW u \in Threads, NEW k \in Mutexes
      PROVE  Claimed(u, k)' /\ Queued(u, k)' /\ Owned(u, k)'
  <2>1. Claimed(u, k) /\ Queued(u, k) /\ Owned(u, k)
    BY DEF MutexInv
  <2>2. mx.hold[k] \in Int /\ mx.CLAIMS[k][u] \in Int
    BY <1>1 DEF MxType
  <2>3. Claimed(u, k)'
    BY <1>3, <1>4, <1>9, <1>10, <1>11, <2>1, <2>2 DEF Claimed
  <2>4. InWait(s', u, k) <=> InWait(s, u, k)
    BY DEF InWait
  <2>5. Queued(u, k)'
    BY <1>3, <1>9, <1>12, <2>1, <2>4 DEF Queued
  <2>6. Owned(u, k)'
    BY <1>3, <1>4, <1>9, <1>10, <2>1, <2>2, <2>4 DEF Owned, HandedOver
  <2> QED BY <2>3, <2>5, <2>6
<1>7. ASSUME NEW u \in Threads PROVE AtTake(u)'
  <2>1. AtTake(u)
    BY DEF MutexInv
  <2>2. th[u].op = "mutex_take" => u # t
    BY <1>0 DEF AllHis
  <2>4. \A k \in Mutexes : InWait(s', u, k) <=> InWait(s, u, k)
    BY DEF InWait
  <2>3. HandedOver(u, th[u].arg) /\ u # t /\ th[u].arg \in Mutexes => HandedOver(u, th[u].arg)'
    BY <1>3, <1>4, <1>9, <1>10, <2>4 DEF HandedOver
  <2> QED BY <2>1, <2>2, <2>3, <2>4 DEF AtTake
<1>8. ASSUME NEW k \in Mutexes, mx'.owner[k] = None PROVE mx'.hold[k] = 0
  BY <1>3, <1>4, <1>8, <1>9 DEF MutexInv
<1> QED BY <1>1, <1>5, <1>6, <1>7, <1>8 DEF MutexInv, ThType

\* What handing m over from t to u does to the mutexes.
Handed(x, t, m, u) ==
  /\ MxType(x)
  /\ \A k \in Mutexes : x.hold[k] = IF k = m THEN 1 ELSE mx.hold[k]
  /\ \A k \in Mutexes : x.owner[k] = IF k = m THEN u ELSE mx.owner[k]
  /\ \A v \in Threads : x.pend[v] = IF v = u THEN None ELSE mx.pend[v]
  /\ \A k \in Mutexes : \A v \in Threads :
       /\ x.CLAIMS[k][v] = IF k = m /\ v = t THEN mx.CLAIMS[m][t] - 1 ELSE mx.CLAIMS[k][v]
       /\ k \in x.taken[v] <=> (k \in mx.taken[v] /\ ~(k = m /\ v = t)) \/ (k = m /\ v = u)

\* The assignments of the last rt_mutex_release with somebody waiting.
LEMMA HandsMutex ==
  ASSUME MxType(mx), NEW t \in Threads, NEW m \in Mutexes, NEW u \in Threads, t # u,
         NEW y, y = [mx EXCEPT !.taken[t] = @ \ {m}], NEW first \in Prios \cup {NoPrio},
         mx' = [y EXCEPT !.owner[m] = u, !.hold[m] = 1, !.taken[u] = @ \cup {m},
                         !.pend[u] = None, !.prio[m] = first, !.CLAIMS[m][t] = @ - 1]
  PROVE  Handed(mx', t, m, u)
<1>1. MxType(mx) /\ t # u
  OBVIOUS
<1> DEFINE owner == [mx.owner EXCEPT ![m] = u]
           prio == [mx.prio EXCEPT ![m] = first]
           hold == [mx.hold EXCEPT ![m] = 1]
           less == [mx.taken EXCEPT ![t] = mx.taken[t] \ {m}]
           taken == [less EXCEPT ![u] = less[u] \cup {m}]
           pend == [mx.pend EXCEPT ![u] = None]
           claims == [mx.CLAIMS EXCEPT ![m] = [mx.CLAIMS[m] EXCEPT ![t] = mx.CLAIMS[m][t] - 1]]
<1>2. mx' = [owner |-> owner, hold |-> hold, prio |-> prio, taken |-> taken,
             pend |-> pend, CLAIMS |-> claims]
  <2>1. /\ MxType(y) /\ y.hold = mx.hold /\ y.owner = mx.owner /\ y.prio = mx.prio
        /\ y.CLAIMS = mx.CLAIMS /\ y.taken = less /\ y.pend = mx.pend
    <3>1. Less(y, t, m)
      BY <1>1, LessTaken
    <3> QED BY <3>1 DEF Less
  <2>2. PICK x : x = mx'
    OBVIOUS
  <2>3. AllFields(x, y, owner, hold, taken, pend, prio, claims)
    <3>1. x = [y EXCEPT !.owner = [y.owner EXCEPT ![m] = u], !.hold = [y.hold EXCEPT ![m] = 1],
                        !.taken = [y.taken EXCEPT ![u] = y.taken[u] \cup {m}],
                        !.pend = [y.pend EXCEPT ![u] = None],
                        !.prio = [y.prio EXCEPT ![m] = first],
                        !.CLAIMS = [y.CLAIMS EXCEPT ![m] = [y.CLAIMS[m] EXCEPT ![t] =
                                                              y.CLAIMS[m][t] - 1]]]
      BY <2>2
    <3> HIDE DEF less
    <3> QED BY <2>1, <3>1 DEF AllFields
  <2> HIDE DEF owner, prio, hold, taken, claims, pend, less
  <2>4. x = [owner |-> owner, hold |-> hold, prio |-> prio, taken |-> taken,
             pend |-> pend, CLAIMS |-> claims]
    BY <2>1, <2>3, MutexFields
  <2> QED BY <2>2, <2>4
<1>3. /\ mx'.owner = owner /\ mx'.taken = taken /\ mx'.pend = pend /\ mx'.prio = prio
      /\ mx'.hold = hold /\ mx'.CLAIMS = claims
  BY <1>2, SMTT(40)
<1>4. /\ hold \in [Mutexes -> Int] /\ claims \in [Mutexes -> [Threads -> Int]]
      /\ \A k \in Mutexes : hold[k] = IF k = m THEN 1 ELSE mx.hold[k]
      /\ \A k \in Mutexes : \A v \in Threads :
           claims[k][v] = IF k = m /\ v = t THEN mx.CLAIMS[m][t] - 1 ELSE mx.CLAIMS[k][v]
  BY <1>1 DEF MxType
<1>9. /\ owner \in [Mutexes -> Threads \cup {None}] /\ prio \in [Mutexes -> Prios \cup {NoPrio}]
      /\ \A k \in Mutexes : owner[k] = IF k = m THEN u ELSE mx.owner[k]
      /\ pend \in [Threads -> Mutexes \cup {None}]
      /\ \A v \in Threads : pend[v] = IF v = u THEN None ELSE mx.pend[v]
  BY <1>1 DEF MxType
<1>14. /\ taken \in [Threads -> SUBSET Mutexes]
       /\ \A k \in Mutexes : \A v \in Threads :
            k \in taken[v] <=> (k \in mx.taken[v] /\ ~(k = m /\ v = t)) \/ (k = m /\ v = u)
  <2>1. /\ less \in [Threads -> SUBSET Mutexes]
        /\ \A k \in Mutexes : \A v \in Threads :
             k \in less[v] <=> k \in mx.taken[v] /\ ~(k = m /\ v = t)
    BY <1>1 DEF MxType
  <2> HIDE DEF less
  <2> QED BY <1>1, <2>1
<1> HIDE DEF owner, prio, hold, taken, claims, pend, less
<1>5. MxType(mx')
  BY <1>1, <1>2, <1>3, <1>4, <1>9, <1>14 DEF MxType
<1>6. PICK r : r = mx'
  OBVIOUS
<1>7. /\ MxType(r) /\ r.hold = hold /\ r.owner = owner /\ r.pend = pend /\ r.CLAIMS = claims
      /\ r.taken = taken
  BY <1>3, <1>5, <1>6
<1>8. Handed(r, t, m, u)
  BY <1>4, <1>7, <1>9, <1>14 DEF Handed
<1> QED BY <1>6, <1>8

\* Handing a mutex over keeps the invariant.
LEMMA HandsOver ==
  ASSUME Sound(s), MutexInv, NEW t \in Threads, NEW m \in Mutexes, InUser(t), mx.owner[m] = t,
         mx.hold[m] = 1, NEW u \in Threads, InWait(s, u, m),
         Handed(mx', t, m, u),
         \A v \in Threads : \A k \in Mutexes : InWait(s', v, k) <=> InWait(s, v, k) /\ v # u,
         s'.timer \subseteq s.timer, th' = th
  PROVE  MutexInv'
<1>0. AllHis(t)
  BY UserOwns
<1>1. MxType(mx) /\ ThType
  BY DEF MutexInv
<1>13. t # u
  BY <1>0 DEF AllHis
<1>5. Handed(mx', t, m, u)
  OBVIOUS
<1>10. None \notin Threads /\ None \notin Mutexes
  BY MutexAssumption, InLists
<1>11. mx.CLAIMS[m][t] = 1
  BY <1>0 DEF AllHis
<1>12. mx.CLAIMS[m][u] = 0 /\ th[u].op = "mutex_take" /\ th[u].arg = m
  <2>1. Claimed(u, m) /\ Queued(u, m)
    BY DEF MutexInv
  <2>2. mx.CLAIMS[m][u] \in Int
    BY <1>1 DEF MxType
  <2> QED BY <1>13, <2>1, <2>2 DEF Claimed, Queued
<1>15. HandedOver(u, m)'
  BY <1>5, <1>12, <1>13 DEF HandedOver, Handed
<1>6. ASSUME NEW v \in Threads, NEW k \in Mutexes
      PROVE  Claimed(v, k)' /\ Queued(v, k)' /\ Owned(v, k)'
  <2>1. Claimed(v, k) /\ Queued(v, k) /\ Owned(v, k)
    BY DEF MutexInv
  <2>2. mx.hold[k] \in Int /\ mx.CLAIMS[k][v] \in Int
    BY <1>1 DEF MxType
  <2>3. Claimed(v, k)'
    BY <1>5, <1>11, <1>12, <1>13, <2>1, <2>2 DEF Claimed, Handed
  <2>4. InWait(s', v, k) <=> InWait(s, v, k) /\ v # u
    OBVIOUS
  <2>5. Queued(v, k)'
    BY <1>5, <1>10, <2>1, <2>4 DEF Queued, Handed
  <2>6. Owned(v, k)'
    <3>1. CASE k = m
      BY <1>5, <1>12, <1>15, <3>1 DEF Owned, Handed
    <3>2. CASE k # m
      BY <1>5, <2>1, <2>4, <3>2 DEF Owned, HandedOver, Handed
    <3> QED BY <3>1, <3>2
  <2> QED BY <2>3, <2>5, <2>6
<1>7. ASSUME NEW v \in Threads PROVE AtTake(v)'
  <2>1. AtTake(v)
    BY DEF MutexInv
  <2>2. th[v].op = "mutex_take" => v # t
    BY <1>0 DEF AllHis
  <2>4. \A k \in Mutexes : InWait(s', v, k) <=> InWait(s, v, k) /\ v # u
    OBVIOUS
  <2>3. HandedOver(v, th[v].arg) /\ v # t /\ th[v].arg \in Mutexes => HandedOver(v, th[v].arg)'
    BY <1>5, <2>4 DEF HandedOver, Handed
  <2>5. CASE v = u
    <3>1. AtTake(u)
      BY DEF MutexInv
    <3>2. th'[u] = th[u] /\ (u \in s'.timer => u \in s.timer)
      OBVIOUS
    <3>3. AtTake(u)'
      BY <1>12, <1>15, <3>1, <3>2 DEF AtTake
    <3> QED BY <2>5, <3>3
  <2>6. CASE v # u
    BY <2>1, <2>2, <2>3, <2>4, <2>6 DEF AtTake
  <2> QED BY <2>5, <2>6
<1>8. ASSUME NEW k \in Mutexes, mx'.owner[k] = None PROVE mx'.hold[k] = 0
  BY <1>5, <1>8, <1>10 DEF MutexInv, Handed
<1> QED BY <1>1, <1>5, <1>6, <1>7, <1>8 DEF MutexInv, ThType, Handed

\* The last rt_mutex_release.
LEMMA GivesUp ==
  ASSUME Sound(s), MutexInv, NEW t \in Threads, NEW m \in Mutexes, InUser(t), mx.owner[m] = t,
         mx.hold[m] = 1, GiveUp(t, m), th' = th
  PROVE  Sound(s') /\ MutexInv'
<1>1. MxType(mx) /\ m \in WaitLists /\ AllHis(t)
  BY InLists, UserOwns DEF MutexInv
<1>2. PICK y : y = [mx EXCEPT !.taken[t] = @ \ {m}]
  OBVIOUS
<1>3. PICK z : z = IF s.prio[t] = mx.prio[m]
                   THEN ChangePriority(s, t, thread_get_mutex_priority(y, t)) ELSE s
  OBVIOUS
<1>4. Sound(z) /\ z.wait = s.wait /\ z.timer = s.timer /\ z.stat = s.stat
  BY <1>1, <1>2, <1>3, Dropped
<1>5. CASE z.wait[m] = <<>>
  <2>1. /\ mx' = [y EXCEPT !.hold[m] = 0, !.owner[m] = None, !.prio[m] = NoPrio,
                           !.CLAIMS[m][t] = @ - 1]
        /\ s' = rt_schedule(z) \/ s' = z
    BY <1>2, <1>3, <1>5 DEF GiveUp
  <2>2. Sound(s') /\ s'.wait = s.wait /\ s'.timer = s.timer
    BY <1>4, <2>1, ScheduleSound
  <2>3. s.wait[m] = <<>>
    BY <1>4, <1>5
  <2>4. MutexInv'
    BY <1>2, <2>1, <2>2, <2>3, ReleaseFree
  <2> QED BY <2>2, <2>4
<1>6. CASE z.wait[m] # <<>>
  <2>1. PICK q \in Seq(Threads) : q = z.wait[m]
    BY <1>1, <1>4 DEF Sound, SchedType
  <2>2. PICK u \in Threads : u = Head(z.wait[m]) /\ InWait(z, u, m)
    BY <1>6, <2>1 DEF InWait, Members
  <2>3. PICK zu : zu = rt_thread_resume(z, u)
    OBVIOUS
  <2>4. z.stat[u] = "suspend" /\ u \in AllThreads
    BY <1>1, <1>4, <2>2, InLists DEF Sound, Placed
  <2>5. /\ Sound(zu) /\ zu.timer = z.timer \ {u}
        /\ \A v \in AllThreads : \A l \in WaitLists : InWait(zu, v, l) <=> InWait(z, v, l) /\ v # u
    BY <1>4, <2>3, <2>4, ResumeSound
  <2>6. PICK first \in Prios \cup {NoPrio} : first = FirstPrio(zu, m)
    BY <2>5, FirstPrioType
  <2>7. /\ mx' = [y EXCEPT !.owner[m] = u, !.hold[m] = 1, !.taken[u] = @ \cup {m},
                           !.pend[u] = None, !.prio[m] = first, !.CLAIMS[m][t] = @ - 1]
        /\ s' = rt_schedule(zu)
    BY <1>2, <1>3, <1>6, <2>2, <2>3, <2>6 DEF GiveUp
  <2>8. Sound(s') /\ s'.wait = zu.wait /\ s'.timer = zu.timer
    BY <2>5, <2>7, ScheduleSound
  <2>9. InWait(s, u, m) /\ t # u
    BY <1>1, <1>4, <2>2 DEF InWait, AllHis
  <2>10. Handed(mx', t, m, u)
    BY <1>1, <1>2, <2>7, <2>9, HandsMutex
  <2>11. ASSUME NEW v \in Threads, NEW k \in Mutexes
         PROVE  InWait(s', v, k) <=> InWait(s, v, k) /\ v # u
    BY <1>4, <2>5, <2>8, InLists DEF InWait
  <2>12. s'.timer \subseteq s.timer
    BY <1>4, <2>5, <2>8
  <2>13. MutexInv'
    BY <2>9, <2>10, <2>11, <2>12, HandsOver
  <2> QED BY <2>8, <2>13
<1> QED BY <1>5, <1>6

\* rt_mutex_take.
LEMMA MutexTakes ==
  ASSUME Sound(s), MutexInv, NEW t \in Threads, NEW m \in Mutexes, rt_mutex_take(t, m)
  PROVE  Sound(s') /\ MutexInv'
<1>1. InUser(t)
  BY DEF rt_mutex_take
<1>2. CASE mx.owner[m] = t
  <2>1. mx' = [mx EXCEPT !.hold[m] = @ + 1, !.CLAIMS[m][t] = @ + 1] /\ s' = s /\ th' = th
    BY <1>2, InLists, MutexAssumption DEF rt_mutex_take
  <2> QED BY <1>1, <1>2, <2>1, TakeAgain
<1>3. CASE mx.owner[m] = None
  <2>1. /\ mx' = [mx EXCEPT !.owner[m] = t, !.prio[m] = NoPrio, !.hold[m] = 1,
                            !.taken[t] = @ \cup {m}, !.CLAIMS[m][t] = @ + 1]
        /\ s' = s /\ th' = th
    BY <1>3, InLists, MutexAssumption DEF rt_mutex_take
  <2> QED BY <1>1, <1>3, <2>1, TakeFree
<1>4. CASE mx.owner[m] \notin {t, None}
  <2>1. PICK z : z = ipc_list_suspend(s, m, t, "PRIO")
    OBVIOUS
  <2>2. PICK p : p = s.prio[t]
    OBVIOUS
  <2>3. PICK raised \in BOOLEAN : raised <=> p < mx.prio[m]
    OBVIOUS
  <2>4. PICK y : y = [mx EXCEPT !.pend[t] = m, !.prio[m] = IF raised THEN p ELSE @]
    OBVIOUS
  <2>5. PICK end : end = IF raised /\ p < s.prio[mx.owner[m]]
                         THEN thread_update_priority(z, y, mx.owner[m], p)
                         ELSE [z |-> z, y |-> y]
    OBVIOUS
  <2>7. y = [mx EXCEPT !.pend[t] = m, !.prio[m] = IF p < mx.prio[m] THEN p ELSE @]
    BY <2>3, <2>4
  <2>8. end = IF p < mx.prio[m] /\ p < s.prio[mx.owner[m]]
              THEN thread_update_priority(z, y, mx.owner[m], p)
              ELSE [z |-> z, y |-> y]
    BY <2>3, <2>5
  <2>6. /\ s' = end.z /\ mx' = end.y
        /\ th' = [th EXCEPT ![t] = [pc |-> "sched", op |-> "mutex_take", arg |-> m]]
    BY <1>4, <2>1, <2>2, <2>7, <2>8, InLists, MutexAssumption DEF rt_mutex_take
  <2>9. Blocking(t, m, z, p, raised, y, end)
    BY <2>1, <2>2, <2>3, <2>4, <2>5, <2>6 DEF Blocking
  <2> QED BY <1>1, <1>4, <2>9, TakeBlocks
<1> QED BY <1>2, <1>3, <1>4

\* Every mutex service.
LEMMA MutexStepKeeps ==
  ASSUME Sound(s), MutexInv, MutexStep
  PROVE  Sound(s') /\ MutexInv'
<1>1. ASSUME NEW t \in Threads, NEW m \in Mutexes, rt_mutex_release(t, m)
      PROVE  Sound(s') /\ MutexInv'
  <2>1. CASE mx.hold[m] > 1 /\ mx' = [mx EXCEPT !.hold[m] = @ - 1, !.CLAIMS[m][t] = @ - 1] /\ s' = s
    BY <1>1, <2>1, ReleaseNested DEF rt_mutex_release
  <2>2. CASE mx.hold[m] = 1 /\ GiveUp(t, m)
    BY <1>1, <2>2, GivesUp DEF rt_mutex_release
  <2> QED BY <1>1, <2>1, <2>2 DEF rt_mutex_release
<1>2. ASSUME NEW t \in Threads, mutex_taken(t) PROVE Sound(s') /\ MutexInv'
  BY <1>2, Taken DEF mutex_taken
<1> QED BY <1>1, <1>2, MutexTakes DEF MutexStep

\* All mutexes free.
LEMMA MutexInit ==
  ASSUME ThreadInit, mx = MutexObject
  PROVE  MutexInv
<1>1. Sound(s) /\ s.timer = {} /\ \A l \in WaitLists : s.wait[l] = <<>>
  BY InitSound
<1>2. \A t \in Threads : th[t] = [pc |-> "user", op |-> "none", arg |-> "none"]
  BY DEF ThreadInit, User
<1>3. ThType
  BY DEF ThType, ThreadInit, User
<1>4. ASSUME NEW t, NEW m \in Mutexes PROVE ~InWait(s, t, m)
  BY <1>1, InLists DEF InWait, Members
<1>5. /\ mx.owner = [m \in Mutexes |-> None] /\ mx.hold = [m \in Mutexes |-> 0]
      /\ mx.prio = [m \in Mutexes |-> NoPrio] /\ mx.taken = [t \in Threads |-> {}]
      /\ mx.pend = [t \in Threads |-> None]
      /\ mx.CLAIMS = [m \in Mutexes |-> [t \in Threads |-> 0]]
  BY DEF MutexObject
<1>6. MxType(mx)
  <2>1. mx = [owner |-> mx.owner, hold |-> mx.hold, prio |-> mx.prio, taken |-> mx.taken,
              pend |-> mx.pend, CLAIMS |-> mx.CLAIMS]
    BY DEF MutexObject
  <2> QED BY <1>5, <2>1 DEF MxType
<1>7. None \notin Threads /\ None \notin Mutexes
  BY MutexAssumption, InLists
<1>8. ASSUME NEW t \in Threads, NEW m \in Mutexes PROVE Claimed(t, m) /\ Queued(t, m) /\ Owned(t, m)
  BY <1>4, <1>5, <1>7 DEF Claimed, Queued, Owned
<1>9. ASSUME NEW t \in Threads PROVE AtTake(t)
  BY <1>1, <1>2 DEF AtTake
<1> QED BY <1>3, <1>5, <1>6, <1>8, <1>9 DEF MutexInv

\* The invariant holds at first.
LEMMA KernelInit == Init => KernelInv
  BY InitSound, MutexInit DEF Init, IpcInit, KernelInv

\* And every step of the kernel keeps it.
LEMMA KernelNext ==
  ASSUME KernelInv, [Next]_kernelVars
  PROVE  KernelInv'
<1>1. CASE kind \notin {"heap", "timer"} /\ IpcNext /\ UNCHANGED <<mx, h, w>>
  <2>1. Sound(s')
    BY <1>1, IpcSound DEF KernelInv
  <2>3. kind' = kind
    BY <1>1 DEF IpcNext, IpcStep, ipcVars
  <2>2. ASSUME kind = "mutex" PROVE MutexInv'
    <3>1. ThreadStep
      BY <1>1, <2>2 DEF IpcNext, IpcStep
    <3> QED BY <1>1, <2>2, <3>1, ThreadMutex DEF KernelInv
  <2> QED BY <2>1, <2>2, <2>3 DEF KernelInv
<1>2. CASE kind = "mutex" /\ MutexStep /\ UNCHANGED <<ipcVars, h, w>>
  BY <1>2, MutexStepKeeps DEF KernelInv, ipcVars
<1>3. CASE UNCHANGED <<s, th, ipcVars, mx>>
  BY <1>3 DEF KernelInv, Sound, SchedType, Lists, Placed, InReady, InWait, ipcVars, MutexInv,
    MxType, ThType, AtTake, Claimed, Queued, Owned, HandedOver
<1> QED BY <1>1, <1>2, <1>3 DEF Next, kernelVars, ipcVars

\* The invariant says what the property says.
LEMMA InvExcludes ==
  ASSUME Sound(s), MutexInv
  PROVE  MutualExclusion
<1>1. None \notin Threads
  BY MutexAssumption, InLists
<1>2. ASSUME NEW m \in Mutexes
      PROVE  /\ \A t \in Threads : mx.CLAIMS[m][t] > 0 => mx.owner[m] = t
             /\ {t \in Threads : m \in mx.taken[t]} = {mx.owner[m]} \ {None}
             /\ mx.owner[m] = None => mx.hold[m] = 0 /\ s.wait[m] = <<>>
             /\ mx.owner[m] # None =>
                  \/ mx.hold[m] = mx.CLAIMS[m][mx.owner[m]] /\ mx.hold[m] > 0
                  \/ /\ mx.hold[m] = 1 /\ mx.CLAIMS[m][mx.owner[m]] = 0
                     /\ th[mx.owner[m]].op = "mutex_take" /\ th[mx.owner[m]].arg = m
  <2>1. \A t \in Threads : Claimed(t, m) /\ Owned(t, m)
    BY DEF MutexInv
  <2>2. mx.owner[m] \in Threads \cup {None}
    BY DEF MutexInv, MxType
  <2>3. {t \in Threads : m \in mx.taken[t]} = {mx.owner[m]} \ {None}
    BY <1>1, <2>1, <2>2 DEF Claimed
  <2>4. mx.owner[m] # None =>
          \/ mx.hold[m] = mx.CLAIMS[m][mx.owner[m]] /\ mx.hold[m] > 0
          \/ /\ mx.hold[m] = 1 /\ mx.CLAIMS[m][mx.owner[m]] = 0
             /\ th[mx.owner[m]].op = "mutex_take" /\ th[mx.owner[m]].arg = m
    BY <2>1, <2>2 DEF Owned, HandedOver
  <2>5. ASSUME mx.owner[m] = None PROVE mx.hold[m] = 0 /\ s.wait[m] = <<>>
    <3>1. PICK q \in Seq(Threads) : q = s.wait[m]
      BY InLists DEF Sound, SchedType
    <3>2. ASSUME q # <<>> PROVE FALSE
      <4>1. PICK t \in Threads : InWait(s, t, m)
        BY <3>1, <3>2 DEF InWait, Members
      <4>2. Queued(t, m)
        BY DEF MutexInv
      <4> QED BY <2>5, <4>1, <4>2 DEF Queued
    <3> QED BY <2>5, <3>1, <3>2 DEF MutexInv
  <2> QED BY <2>1, <2>3, <2>4, <2>5 DEF Claimed
<1> QED BY <1>2 DEF MutualExclusion

-----------------------------------------------------------------------------
\* thread.c, scheduler_mp.c, ipc.c: whatever threads, interrupts and timeouts do,
\* a ready thread is in the ready list of its priority, once, a suspended one in
\* at most one wait list and waits for something that can come, and the running
\* one is in no list and has no timer running.
THEOREM AllInPlace == Spec => []ThreadsInPlace
<1>1. Init => KernelInv
  BY KernelInit
<1>2. KernelInv /\ [Next]_kernelVars => KernelInv'
  BY KernelNext
<1>3. KernelInv => ThreadsInPlace
  BY SoundIsPlaced DEF KernelInv
<1> QED BY <1>1, <1>2, <1>3, PTL DEF Spec

\* ipc.c, rt_mutex_take and rt_mutex_release: at most one thread thinks it has a
\* mutex, the mutex counts its takes, it is in the list of its owner and of no
\* other thread, and nobody waits for a mutex that has no owner.
THEOREM MutexesExclude == Spec => [](kind = "mutex" => MutualExclusion)
<1>1. Init => KernelInv
  BY KernelInit
<1>2. KernelInv /\ [Next]_kernelVars => KernelInv'
  BY KernelNext
<1>3. KernelInv => (kind = "mutex" => MutualExclusion)
  BY InvExcludes DEF KernelInv
<1> QED BY <1>1, <1>2, <1>3, PTL DEF Spec

-----------------------------------------------------------------------------
(* The timers, for every set of timers, length of the tick counter, initial    *)
(* tick and interleaving.  A time is compared with the tick through After, the *)
(* signed number of ticks between them; all listed times are within Longest    *)
(* ahead and 2 * MaxLag behind, so that no comparison is wrong across a wrap.  *)
(* TimerInv adds to the two properties how late a soft timer can be at each    *)
(* place of the timer thread: by the ticks that came since it woke up, and by  *)
(* those of one sleep more while it works off its list.                        *)

Ticks == 0 .. TickMod - 1
Half == (TickMod - 1) \div 2
\* The longest time a timer runs.
Longest == Half - 1 - 2 * MaxLag
\* How long after tick b tick a is, or before.
After(a, b) == LET d == (a - b) % TickMod IN IF d < Half THEN d ELSE d - TickMod

\* Times are short against the range of the counter.
LEMMA HalfFacts ==
  /\ TickMod \in Nat \ {0} /\ Half \in Nat /\ 2 * Half <= TickMod - 1 /\ MaxLag \in Nat
  /\ Longest \in Nat /\ Longest + 2 * MaxLag < Half /\ Times \subseteq 1 .. Longest /\ Times # {}
<1>1. TickMod \in Nat \ {0} /\ MaxLag \in Nat /\ Times \subseteq Nat /\ Times # {}
  BY TimerAssumption
<1>2. Half \in Int /\ 2 * Half <= TickMod - 1
  BY <1>1 DEF Half
<1>3. ASSUME NEW n \in Times PROVE n \in 1 .. Longest
  BY <1>1, <1>2, TimerAssumption DEF Longest, Half
<1>4. Longest >= 1 /\ Longest \in Int
  <2>1. PICK n \in Times : n \in 1 .. Longest
    BY <1>1, <1>3
  <2> QED BY <1>1, <1>2, <2>1 DEF Longest
<1> QED BY <1>1, <1>2, <1>3, <1>4 DEF Longest

\* After is a difference of ticks, up to one wrap.
AfterBy(x, a, b) ==
  /\ a - b < Half - TickMod => x = a - b + TickMod
  /\ a - b >= Half - TickMod /\ a - b < Half => x = a - b
  /\ a - b >= Half => x = a - b - TickMod

\* After, without a remainder.
LEMMA AfterIs ==
  ASSUME NEW a \in Ticks, NEW b \in Ticks
  PROVE  /\ a \in Int /\ b \in Int /\ 0 <= a /\ a <= TickMod - 1 /\ 0 <= b /\ b <= TickMod - 1
         /\ (a - b) % TickMod = IF a >= b THEN a - b ELSE a - b + TickMod
         /\ After(a, b) \in Int /\ AfterBy(After(a, b), a, b)
<1>1. TickMod \in Nat \ {0} /\ Half \in Nat /\ 2 * Half <= TickMod - 1
  BY HalfFacts
<1>2. a \in Int /\ b \in Int /\ 0 <= a /\ a <= TickMod - 1 /\ 0 <= b /\ b <= TickMod - 1
  BY <1>1 DEF Ticks
<1>3. (a - b) % TickMod = IF a >= b THEN a - b ELSE a - b + TickMod
  BY <1>1 DEF Ticks
<1>4. PICK d \in Int : d = (a - b) % TickMod
  BY <1>1, <1>2, <1>3
<1>5. After(a, b) = IF d < Half THEN d ELSE d - TickMod
  BY <1>4 DEF After
<1>6. After(a, b) \in Int
  BY <1>1, <1>5
<1>7. AfterBy(After(a, b), a, b)
  BY <1>1, <1>2, <1>3, <1>4, <1>5, <1>6 DEF AfterBy
<1> QED BY <1>2, <1>3, <1>6, <1>7

\* Some time after tick b.
LEMMA AfterSome ==
  ASSUME NEW b \in Ticks, NEW n \in Nat, n < Half
  PROVE  (b + n) % TickMod \in Ticks /\ After((b + n) % TickMod, b) = n
<1>1. TickMod \in Nat \ {0} /\ Half \in Nat /\ 2 * Half <= TickMod - 1
  BY HalfFacts
<1>2. b \in Int /\ 0 <= b /\ b <= TickMod - 1
  BY <1>1 DEF Ticks
<1>3. PICK d \in Int : d = b + n /\ d >= 0 /\ d <= 2 * TickMod - 1
  BY <1>1, <1>2
<1>4. d % TickMod = IF d < TickMod THEN d ELSE d - TickMod
  BY <1>1, <1>3
<1>5. PICK a \in Ticks : a = d % TickMod /\ (a = b + n \/ a = b + n - TickMod)
  BY <1>1, <1>3, <1>4 DEF Ticks
<1>6. PICK x \in Int : x = After(a, b)
  BY AfterIs
<1>7. AfterBy(x, a, b) /\ a \in Int /\ 0 <= a /\ a <= TickMod - 1
  BY <1>6, AfterIs
<1>8. x = n
  BY <1>1, <1>2, <1>5, <1>7 DEF AfterBy
<1> QED BY <1>3, <1>5, <1>6, <1>8

\* A tick later.
LEMMA AfterTick ==
  ASSUME NEW a \in Ticks, NEW b \in Ticks
  PROVE  /\ (b + 1) % TickMod \in Ticks
         /\ After(a, b) > -Half => After(a, (b + 1) % TickMod) = After(a, b) - 1
<1>1. TickMod \in Nat \ {0} /\ Half \in Nat /\ 2 * Half <= TickMod - 1
  BY HalfFacts
<1>2. /\ a \in Int /\ b \in Int /\ 0 <= a /\ a <= TickMod - 1 /\ 0 <= b /\ b <= TickMod - 1
      /\ After(a, b) \in Int /\ AfterBy(After(a, b), a, b)
  BY AfterIs
<1>3. PICK d \in Int : d = b + 1
  BY <1>2
<1>4. d % TickMod = IF d < TickMod THEN d ELSE 0
  BY <1>1, <1>2, <1>3
<1>5. PICK c \in Ticks : c = (b + 1) % TickMod /\ (c = b + 1 \/ (b = TickMod - 1 /\ c = 0))
  <2>1. PICK c \in Int : c = d % TickMod /\ c = IF d < TickMod THEN d ELSE 0
    BY <1>1, <1>3, <1>4
  <2>2. 0 <= c /\ c <= TickMod - 1 /\ (c = b + 1 \/ (b = TickMod - 1 /\ c = 0))
    BY <1>1, <1>2, <1>3, <2>1
  <2>3. c \in Ticks
    BY <2>1, <2>2 DEF Ticks
  <2> QED BY <1>3, <2>1, <2>2, <2>3
<1>6. /\ c \in Int /\ 0 <= c /\ c <= TickMod - 1
      /\ After(a, c) \in Int /\ AfterBy(After(a, c), a, c)
  BY AfterIs
<1>7. PICK x \in Int, y \in Int : x = After(a, b) /\ y = After(a, c)
  BY <1>2, <1>6
<1>8. x > -Half => y = x - 1
  BY <1>1, <1>2, <1>5, <1>6, <1>7 DEF AfterBy
<1> QED BY <1>5, <1>7, <1>8

\* What the comparisons of ticks mean.
LEMMA AfterCompared ==
  ASSUME NEW a \in Ticks, NEW b \in Ticks
  PROVE  /\ After(a, b) > -Half => (Reached(b, a) <=> After(a, b) <= 0)
         /\ a # b /\ Reached(a, b) <=> After(a, b) > 0
         /\ After(a, b) >= 0 => (a - b) % TickMod = After(a, b)
<1>1. TickMod \in Nat \ {0} /\ Half \in Nat /\ 2 * Half <= TickMod - 1
  BY HalfFacts
<1>2. /\ a \in Int /\ b \in Int /\ 0 <= a /\ a <= TickMod - 1 /\ 0 <= b /\ b <= TickMod - 1
      /\ (a - b) % TickMod = IF a >= b THEN a - b ELSE a - b + TickMod
      /\ (b - a) % TickMod = IF b >= a THEN b - a ELSE b - a + TickMod
  BY AfterIs
<1>3. PICK x \in Int : x = After(a, b) /\ AfterBy(x, a, b)
  BY AfterIs
<1>4. PICK d \in Int, e \in Int : d = (a - b) % TickMod /\ e = (b - a) % TickMod
  BY <1>1, <1>2
<1>5. (Reached(b, a) <=> e < Half) /\ (Reached(a, b) <=> d < Half)
  BY <1>4 DEF Reached, Half
<1>6. x > -Half => (e < Half <=> x <= 0)
  BY <1>1, <1>2, <1>3, <1>4 DEF AfterBy
<1>7. a # b /\ d < Half <=> x > 0
  BY <1>1, <1>2, <1>3, <1>4 DEF AfterBy
<1>8. x >= 0 => d = x
  BY <1>1, <1>2, <1>3, <1>4 DEF AfterBy
<1> QED BY <1>3, <1>4, <1>5, <1>6, <1>7, <1>8

\* Two ticks are in the order of their distances from a third.
LEMMA AfterOrder ==
  ASSUME NEW a \in Ticks, NEW b \in Ticks, NEW c \in Ticks,
         After(a, b) - After(c, b) < Half, After(c, b) - After(a, b) < Half
  PROVE  a # c /\ Reached(a, c) <=> After(a, b) > After(c, b)
<1>1. TickMod \in Nat \ {0} /\ Half \in Nat /\ 2 * Half <= TickMod - 1
  BY HalfFacts
<1>2. a # c /\ Reached(a, c) <=> After(a, c) > 0
  BY AfterCompared
<1>3. PICK x \in Int, y \in Int, v \in Int :
        /\ x = After(a, b) /\ y = After(c, b) /\ v = After(a, c)
        /\ AfterBy(x, a, b) /\ AfterBy(y, c, b) /\ AfterBy(v, a, c)
  BY AfterIs
<1>4. /\ a \in Int /\ b \in Int /\ c \in Int /\ 0 <= a /\ a <= TickMod - 1
      /\ 0 <= b /\ b <= TickMod - 1 /\ 0 <= c /\ c <= TickMod - 1
  BY AfterIs
<1>5. x - y < Half /\ y - x < Half
  BY <1>3
<1>6. v = x - y
  BY <1>1, <1>3, <1>4, <1>5 DEF AfterBy
<1>7. v > 0 <=> x > y
  BY <1>3, <1>6
<1> QED BY <1>2, <1>3, <1>7

\* The values f of the elements of q rise.
Rising(q, f) == \A i, j \in 1 .. Len(q) : i < j => f[q[i]] <= f[q[j]]

\* They do when one is taken out.
LEMMA RemovedRises ==
  ASSUME NEW S, NEW q \in Seq(S), NEW f, Rising(q, f), NEW e
  PROVE  Rising(RemoveFirst(q, e), f)
<1>1. CASE e \notin Members(q)
  BY <1>1 DEF RemoveFirst, Members
<1>2. CASE e \in Members(q)
  <2>1. PICK i \in 1 .. Len(q) : q[i] = e /\ RemoveFirst(q, e) = RemoveAt(q, i)
    BY <1>2, RemovedAt
  <2>2. PICK r : r = RemoveAt(q, i)
    OBVIOUS
  <2>3. /\ r \in Seq(S) /\ Len(r) = Len(q) - 1
        /\ \A j \in 1 .. Len(q) - 1 : r[j] = IF j < i THEN q[j] ELSE q[j + 1]
    BY <2>2, Deleted
  <2>4. Len(q) \in Nat /\ i \in Nat /\ 1 <= i /\ i <= Len(q)
    OBVIOUS
  <2>5. ASSUME NEW j \in 1 .. Len(r), NEW k \in 1 .. Len(r), j < k PROVE f[r[j]] <= f[r[k]]
    <3>1. j \in Nat /\ k \in Nat /\ j <= Len(q) - 1 /\ k <= Len(q) - 1 /\ 1 <= j /\ 1 <= k
      BY <2>3, <2>4
    <3>2. PICK jj \in 1 .. Len(q) : r[j] = q[jj] /\ jj = IF j < i THEN j ELSE j + 1
      BY <2>3, <2>4, <3>1
    <3>3. PICK kk \in 1 .. Len(q) : r[k] = q[kk] /\ kk = IF k < i THEN k ELSE k + 1
      BY <2>3, <2>4, <3>1
    <3>4. jj < kk
      BY <2>4, <2>5, <3>1, <3>2, <3>3
    <3> QED BY <3>2, <3>3, <3>4 DEF Rising
  <2> QED BY <2>1, <2>2, <2>5 DEF Rising
<1> QED BY <1>1, <1>2

\* In front of the first element that is worth more than e.
Before(q, e, f) == SelectInSeq(q, LAMBDA u : f[u] > f[e])
PutBefore(q, e, at) == IF at = 0 THEN Append(q, e) ELSE InsertAt(q, at, e)

\* They do when one is put there.
LEMMA PutRises ==
  ASSUME NEW S, NEW q \in Seq(S), NEW f \in [S -> Int], Rising(q, f), NEW e \in S,
         IsInjective(q), e \notin Members(q)
  PROVE  LET r == PutBefore(q, e, Before(q, e, f)) IN AddsTo(r, S, q, e) /\ Rising(r, f)
<1> DEFINE I == {i \in 1 .. Len(q) : f[q[i]] > f[e]}
<1>1. PICK at : at = Before(q, e, f)
  OBVIOUS
<1>2. at = IF I # {} THEN Min(I) ELSE 0
  BY <1>1, Zenon DEF SelectInSeq, Before
<1>3. I \in SUBSET Nat /\ Len(q) \in Nat /\ \A i \in 1 .. Len(q) : q[i] \in S
  OBVIOUS
<1>4. CASE I = {}
  <2>1. at = 0 /\ \A i \in 1 .. Len(q) : ~(f[q[i]] > f[e])
    BY <1>2, <1>4
  <2>2. PICK r : r = Append(q, e)
    OBVIOUS
  <2>3. AddsTo(r, S, q, e)
    BY <2>2, Added
  <2>4. Len(r) = Len(q) + 1 /\ \A i \in 1 .. Len(q) : r[i] = q[i]
    BY <2>2, AppendProperties
  <2>5. r[Len(q) + 1] = e
    BY <2>2, AppendProperties
  <2>6. ASSUME NEW j \in 1 .. Len(r), NEW k \in 1 .. Len(r), j < k PROVE f[r[j]] <= f[r[k]]
    <3>1. j \in 1 .. Len(q) /\ (k \in 1 .. Len(q) \/ k = Len(q) + 1)
      <4>1. /\ j \in Nat /\ k \in Nat /\ 1 <= j /\ 1 <= k /\ j <= Len(q) + 1 /\ k <= Len(q) + 1
        BY <1>3, <2>4
      <4>3. PICK n \in Nat : n = Len(q)
        BY <1>3
      <4>4. j <= n /\ (k <= n \/ k = n + 1)
        BY <2>6, <4>1, <4>3
      <4>2. j <= Len(q) /\ (k <= Len(q) \/ k = Len(q) + 1)
        BY <4>3, <4>4
      <4> QED BY <1>3, <4>1, <4>2
    <3>2. CASE k \in 1 .. Len(q)
      BY <2>4, <2>6, <3>1, <3>2 DEF Rising
    <3>3. CASE k = Len(q) + 1
      <4>1. PICK x \in S : x = q[j] /\ ~(f[x] > f[e])
        BY <1>3, <2>1, <3>1
      <4>2. f[x] \in Int /\ f[e] \in Int
        OBVIOUS
      <4>3. f[x] <= f[e]
        BY <4>1, <4>2
      <4> QED BY <2>4, <2>5, <3>1, <3>3, <4>1, <4>3
    <3> QED BY <3>1, <3>2, <3>3
  <2>7. PutBefore(q, e, at) = r
    BY <2>1, <2>2 DEF PutBefore
  <2> QED BY <1>1, <2>3, <2>6, <2>7 DEF Rising
<1>5. CASE I # {}
  <2>1. PICK i \in I : \A j \in I : i <= j
    BY <1>3, <1>5, LeastOf
  <2>2. Min(I) \in I /\ \A j \in I : Min(I) <= j
    BY <2>1 DEF Min
  <2>3. at \in I /\ \A j \in I : at <= j
    BY <1>2, <1>5, <2>2
  <2>4. at \in Nat /\ 1 <= at /\ at <= Len(q) /\ f[q[at]] > f[e]
    BY <1>3, <2>3
  <2>5. ASSUME NEW j \in 1 .. Len(q), j < at PROVE ~(f[q[j]] > f[e])
    BY <1>3, <2>3, <2>4, <2>5
  <2> HIDE DEF I
  <2>6. PICK r : r = InsertAt(q, at, e)
    OBVIOUS
  <2>7. at \in 1 .. Len(q) + 1
    BY <1>3, <2>4
  <2>8. r \in Seq(S) /\ PutAt(q, at, e, r) /\ AddsTo(r, S, q, e)
    BY <2>6, <2>7, Inserted, Added
  <2>9. /\ Len(r) = Len(q) + 1
        /\ \A j \in 1 .. Len(q) + 1 :
             r[j] = IF j < at THEN q[j] ELSE IF j = at THEN e ELSE q[j - 1]
    BY <2>8 DEF PutAt
  <2>10. ASSUME NEW j \in 1 .. Len(r), NEW k \in 1 .. Len(r), j < k PROVE f[r[j]] <= f[r[k]]
    <3>1. /\ j \in Nat /\ k \in Nat /\ 1 <= j /\ 1 <= k /\ j <= Len(q) + 1 /\ k <= Len(q) + 1
          /\ j < k
      BY <1>3, <2>9, <2>10
    <3>2. r[j] = IF j < at THEN q[j] ELSE IF j = at THEN e ELSE q[j - 1]
      BY <1>3, <2>9, <3>1
    <3>3. r[k] = IF k < at THEN q[k] ELSE IF k = at THEN e ELSE q[k - 1]
      BY <1>3, <2>9, <3>1
    <3>4. CASE j # at /\ k # at
      <4>1. PICK jj \in 1 .. Len(q) : r[j] = q[jj] /\ jj = IF j < at THEN j ELSE j - 1
        <5>1. CASE j < at
          <6>1. j <= Len(q)
            BY <1>3, <2>4, <3>1, <5>1
          <6> QED BY <1>3, <3>1, <3>2, <5>1, <6>1
        <5>2. CASE j > at
          <6>1. j - 1 >= 1 /\ j - 1 <= Len(q) /\ j - 1 \in Int /\ ~(j < at)
            BY <1>3, <2>4, <3>1, <5>2
          <6> QED BY <1>3, <3>2, <3>4, <6>1
        <5> QED BY <2>4, <3>1, <3>4, <5>1, <5>2
      <4>2. PICK kk \in 1 .. Len(q) : r[k] = q[kk] /\ kk = IF k < at THEN k ELSE k - 1
        <5>1. CASE k < at
          <6>1. k <= Len(q)
            BY <1>3, <2>4, <3>1, <5>1
          <6> QED BY <1>3, <3>1, <3>3, <5>1, <6>1
        <5>2. CASE k > at
          <6>1. k - 1 >= 1 /\ k - 1 <= Len(q) /\ k - 1 \in Int /\ ~(k < at)
            BY <1>3, <2>4, <3>1, <5>2
          <6> QED BY <1>3, <3>3, <3>4, <6>1
        <5> QED BY <2>4, <3>1, <3>4, <5>1, <5>2
      <4>3. jj < kk
        BY <1>3, <2>4, <3>1, <3>4, <4>1, <4>2
      <4> QED BY <4>1, <4>2, <4>3 DEF Rising
    <3>5. CASE k = at
      <4>1. j \in 1 .. Len(q) /\ j < at /\ r[j] = q[j] /\ r[k] = e
        BY <1>3, <2>4, <3>1, <3>2, <3>3, <3>5
      <4>2. PICK x \in S : x = q[j] /\ ~(f[x] > f[e])
        BY <1>3, <2>5, <4>1
      <4>3. f[x] \in Int /\ f[e] \in Int
        OBVIOUS
      <4>4. f[x] <= f[e]
        BY <4>2, <4>3
      <4> QED BY <4>1, <4>2, <4>4
    <3>6. CASE j = at
      <4>1. PICK kk \in 1 .. Len(q) : r[k] = q[kk] /\ at <= kk /\ r[j] = e
        BY <1>3, <2>4, <3>1, <3>2, <3>3, <3>6
      <4>2. at \in 1 .. Len(q)
        BY <1>3, <2>4
      <4>3. PICK x \in S, y \in S : x = q[at] /\ y = q[kk]
        BY <1>3, <4>1, <4>2
      <4>4. f[x] \in Int /\ f[y] \in Int /\ f[e] \in Int
        OBVIOUS
      <4>5. f[x] <= f[y]
        <5>1. CASE at = kk
          BY <4>3, <4>4, <5>1
        <5>2. CASE at < kk
          BY <4>1, <4>2, <4>3, <5>2 DEF Rising
        <5> QED BY <2>4, <4>1, <5>1, <5>2
      <4>6. f[e] <= f[y]
        BY <2>4, <4>3, <4>4, <4>5
      <4> QED BY <4>1, <4>3, <4>6
    <3> QED BY <3>4, <3>5, <3>6
  <2>11. PutBefore(q, e, at) = r
    BY <2>4, <2>6 DEF PutBefore
  <2> QED BY <1>1, <2>8, <2>10, <2>11 DEF Rising
<1> QED BY <1>4, <1>5

TimerLists == {"hard", "soft"}
LeftIn(z, t) == After(z.due[t], z.tick)

TimerType(z) ==
  /\ z = [use |-> z.use, tick |-> z.tick, list |-> z.list, called |-> z.called, due |-> z.due,
          init |-> z.init, periodic |-> z.periodic, active |-> z.active, isr |-> z.isr,
          pc |-> z.pc, next |-> z.next, lag |-> z.lag, MUTED |-> z.MUTED]
  /\ z.use \in SUBSET UserTimers /\ z.tick \in Ticks /\ z.lag \in Nat /\ z.lag <= MaxLag
  /\ z.next \in Ticks
  /\ z.list \in [TimerLists -> Seq(AllTimers)]
  /\ z.called \in [TimerLists -> AllTimers \cup {NoTimer}]
  /\ z.due \in [AllTimers -> Ticks] /\ z.init \in [AllTimers -> 1 .. Longest]
  /\ z.periodic \in [AllTimers -> BOOLEAN] /\ z.active \in [AllTimers -> BOOLEAN]
  /\ z.isr \in {"none", "check", "call"} /\ ~z.periodic[ThreadTimer]
  /\ z.MUTED \in SUBSET UserTimers

\* The lists have each timer once, the one that is due first in front.
Ordered(z) ==
  \A l \in TimerLists :
    /\ IsInjective(z.list[l])
    /\ \A t \in Members(z.list[l]) :
         ListOf(t) = l /\ -(2 * MaxLag) <= LeftIn(z, t) /\ LeftIn(z, t) <= Longest
    /\ \A i, j \in 1 .. Len(z.list[l]) :
         i < j => LeftIn(z, z.list[l][i]) <= LeftIn(z, z.list[l][j])

\* What is active is listed or being called.
Active(z) ==
  /\ \A t \in AllTimers :
       /\ Listed(z, t) => z.active[t] /\ z.called[ListOf(t)] # t
       /\ z.active[t] => \/ Listed(z, t) \/ t \in z.MUTED
                         \/ (z.called[ListOf(t)] = t /\ z.periodic[t])
  /\ \A l \in TimerLists : z.called[l] # NoTimer => ListOf(z.called[l]) = l

\* The hard timers.
HardOnTime(z) ==
  /\ z.called["hard"] # NoTimer => z.isr = "call" /\ LeftIn(z, z.called["hard"]) = 0
  /\ \A t \in AllTimers : ListOf(t) = "hard" /\ Listed(z, t) =>
       0 <= LeftIn(z, t) /\ (z.isr = "none" => 0 < LeftIn(z, t))

\* The soft timers, and the timer thread: how late they can be.
Late(z) == IF z.pc \in {"check", "call"} THEN MaxLag + z.lag ELSE z.lag
ThreadServes(z) ==
  /\ Listed(z, ThreadTimer) <=> z.pc = "sleeping"
  /\ z.called["soft"] # NoTimer =>
       /\ z.pc = "call" /\ LeftIn(z, z.called["soft"]) <= 0
       /\ -Late(z) <= LeftIn(z, z.called["soft"])
  /\ z.pc = "delta" => -z.lag <= After(z.next, z.tick) /\ After(z.next, z.tick) <= Longest
  /\ z.pc = "delay" => 1 <= z.next /\ z.next <= Longest
  /\ \A t \in SoftTimers : Listed(z, t) =>
       /\ -Late(z) <= LeftIn(z, t) /\ z.pc \notin {"suspend", "asleep"}
       /\ z.pc = "delta" => After(z.next, z.tick) <= LeftIn(z, t)
       /\ z.pc = "delay" => z.next <= LeftIn(z, t) + z.lag
       /\ z.pc = "sleeping" => LeftIn(z, ThreadTimer) <= LeftIn(z, t) + z.lag

Steady(z, y) ==
  /\ y.use = z.use /\ y.tick = z.tick /\ y.isr = z.isr /\ y.pc = z.pc
  /\ y.next = z.next /\ y.lag = z.lag

\* t is out of its list, and not the one being called.
Unlisted(z, y, t) ==
  /\ TimerType(y) /\ Ordered(y) /\ Steady(z, y)
  /\ y.init = z.init /\ y.periodic = z.periodic /\ y.active = z.active /\ y.MUTED = z.MUTED
  /\ \A u \in AllTimers : Listed(y, u) <=> Listed(z, u) /\ u # t
  /\ \A u \in AllTimers : u # t => y.due[u] = z.due[u]
  /\ \A l \in TimerLists :
       y.called[l] = IF l = ListOf(t) /\ z.called[l] = t THEN NoTimer ELSE z.called[l]

\* Where timers are.
LEMMA TimerPlaces ==
  /\ ThreadTimer \in AllTimers /\ HardTimers \subseteq AllTimers /\ SoftTimers \subseteq AllTimers
  /\ UserTimers \subseteq AllTimers /\ ThreadTimer \notin UserTimers /\ NoTimer \notin AllTimers
  /\ \A t \in AllTimers : ListOf(t) \in TimerLists
  /\ \A t \in AllTimers : ListOf(t) = "soft" <=> t \in SoftTimers
  /\ \A t \in AllTimers : ListOf(t) = "hard" <=> t \in HardTimers \cup {ThreadTimer}
  /\ "hard" \in TimerLists /\ "soft" \in TimerLists
  BY TimerAssumption DEF AllTimers, UserTimers, ListOf, TimerLists

\* How much time is left, as a number.
LEMMA LeftType ==
  ASSUME NEW z, TimerType(z), NEW t \in AllTimers
  PROVE  LeftIn(z, t) \in Int
  BY AfterIs DEF TimerType, LeftIn

\* To be listed.
LEMMA ListedIs ==
  ASSUME NEW z, NEW t
  PROVE  Listed(z, t) <=> t \in Members(z.list[ListOf(t)])
  BY Zenon DEF Listed, Members

\* timer_remove.
LEMMA RemoveUnlists ==
  ASSUME NEW z, TimerType(z), Ordered(z), NEW t \in AllTimers
  PROVE  Unlisted(z, timer_remove(z, t), t)
<1>1. PICK y : y = timer_remove(z, t)
  OBVIOUS
<1>2. PICK k \in TimerLists : k = ListOf(t)
  BY TimerPlaces
<1>3. PICK q \in Seq(AllTimers) : q = z.list[k]
  BY DEF TimerType
<1>4. PICK r : r = RemoveFirst(q, t)
  OBVIOUS
<1>5. /\ r \in Seq(AllTimers) /\ IsInjective(r) /\ Members(r) = Members(q) \ {t}
  BY <1>3, <1>4, RemovedFrom DEF Ordered
<1>6. /\ y.list = [z.list EXCEPT ![k] = r] /\ y.due = [z.due EXCEPT ![t] = 0]
      /\ y.called = [z.called EXCEPT ![k] = IF z.called[k] = t THEN NoTimer ELSE z.called[k]]
      /\ y.init = z.init /\ y.periodic = z.periodic /\ y.active = z.active /\ y.MUTED = z.MUTED
      /\ Steady(z, y)
      /\ y = [use |-> y.use, tick |-> y.tick, list |-> y.list, called |-> y.called,
              due |-> y.due, init |-> y.init, periodic |-> y.periodic, active |-> y.active,
              isr |-> y.isr, pc |-> y.pc, next |-> y.next, lag |-> y.lag, MUTED |-> y.MUTED]
  BY <1>1, <1>2, <1>3, <1>4 DEF timer_remove, TimerType, Steady
<1>7. 0 \in Ticks
  BY HalfFacts DEF Ticks
<1>8. TimerType(y)
  BY <1>5, <1>6, <1>7 DEF TimerType, Steady
<1>9. \A l \in TimerLists : y.list[l] = IF l = k THEN r ELSE z.list[l]
  BY <1>6 DEF TimerType
<1>10. \A u \in AllTimers : Listed(y, u) <=> Listed(z, u) /\ u # t
  <2> SUFFICES ASSUME NEW u \in AllTimers
               PROVE  u \in Members(y.list[ListOf(u)]) <=> u \in Members(z.list[ListOf(u)]) /\ u # t
    BY ListedIs
  <2>1. PICK l \in TimerLists : l = ListOf(u)
    BY TimerPlaces
  <2>2. CASE l = k
    BY <1>3, <1>5, <1>9, <2>1, <2>2
  <2>3. CASE l # k
    BY <1>2, <1>9, <2>1, <2>3
  <2> QED BY <2>2, <2>3
<1>11. \A u \in AllTimers : u # t => y.due[u] = z.due[u] /\ LeftIn(y, u) = LeftIn(z, u)
  BY <1>6 DEF TimerType, LeftIn, Steady
<1>12. t \notin Members(r) /\ \A l \in TimerLists : l # k => t \notin Members(z.list[l])
  BY <1>2, <1>5 DEF Ordered
<1>13. ASSUME NEW l \in TimerLists
       PROVE  /\ IsInjective(y.list[l])
              /\ \A u \in Members(y.list[l]) :
                   ListOf(u) = l /\ -(2 * MaxLag) <= LeftIn(y, u) /\ LeftIn(y, u) <= Longest
              /\ \A i, j \in 1 .. Len(y.list[l]) :
                   i < j => LeftIn(y, y.list[l][i]) <= LeftIn(y, y.list[l][j])
  <2>1. PICK x \in Seq(AllTimers) : x = y.list[l]
    BY <1>8 DEF TimerType
  <2>2. PICK f : f = [u \in AllTimers |-> LeftIn(z, u)]
    OBVIOUS
  <2>3. IsInjective(x) /\ Members(x) \subseteq Members(z.list[l])
    BY <1>3, <1>5, <1>9, <2>1 DEF Ordered
  <2>4. Rising(z.list[l], f)
    <3>1. PICK v \in Seq(AllTimers) : v = z.list[l]
      BY DEF TimerType
    <3>2. \A i \in 1 .. Len(v) : f[v[i]] = LeftIn(z, v[i])
      BY <2>2, <3>1
    <3> QED BY <3>1, <3>2 DEF Ordered, Rising
  <2>5. Rising(x, f)
    BY <1>3, <1>4, <1>9, <2>1, <2>4, RemovedRises
  <2>6. \A i \in 1 .. Len(x) : x[i] \in Members(x) /\ x[i] \in AllTimers /\ x[i] # t
    BY <1>9, <1>12, <2>1, Indexed
  <2>7. \A i \in 1 .. Len(x) : f[x[i]] = LeftIn(y, x[i])
    BY <1>11, <2>2, <2>6
  <2>8. \A i, j \in 1 .. Len(x) : i < j => LeftIn(y, x[i]) <= LeftIn(y, x[j])
    BY <2>5, <2>7 DEF Rising
  <2>9. ASSUME NEW u \in Members(x)
        PROVE  ListOf(u) = l /\ -(2 * MaxLag) <= LeftIn(y, u) /\ LeftIn(y, u) <= Longest
    <3>1. u \in AllTimers /\ u # t /\ u \in Members(z.list[l])
      <4>1. PICK i \in 1 .. Len(x) : x[i] = u
        BY <2>1, <2>9, Indexed
      <4> QED BY <2>3, <2>6, <4>1
    <3> QED BY <1>11, <3>1 DEF Ordered
  <2> QED BY <2>1, <2>3, <2>8, <2>9
<1>14. Ordered(y)
  BY <1>13 DEF Ordered
<1>15. \A l \in TimerLists :
         y.called[l] = IF l = ListOf(t) /\ z.called[l] = t THEN NoTimer ELSE z.called[l]
  BY <1>2, <1>6 DEF TimerType
<1>16. Unlisted(z, y, t)
  BY <1>6, <1>8, <1>10, <1>11, <1>14, <1>15 DEF Unlisted
<1> QED BY <1>1, <1>16

\* t is put into its list, to be due when it has run for its time.
ListedNow(z, y, t) ==
  /\ TimerType(y) /\ Ordered(y) /\ Steady(z, y)
  /\ y.init = z.init /\ y.periodic = z.periodic /\ y.called = z.called
  /\ y.active = [z.active EXCEPT ![t] = TRUE] /\ y.MUTED = z.MUTED \ {t}
  /\ \A u \in AllTimers : Listed(y, u) <=> Listed(z, u) \/ u = t
  /\ \A u \in AllTimers : u # t => y.due[u] = z.due[u]
  /\ LeftIn(y, t) = z.init[t]

\* The place InsertByDue looks for.
DueLater(z, q, due) == SelectInSeq(q, LAMBDA u : z.due[u] # due /\ Reached(z.due[u], due))

\* Where InsertByDue puts t is where it belongs by the time that is left.
LEMMA DueOrder ==
  ASSUME NEW z, TimerType(z), Ordered(z), NEW t \in AllTimers, NEW l \in TimerLists,
         NEW q \in Seq(AllTimers), q = z.list[l], t \notin Members(q),
         NEW due \in Ticks, After(due, z.tick) = z.init[t],
         NEW f, f = [u \in AllTimers |-> IF u = t THEN z.init[t] ELSE LeftIn(z, u)]
  PROVE  DueLater(z, q, due) = Before(q, t, f)
<1>1. \A i \in 1 .. Len(q) : q[i] \in AllTimers /\ q[i] \in Members(q) /\ q[i] # t
  BY Indexed
<1>2. z.init[t] \in Int /\ 1 <= z.init[t] /\ z.init[t] <= Longest
  BY HalfFacts DEF TimerType
<1>3. ASSUME NEW i \in 1 .. Len(q)
      PROVE  (z.due[q[i]] # due /\ Reached(z.due[q[i]], due)) <=> f[q[i]] > f[t]
  <2>1. PICK u \in AllTimers : u = q[i] /\ u # t /\ u \in Members(q)
    BY <1>1
  <2>2. PICK a \in Ticks, b \in Ticks : a = z.due[u] /\ b = z.tick
    BY DEF TimerType
  <2>3. After(a, b) = LeftIn(z, u) /\ After(due, b) = z.init[t] /\ After(a, b) \in Int
    BY <2>2, AfterIs DEF LeftIn
  <2>4. -(2 * MaxLag) <= After(a, b) /\ After(a, b) <= Longest
    BY <2>1, <2>3 DEF Ordered
  <2>5. After(a, b) - After(due, b) < Half /\ After(due, b) - After(a, b) < Half
    BY <1>2, <2>3, <2>4, HalfFacts
  <2>6. a # due /\ Reached(a, due) <=> After(a, b) > After(due, b)
    BY <2>5, AfterOrder
  <2>7. f[u] = After(a, b) /\ f[t] = After(due, b)
    BY <2>1, <2>3
  <2> QED BY <2>1, <2>2, <2>6, <2>7
<1>4. {i \in 1 .. Len(q) : z.due[q[i]] # due /\ Reached(z.due[q[i]], due)}
        = {i \in 1 .. Len(q) : f[q[i]] > f[t]}
  BY <1>3
<1> QED BY <1>4, Zenon DEF SelectInSeq, Before, DueLater

\* InsertByDue.
LEMMA InsertLists ==
  ASSUME NEW z, TimerType(z), Ordered(z), NEW t \in AllTimers, ~Listed(z, t)
  PROVE  ListedNow(z, InsertByDue(z, t), t)
<1>1. PICK y : y = InsertByDue(z, t)
  OBVIOUS
<1>2. PICK k \in TimerLists : k = ListOf(t)
  BY TimerPlaces
<1>3. PICK q \in Seq(AllTimers) : q = z.list[k]
  BY DEF TimerType
<1>4. t \notin Members(q) /\ IsInjective(q)
  BY <1>2, <1>3, ListedIs DEF Ordered
<1>5. z.init[t] \in Nat /\ 1 <= z.init[t] /\ z.init[t] <= Longest /\ z.init[t] < Half
  BY HalfFacts DEF TimerType
<1>6. PICK due \in Ticks : due = (z.tick + z.init[t]) % TickMod /\ After(due, z.tick) = z.init[t]
  BY <1>5, AfterSome DEF TimerType
<1>7. PICK f : f = [u \in AllTimers |-> IF u = t THEN z.init[t] ELSE LeftIn(z, u)]
  OBVIOUS
<1>8. f \in [AllTimers -> Int]
  BY <1>5, <1>7, LeftType
<1>9. PICK at : at = DueLater(z, q, due)
  OBVIOUS
<1>10. at = Before(q, t, f)
  BY <1>3, <1>4, <1>6, <1>7, <1>9, DueOrder
<1>11. PICK r : r = PutBefore(q, t, at)
  OBVIOUS
<1>12. \A l \in TimerLists : Rising(z.list[l], f) /\ (l = k \/ t \notin Members(z.list[l]))
  <2> SUFFICES ASSUME NEW l \in TimerLists
               PROVE  Rising(z.list[l], f) /\ (l = k \/ t \notin Members(z.list[l]))
    OBVIOUS
  <2>1. PICK x \in Seq(AllTimers) : x = z.list[l]
    BY DEF TimerType
  <2>2. t \notin Members(x)
    <3>1. t \in Members(x) => ListOf(t) = l
      BY <2>1 DEF Ordered
    <3> QED BY <1>2, <1>3, <1>4, <2>1, <3>1
  <2>3. \A i \in 1 .. Len(x) : x[i] \in AllTimers /\ x[i] # t
    BY <2>2, Indexed
  <2>4. \A i \in 1 .. Len(x) : f[x[i]] = LeftIn(z, x[i])
    BY <1>7, <2>3
  <2> QED BY <2>1, <2>2, <2>4 DEF Ordered, Rising
<1>13. AddsTo(r, AllTimers, q, t) /\ Rising(r, f)
  BY <1>3, <1>4, <1>8, <1>10, <1>11, <1>12, PutRises
<1>14. r \in Seq(AllTimers) /\ IsInjective(r) /\ Members(r) = Members(q) \cup {t}
  BY <1>13 DEF AddsTo
<1>15. y = [z EXCEPT !.due[t] = due, !.active[t] = TRUE, !.MUTED = @ \ {t}, !.list[k] = r]
  <2>1. DueLater(z, z.list[ListOf(t)], (z.tick + z.init[t]) % TickMod) = at
    BY <1>2, <1>3, <1>6, <1>9
  <2>2. y = [z EXCEPT !.due[t] = (z.tick + z.init[t]) % TickMod, !.active[t] = TRUE,
                      !.MUTED = @ \ {t},
                      !.list[ListOf(t)] =
                        IF DueLater(z, z.list[ListOf(t)], (z.tick + z.init[t]) % TickMod) = 0
                        THEN Append(@, t)
                        ELSE InsertAt(@, DueLater(z, z.list[ListOf(t)],
                                                  (z.tick + z.init[t]) % TickMod), t)]
    BY <1>1, Zenon DEF InsertByDue, DueLater
  <2>3. y = [z EXCEPT !.due[t] = due, !.active[t] = TRUE, !.MUTED = @ \ {t},
                      !.list[k] = PutBefore(@, t, at)]
    BY <1>2, <1>6, <2>1, <2>2, Zenon DEF PutBefore
  <2> QED BY <1>3, <1>11, <2>3
<1>16. /\ y.list = [z.list EXCEPT ![k] = r] /\ y.due = [z.due EXCEPT ![t] = due]
       /\ y.called = z.called /\ y.init = z.init /\ y.periodic = z.periodic
       /\ y.active = [z.active EXCEPT ![t] = TRUE] /\ y.MUTED = z.MUTED \ {t}
       /\ Steady(z, y)
       /\ y = [use |-> y.use, tick |-> y.tick, list |-> y.list, called |-> y.called,
               due |-> y.due, init |-> y.init, periodic |-> y.periodic, active |-> y.active,
               isr |-> y.isr, pc |-> y.pc, next |-> y.next, lag |-> y.lag, MUTED |-> y.MUTED]
  BY <1>15 DEF TimerType, Steady
<1>17. TimerType(y)
  BY <1>14, <1>16 DEF TimerType, Steady
<1>18. \A l \in TimerLists : y.list[l] = IF l = k THEN r ELSE z.list[l]
  BY <1>16 DEF TimerType
<1>19. \A u \in AllTimers : Listed(y, u) <=> Listed(z, u) \/ u = t
  <2> SUFFICES ASSUME NEW u \in AllTimers
               PROVE  u \in Members(y.list[ListOf(u)]) <=> u \in Members(z.list[ListOf(u)]) \/ u = t
    BY ListedIs
  <2>1. PICK l \in TimerLists : l = ListOf(u)
    BY TimerPlaces
  <2>2. CASE l = k
    BY <1>3, <1>14, <1>18, <2>1, <2>2
  <2>3. CASE l # k
    BY <1>2, <1>18, <2>1, <2>3
  <2> QED BY <2>2, <2>3
<1>20. \A u \in AllTimers : u # t => y.due[u] = z.due[u] /\ LeftIn(y, u) = LeftIn(z, u)
  BY <1>16 DEF TimerType, LeftIn, Steady
<1>21. LeftIn(y, t) = z.init[t]
  BY <1>6, <1>16 DEF TimerType, LeftIn, Steady
<1>22. \A u \in AllTimers : LeftIn(y, u) = f[u]
  BY <1>7, <1>20, <1>21
<1>23. ASSUME NEW l \in TimerLists
       PROVE  /\ IsInjective(y.list[l])
              /\ \A u \in Members(y.list[l]) :
                   ListOf(u) = l /\ -(2 * MaxLag) <= LeftIn(y, u) /\ LeftIn(y, u) <= Longest
              /\ \A i, j \in 1 .. Len(y.list[l]) :
                   i < j => LeftIn(y, y.list[l][i]) <= LeftIn(y, y.list[l][j])
  <2>1. PICK x \in Seq(AllTimers) : x = y.list[l]
    BY <1>17 DEF TimerType
  <2>2. IsInjective(x) /\ Rising(x, f)
    BY <1>12, <1>13, <1>14, <1>18, <2>1 DEF Ordered
  <2>3. \A i \in 1 .. Len(x) : x[i] \in AllTimers
    OBVIOUS
  <2>4. \A i, j \in 1 .. Len(x) : i < j => LeftIn(y, x[i]) <= LeftIn(y, x[j])
    BY <1>22, <2>2, <2>3 DEF Rising
  <2>5. ASSUME NEW u \in Members(x)
        PROVE  ListOf(u) = l /\ -(2 * MaxLag) <= LeftIn(y, u) /\ LeftIn(y, u) <= Longest
    <3>1. CASE u = t
      <4>1. l = k
        BY <1>12, <1>18, <2>1, <2>5, <3>1
      <4>2. -(2 * MaxLag) <= z.init[t]
        BY <1>5, HalfFacts
      <4> QED BY <1>2, <1>5, <1>21, <3>1, <4>1, <4>2
    <3>2. CASE u # t
      <4>1. u \in Members(z.list[l])
        BY <1>3, <1>14, <1>18, <2>1, <2>5, <3>2
      <4>2. u \in AllTimers
        BY <2>1, <2>3, <2>5, Indexed
      <4> QED BY <1>20, <3>2, <4>1, <4>2 DEF Ordered
    <3> QED BY <3>1, <3>2
  <2> QED BY <2>1, <2>2, <2>4, <2>5
<1>24. Ordered(y)
  BY <1>23 DEF Ordered
<1>25. ListedNow(z, y, t)
  BY <1>16, <1>17, <1>19, <1>20, <1>21, <1>24 DEF ListedNow
<1> QED BY <1>1, <1>25

\* The fields of a record of timers.
Fields(z) ==
  z = [use |-> z.use, tick |-> z.tick, list |-> z.list, called |-> z.called, due |-> z.due,
       init |-> z.init, periodic |-> z.periodic, active |-> z.active, isr |-> z.isr,
       pc |-> z.pc, next |-> z.next, lag |-> z.lag, MUTED |-> z.MUTED]

\* The order is that of the lists and of when the listed timers are due.
LEMMA SameOrder ==
  ASSUME NEW x, TimerType(x), Ordered(x), NEW y, y.list = x.list, y.tick = x.tick,
         \A u \in AllTimers : Listed(x, u) => y.due[u] = x.due[u]
  PROVE  /\ Ordered(y)
         /\ \A u : Listed(y, u) <=> Listed(x, u)
         /\ \A u \in AllTimers : y.due[u] = x.due[u] => LeftIn(y, u) = LeftIn(x, u)
<1>1. \A u : Listed(y, u) <=> Listed(x, u)
  BY DEF Listed
<1>2. \A u \in AllTimers : y.due[u] = x.due[u] => LeftIn(y, u) = LeftIn(x, u)
  BY DEF LeftIn
<1>3. ASSUME NEW l \in TimerLists
      PROVE  /\ IsInjective(y.list[l])
             /\ \A u \in Members(y.list[l]) :
                  ListOf(u) = l /\ -(2 * MaxLag) <= LeftIn(y, u) /\ LeftIn(y, u) <= Longest
             /\ \A i, j \in 1 .. Len(y.list[l]) :
                  i < j => LeftIn(y, y.list[l][i]) <= LeftIn(y, y.list[l][j])
  <2>1. PICK q \in Seq(AllTimers) : q = x.list[l] /\ q = y.list[l]
    BY DEF TimerType
  <2>2. \A u \in Members(q) : u \in AllTimers /\ ListOf(u) = l
    BY <2>1, Indexed DEF Ordered
  <2>3. \A u \in Members(q) : LeftIn(y, u) = LeftIn(x, u)
    BY <1>2, <2>1, <2>2, ListedIs
  <2>4. \A i \in 1 .. Len(q) : q[i] \in Members(q)
    BY Indexed
  <2> QED BY <2>1, <2>3, <2>4 DEF Ordered
<1> QED BY <1>1, <1>2, <1>3 DEF Ordered

\* t is out of its list and stopped.
Detached(z, y, t) ==
  /\ TimerType(y) /\ Ordered(y) /\ Steady(z, y)
  /\ y.init = z.init /\ y.periodic = z.periodic
  /\ y.active = [z.active EXCEPT ![t] = FALSE] /\ y.MUTED = z.MUTED \ {t}
  /\ \A u \in AllTimers : Listed(y, u) <=> Listed(z, u) /\ u # t
  /\ \A u \in AllTimers : u # t => y.due[u] = z.due[u]
  /\ \A l \in TimerLists :
       y.called[l] = IF l = ListOf(t) /\ z.called[l] = t THEN NoTimer ELSE z.called[l]

\* rt_timer_detach.
LEMMA Detaches ==
  ASSUME NEW z, TimerType(z), Ordered(z), NEW t \in AllTimers
  PROVE  Detached(z, rt_timer_detach(z, t), t)
<1>1. PICK x : x = timer_remove(z, t)
  OBVIOUS
<1>2. Unlisted(z, x, t)
  BY <1>1, RemoveUnlists
<1>3. TimerType(x) /\ Ordered(x)
  BY <1>2 DEF Unlisted
<1>4. PICK y : y = [x EXCEPT !.active[t] = FALSE, !.MUTED = @ \ {t}]
  OBVIOUS
<1>5. /\ y.list = x.list /\ y.due = x.due /\ y.called = x.called /\ y.init = x.init
      /\ y.periodic = x.periodic /\ y.active = [x.active EXCEPT ![t] = FALSE]
      /\ y.MUTED = x.MUTED \ {t} /\ Steady(x, y) /\ Fields(y)
  BY <1>3, <1>4 DEF TimerType, Steady, Fields
<1>6. TimerType(y)
  BY <1>3, <1>5 DEF TimerType, Steady, Fields
<1>7. Ordered(y) /\ \A u : Listed(y, u) <=> Listed(x, u)
  BY <1>3, <1>5, SameOrder DEF Steady
<1>8. Detached(z, y, t)
  BY <1>2, <1>5, <1>6, <1>7 DEF Detached, Unlisted, Steady
<1> QED BY <1>1, <1>4, <1>8 DEF rt_timer_detach

\* t runs anew.
Restarted(z, y, t) ==
  /\ TimerType(y) /\ Ordered(y) /\ Steady(z, y)
  /\ y.init = z.init /\ y.periodic = z.periodic
  /\ y.active = [z.active EXCEPT ![t] = TRUE] /\ y.MUTED = z.MUTED \ {t}
  /\ \A u \in AllTimers : Listed(y, u) <=> Listed(z, u) \/ u = t
  /\ \A u \in AllTimers : u # t => y.due[u] = z.due[u]
  /\ LeftIn(y, t) = z.init[t]
  /\ \A l \in TimerLists :
       y.called[l] = IF l = ListOf(t) /\ z.called[l] = t THEN NoTimer ELSE z.called[l]

\* The first part of rt_timer_start.
LEMMA Restarts ==
  ASSUME NEW z, TimerType(z), Ordered(z), NEW t \in AllTimers
  PROVE  Restarted(z, InsertByDue(timer_remove(z, t), t), t)
<1>1. PICK x : x = timer_remove(z, t)
  OBVIOUS
<1>2. Unlisted(z, x, t)
  BY <1>1, RemoveUnlists
<1>3. TimerType(x) /\ Ordered(x) /\ ~Listed(x, t)
  BY <1>2 DEF Unlisted
<1>4. PICK y : y = InsertByDue(x, t)
  OBVIOUS
<1>5. ListedNow(x, y, t)
  BY <1>3, <1>4, InsertLists
<1>6. Restarted(z, y, t)
  BY <1>2, <1>5 DEF Restarted, Unlisted, ListedNow, Steady
<1> QED BY <1>1, <1>4, <1>6

\* The first timer of list l is being called.
Begun(z, y, l, t) ==
  /\ TimerType(y) /\ Ordered(y) /\ Steady(z, y)
  /\ y.init = z.init /\ y.periodic = z.periodic /\ y.MUTED = z.MUTED
  /\ y.active = [z.active EXCEPT ![t] = z.periodic[t]]
  /\ \A u \in AllTimers : Listed(y, u) <=> Listed(z, u) /\ u # t
  /\ y.due = z.due /\ y.called = [z.called EXCEPT ![l] = t]

\* BeginCall.
LEMMA Begins ==
  ASSUME NEW z, TimerType(z), Ordered(z), NEW l \in TimerLists, z.list[l] # <<>>
  PROVE  \E t \in AllTimers :
           /\ Begun(z, BeginCall(z, l), l, t) /\ t = Head(z.list[l])
           /\ ListOf(t) = l /\ Listed(z, t)
           /\ \A u \in AllTimers : ListOf(u) = l /\ Listed(z, u) => LeftIn(z, t) <= LeftIn(z, u)
<1>1. PICK q \in Seq(AllTimers) : q = z.list[l]
  BY DEF TimerType
<1>2. Len(q) \in Nat /\ 1 <= Len(q) /\ Head(q) = q[1]
  BY <1>1
<1>3. PICK t \in AllTimers : t = Head(q) /\ t = q[1] /\ t \in Members(q)
  BY <1>2, Indexed
<1>4. ListOf(t) = l /\ Listed(z, t)
  BY <1>1, <1>3, ListedIs DEF Ordered
<1>5. ASSUME NEW u \in AllTimers, ListOf(u) = l, Listed(z, u) PROVE LeftIn(z, t) <= LeftIn(z, u)
  <2>1. PICK i \in 1 .. Len(q) : q[i] = u
    BY <1>1, <1>5, ListedIs, Indexed
  <2>2. CASE i = 1
    BY <1>3, <2>1, <2>2, LeftType
  <2>3. CASE i # 1
    <3>1. 1 \in 1 .. Len(q) /\ 1 < i
      BY <1>2, <2>3
    <3> QED BY <1>1, <1>3, <2>1, <3>1 DEF Ordered
  <2> QED BY <2>2, <2>3
<1>6. PICK x : x = timer_remove(z, t)
  OBVIOUS
<1>7. Unlisted(z, x, t)
  BY <1>6, RemoveUnlists
<1>8. TimerType(x) /\ Ordered(x) /\ ~Listed(x, t)
  BY <1>7 DEF Unlisted
<1>9. PICK y : y = [x EXCEPT !.called[l] = t, !.due[t] = z.due[t], !.active[t] = z.periodic[t]]
  OBVIOUS
<1>10. /\ y.list = x.list /\ y.due = [x.due EXCEPT ![t] = z.due[t]]
       /\ y.called = [x.called EXCEPT ![l] = t]
       /\ y.init = x.init /\ y.periodic = x.periodic
       /\ y.active = [x.active EXCEPT ![t] = z.periodic[t]]
       /\ y.MUTED = x.MUTED /\ Steady(x, y) /\ Fields(y)
  BY <1>8, <1>9 DEF TimerType, Steady, Fields
<1>11. z.due[t] \in Ticks /\ z.periodic[t] \in BOOLEAN
  BY DEF TimerType
<1>12. TimerType(y)
  BY <1>8, <1>10, <1>11 DEF TimerType, Steady, Fields
<1>13. Ordered(y) /\ \A u : Listed(y, u) <=> Listed(x, u)
  <2>1. \A u \in AllTimers : Listed(x, u) => y.due[u] = x.due[u]
    BY <1>8, <1>10 DEF TimerType
  <2> QED BY <1>8, <1>10, <2>1, SameOrder DEF Steady
<1>14. y.due = z.due
  <2>1. \A u \in AllTimers : y.due[u] = z.due[u]
    BY <1>7, <1>8, <1>10 DEF TimerType, Unlisted
  <2>2. y.due \in [AllTimers -> Ticks] /\ z.due \in [AllTimers -> Ticks]
    BY <1>12 DEF TimerType
  <2> QED BY <2>1, <2>2
<1>15. y.called = [z.called EXCEPT ![l] = t]
  <2>1. \A k \in TimerLists : k # l => x.called[k] = z.called[k]
    BY <1>4, <1>7 DEF Unlisted
  <2>2. x.called \in [TimerLists -> AllTimers \cup {NoTimer}]
        /\ z.called \in [TimerLists -> AllTimers \cup {NoTimer}]
    BY <1>8 DEF TimerType
  <2> QED BY <1>10, <2>1, <2>2
<1>16. Begun(z, y, l, t)
  BY <1>7, <1>10, <1>12, <1>13, <1>14, <1>15 DEF Begun, Unlisted, Steady
<1>17. BeginCall(z, l) = y
  BY <1>1, <1>3, <1>6, <1>9 DEF BeginCall
<1> QED BY <1>1, <1>3, <1>4, <1>5, <1>16, <1>17

TimerInv(z) == TimerType(z) /\ Ordered(z) /\ Active(z) /\ HardOnTime(z) /\ ThreadServes(z)

\* How late timers can be, as a number.
LEMMA LateType ==
  ASSUME NEW z, TimerType(z)
  PROVE  Late(z) \in Nat /\ Late(z) <= 2 * MaxLag /\ z.lag <= Late(z)
  BY HalfFacts DEF TimerType, Late

\* A timer of the user is stopped.
LEMMA DetachedInv ==
  ASSUME NEW z, TimerInv(z), NEW t \in UserTimers, NEW y, Detached(z, y, t)
  PROVE  TimerInv(y)
<1>1. /\ t \in AllTimers /\ t # ThreadTimer /\ TimerType(z) /\ TimerType(y) /\ Ordered(y)
      /\ Steady(z, y)
      /\ \A u \in AllTimers : u # t => LeftIn(y, u) = LeftIn(z, u)
      /\ \A u \in AllTimers : Listed(y, u) <=> Listed(z, u) /\ u # t
      /\ \A l \in TimerLists : y.called[l] = z.called[l] \/ y.called[l] = NoTimer
      /\ \A l \in TimerLists : y.called[l] # NoTimer => y.called[l] = z.called[l]
      /\ \A l \in TimerLists : z.called[l] = t /\ l = ListOf(t) => y.called[l] = NoTimer
  <2>1. /\ t \in AllTimers /\ t # ThreadTimer /\ TimerType(z) /\ TimerType(y) /\ Ordered(y)
        /\ Steady(z, y) /\ \A u \in AllTimers : u # t => y.due[u] = z.due[u]
        /\ \A u \in AllTimers : Listed(y, u) <=> Listed(z, u) /\ u # t
    BY TimerPlaces DEF Detached, TimerInv
  <2>2. \A u \in AllTimers : u # t => LeftIn(y, u) = LeftIn(z, u)
    BY <2>1 DEF Steady, LeftIn
  <2>3. \A l \in TimerLists :
          y.called[l] = IF l = ListOf(t) /\ z.called[l] = t THEN NoTimer ELSE z.called[l]
    BY DEF Detached
  <2> QED BY <2>1, <2>2, <2>3
<1>2. Active(y)
  <2>1. ASSUME NEW u \in AllTimers, Listed(y, u) PROVE y.active[u] /\ y.called[ListOf(u)] # u
    <3>1. u # t /\ Listed(z, u) /\ ListOf(u) \in TimerLists /\ u # NoTimer
      BY <1>1, <2>1, TimerPlaces
    <3>2. z.active[u] /\ z.called[ListOf(u)] # u
      BY <3>1 DEF TimerInv, Active
    <3> QED BY <1>1, <3>1, <3>2 DEF Detached, TimerType
  <2>2. ASSUME NEW u \in AllTimers, y.active[u]
        PROVE  Listed(y, u) \/ u \in y.MUTED \/ (y.called[ListOf(u)] = u /\ y.periodic[u])
    <3>1. u # t /\ z.active[u] /\ ListOf(u) \in TimerLists
      BY <1>1, <2>2, TimerPlaces DEF Detached, TimerType
    <3>2. Listed(z, u) \/ u \in z.MUTED \/ (z.called[ListOf(u)] = u /\ z.periodic[u])
      BY <3>1 DEF TimerInv, Active
    <3> QED BY <1>1, <3>1, <3>2 DEF Detached
  <2>3. ASSUME NEW l \in TimerLists, y.called[l] # NoTimer PROVE ListOf(y.called[l]) = l
    BY <1>1, <2>3 DEF TimerInv, Active
  <2> QED BY <2>1, <2>2, <2>3 DEF Active
<1>3. ASSUME NEW l \in TimerLists, y.called[l] # NoTimer
      PROVE  z.called[l] = y.called[l] /\ LeftIn(y, y.called[l]) = LeftIn(z, z.called[l])
  <2>1. z.called[l] = y.called[l] /\ y.called[l] \in AllTimers
    BY <1>1, <1>3 DEF TimerType
  <2>2. ListOf(z.called[l]) = l
    BY <1>3, <2>1 DEF TimerInv, Active
  <2>3. z.called[l] # t
    BY <1>1, <1>3, <2>2
  <2> QED BY <1>1, <2>1, <2>3
<1>4. HardOnTime(y)
  BY <1>1, <1>3, TimerPlaces DEF TimerInv, HardOnTime, Steady
<1>5. Late(y) = Late(z) /\ y.pc = z.pc /\ y.lag = z.lag /\ y.next = z.next /\ y.tick = z.tick
  BY <1>1 DEF Late, Steady
<1>6. ThreadServes(y)
  <2>1. Listed(y, ThreadTimer) <=> y.pc = "sleeping"
    BY <1>1, <1>5, TimerPlaces DEF TimerInv, ThreadServes
  <2>2. y.called["soft"] # NoTimer =>
          /\ y.pc = "call" /\ LeftIn(y, y.called["soft"]) <= 0
          /\ -Late(y) <= LeftIn(y, y.called["soft"])
    BY <1>3, <1>5, TimerPlaces DEF TimerInv, ThreadServes
  <2>3. ASSUME NEW u \in SoftTimers, Listed(y, u)
        PROVE  Listed(z, u) /\ LeftIn(y, u) = LeftIn(z, u)
    BY <1>1, <2>3, TimerPlaces
  <2>4. LeftIn(y, ThreadTimer) = LeftIn(z, ThreadTimer)
    BY <1>1, TimerPlaces
  <2> QED BY <1>5, <2>1, <2>2, <2>3, <2>4 DEF TimerInv, ThreadServes
<1> QED BY <1>1, <1>2, <1>4, <1>6 DEF TimerInv

\* A timer is started again: where timers are, and how late they are.
LEMMA RestartedLists ==
  ASSUME NEW z, TimerInv(z), NEW t \in AllTimers, NEW y, Restarted(z, y, t)
  PROVE  /\ TimerType(y) /\ Ordered(y) /\ Active(y) /\ HardOnTime(y)
         /\ y.called["soft"] # NoTimer =>
              /\ y.pc = "call" /\ LeftIn(y, y.called["soft"]) <= 0
              /\ -Late(y) <= LeftIn(y, y.called["soft"])
         /\ \A u \in SoftTimers : Listed(y, u) => -Late(y) <= LeftIn(y, u)
<1>1. /\ t \in AllTimers /\ TimerType(z) /\ TimerType(y) /\ Ordered(y)
      /\ Steady(z, y)
      /\ \A u \in AllTimers : u # t => LeftIn(y, u) = LeftIn(z, u)
      /\ \A u \in AllTimers : Listed(y, u) <=> Listed(z, u) \/ u = t
      /\ \A l \in TimerLists : y.called[l] # NoTimer => y.called[l] = z.called[l]
      /\ \A l \in TimerLists : y.called[l] = z.called[l] \/ (l = ListOf(t) /\ z.called[l] = t)
      /\ \A l \in TimerLists : z.called[l] = t /\ l = ListOf(t) => y.called[l] = NoTimer
  <2>1. /\ t \in AllTimers /\ TimerType(z) /\ TimerType(y) /\ Ordered(y)
        /\ Steady(z, y) /\ \A u \in AllTimers : u # t => y.due[u] = z.due[u]
        /\ \A u \in AllTimers : Listed(y, u) <=> Listed(z, u) \/ u = t
    BY TimerPlaces DEF Restarted, TimerInv
  <2>2. \A u \in AllTimers : u # t => LeftIn(y, u) = LeftIn(z, u)
    BY <2>1 DEF Steady, LeftIn
  <2>3. \A l \in TimerLists :
          y.called[l] = IF l = ListOf(t) /\ z.called[l] = t THEN NoTimer ELSE z.called[l]
    BY DEF Restarted
  <2> QED BY <2>1, <2>2, <2>3
<1>2. Active(y)
  <2>1. ASSUME NEW u \in AllTimers, Listed(y, u) PROVE y.active[u] /\ y.called[ListOf(u)] # u
    <3>1. ListOf(u) \in TimerLists /\ u # NoTimer
      BY TimerPlaces
    <3>2. CASE u = t
      BY <1>1, <3>1, <3>2 DEF Restarted, TimerType
    <3>3. CASE u # t
      <4>1. z.active[u] /\ z.called[ListOf(u)] # u
        BY <1>1, <2>1, <3>3 DEF TimerInv, Active
      <4> QED BY <1>1, <3>1, <3>3, <4>1 DEF Restarted, TimerType
    <3> QED BY <3>2, <3>3
  <2>2. ASSUME NEW u \in AllTimers, y.active[u]
        PROVE  Listed(y, u) \/ u \in y.MUTED \/ (y.called[ListOf(u)] = u /\ y.periodic[u])
    <3>1. CASE u = t
      BY <1>1, <3>1
    <3>2. CASE u # t
      <4>1. z.active[u] /\ ListOf(u) \in TimerLists
        BY <1>1, <2>2, <3>2, TimerPlaces DEF Restarted, TimerType
      <4>2. Listed(z, u) \/ u \in z.MUTED \/ (z.called[ListOf(u)] = u /\ z.periodic[u])
        BY <4>1 DEF TimerInv, Active
      <4> QED BY <1>1, <3>2, <4>1, <4>2 DEF Restarted
    <3> QED BY <3>1, <3>2
  <2>3. ASSUME NEW l \in TimerLists, y.called[l] # NoTimer PROVE ListOf(y.called[l]) = l
    BY <1>1, <2>3 DEF TimerInv, Active
  <2> QED BY <2>1, <2>2, <2>3 DEF Active
<1>3. ASSUME NEW l \in TimerLists, y.called[l] # NoTimer
      PROVE  z.called[l] = y.called[l] /\ LeftIn(y, y.called[l]) = LeftIn(z, z.called[l])
  <2>1. z.called[l] = y.called[l] /\ y.called[l] \in AllTimers
    BY <1>1, <1>3 DEF TimerType
  <2>2. ListOf(z.called[l]) = l
    BY <1>3, <2>1 DEF TimerInv, Active
  <2>3. z.called[l] # t
    BY <1>1, <1>3, <2>2
  <2> QED BY <1>1, <2>1, <2>3
<1>4. LeftIn(y, t) \in Int /\ 1 <= LeftIn(y, t) /\ LeftIn(y, t) <= Longest
  BY <1>1, HalfFacts DEF Restarted, TimerType
<1>5. HardOnTime(y)
  <2>1. y.isr = z.isr
    BY <1>1 DEF Steady
  <2>2. ASSUME NEW u \in AllTimers, ListOf(u) = "hard", Listed(y, u)
        PROVE  0 <= LeftIn(y, u) /\ (y.isr = "none" => 0 < LeftIn(y, u))
    <3>1. CASE u = t
      BY <1>4, <3>1
    <3>2. CASE u # t
      BY <1>1, <2>1, <2>2, <3>2 DEF TimerInv, HardOnTime
    <3> QED BY <3>1, <3>2
  <2>3. y.called["hard"] # NoTimer => y.isr = "call" /\ LeftIn(y, y.called["hard"]) = 0
    BY <1>3, <2>1, TimerPlaces DEF TimerInv, HardOnTime
  <2> QED BY <2>2, <2>3 DEF HardOnTime
<1>6. Late(y) = Late(z) /\ y.pc = z.pc /\ y.lag = z.lag /\ y.next = z.next /\ y.tick = z.tick
  BY <1>1 DEF Late, Steady
<1>7. y.called["soft"] # NoTimer =>
        /\ y.pc = "call" /\ LeftIn(y, y.called["soft"]) <= 0
        /\ -Late(y) <= LeftIn(y, y.called["soft"])
  BY <1>3, <1>6, TimerPlaces DEF TimerInv, ThreadServes
<1>8. ASSUME NEW u \in SoftTimers, Listed(y, u) PROVE -Late(y) <= LeftIn(y, u)
  <2>1. CASE u = t
    BY <1>1, <1>4, <2>1, LateType
  <2>2. CASE u # t
    <3>1. Listed(z, u) /\ LeftIn(y, u) = LeftIn(z, u)
      BY <1>1, <1>8, <2>2, TimerPlaces
    <3> QED BY <1>6, <3>1 DEF TimerInv, ThreadServes
  <2> QED BY <2>1, <2>2
<1> QED BY <1>1, <1>2, <1>5, <1>7, <1>8

\* A timer of the user is started again, where the timer thread need not be woken.
LEMMA RestartedInv ==
  ASSUME NEW z, TimerInv(z), NEW t \in UserTimers, NEW y, Restarted(z, y, t),
         t \in HardTimers \/ z.pc = "call"
  PROVE  TimerInv(y)
<1>1. /\ t \in AllTimers /\ t # ThreadTimer /\ TimerType(z) /\ TimerType(y) /\ Ordered(y)
      /\ Steady(z, y)
      /\ \A u \in AllTimers : u # t => LeftIn(y, u) = LeftIn(z, u)
      /\ \A u \in AllTimers : Listed(y, u) <=> Listed(z, u) \/ u = t
      /\ \A l \in TimerLists : y.called[l] # NoTimer => y.called[l] = z.called[l]
      /\ \A l \in TimerLists : y.called[l] = z.called[l] \/ (l = ListOf(t) /\ z.called[l] = t)
      /\ \A l \in TimerLists : z.called[l] = t /\ l = ListOf(t) => y.called[l] = NoTimer
  <2>1. /\ t \in AllTimers /\ t # ThreadTimer /\ TimerType(z) /\ TimerType(y) /\ Ordered(y)
        /\ Steady(z, y) /\ \A u \in AllTimers : u # t => y.due[u] = z.due[u]
        /\ \A u \in AllTimers : Listed(y, u) <=> Listed(z, u) \/ u = t
    BY TimerPlaces DEF Restarted, TimerInv
  <2>2. \A u \in AllTimers : u # t => LeftIn(y, u) = LeftIn(z, u)
    BY <2>1 DEF Steady, LeftIn
  <2>3. \A l \in TimerLists :
          y.called[l] = IF l = ListOf(t) /\ z.called[l] = t THEN NoTimer ELSE z.called[l]
    BY DEF Restarted
  <2> QED BY <2>1, <2>2, <2>3
<1>2. /\ Active(y) /\ HardOnTime(y)
      /\ y.called["soft"] # NoTimer =>
           /\ y.pc = "call" /\ LeftIn(y, y.called["soft"]) <= 0
           /\ -Late(y) <= LeftIn(y, y.called["soft"])
      /\ \A u \in SoftTimers : Listed(y, u) => -Late(y) <= LeftIn(y, u)
  BY <1>1, RestartedLists
<1>3. Late(y) = Late(z) /\ y.pc = z.pc /\ y.lag = z.lag /\ y.next = z.next /\ y.tick = z.tick
  BY <1>1 DEF Late, Steady
<1>4. Listed(y, ThreadTimer) <=> y.pc = "sleeping"
  BY <1>1, <1>3, TimerPlaces DEF TimerInv, ThreadServes
<1>5. ThreadServes(y)
  <2>1. LeftIn(y, ThreadTimer) = LeftIn(z, ThreadTimer)
    BY <1>1, TimerPlaces
  <2>2. CASE z.pc = "call"
    BY <1>2, <1>3, <1>4, <2>2 DEF ThreadServes
  <2>3. CASE t \in HardTimers
    <3>1. ASSUME NEW u \in SoftTimers, Listed(y, u)
          PROVE  Listed(z, u) /\ LeftIn(y, u) = LeftIn(z, u)
      <4>1. u # t /\ u \in AllTimers
        BY <2>3, TimerPlaces, TimerAssumption
      <4> QED BY <1>1, <3>1, <4>1
    <3> QED BY <1>2, <1>3, <1>4, <2>1, <3>1 DEF TimerInv, ThreadServes
  <2> QED BY <2>2, <2>3
<1> QED BY <1>1, <1>2, <1>5 DEF TimerInv

\* The thread timer is stopped, nothing else changes.
Without(z, y) ==
  /\ TimerType(y) /\ Ordered(y) /\ Active(y) /\ HardOnTime(y) /\ Steady(z, y)
  /\ ~Listed(y, ThreadTimer) /\ y.called = z.called
  /\ y.init = z.init /\ y.periodic = z.periodic /\ y.MUTED = z.MUTED
  /\ \A u \in UserTimers : (Listed(y, u) <=> Listed(z, u)) /\ LeftIn(y, u) = LeftIn(z, u)

\* rt_timer_stop of the thread timer, while it is not being called.
LEMMA StopsThread ==
  ASSUME NEW z, TimerType(z), Ordered(z), Active(z), HardOnTime(z), z.isr # "call"
  PROVE  Without(z, rt_timer_stop(z, ThreadTimer))
<1>1. PICK y : y = rt_timer_stop(z, ThreadTimer)
  OBVIOUS
<1>2. /\ ThreadTimer \in AllTimers /\ ListOf(ThreadTimer) = "hard" /\ ThreadTimer \notin z.MUTED
      /\ UserTimers \subseteq AllTimers /\ ThreadTimer \notin UserTimers
  BY TimerPlaces DEF TimerType
<1>3. z.called["hard"] = NoTimer
  BY DEF HardOnTime
<1>4. CASE z.active[ThreadTimer]
  <2>1. Detached(z, y, ThreadTimer)
    BY <1>1, <1>2, <1>4, Detaches DEF rt_timer_stop
  <2>2. /\ TimerType(y) /\ Ordered(y) /\ Steady(z, y)
        /\ y.init = z.init /\ y.periodic = z.periodic
        /\ y.active = [z.active EXCEPT ![ThreadTimer] = FALSE] /\ y.MUTED = z.MUTED
        /\ \A u \in AllTimers : Listed(y, u) <=> Listed(z, u) /\ u # ThreadTimer
        /\ \A u \in AllTimers : u # ThreadTimer => y.due[u] = z.due[u]
    BY <1>2, <2>1 DEF Detached
  <2>3. y.called = z.called
    <3>1. \A l \in TimerLists : y.called[l] = z.called[l]
      BY <1>2, <1>3, <2>1, TimerPlaces DEF Detached
    <3>2. y.called \in [TimerLists -> AllTimers \cup {NoTimer}]
          /\ z.called \in [TimerLists -> AllTimers \cup {NoTimer}]
      BY <2>2 DEF TimerType
    <3> QED BY <3>1, <3>2
  <2>4. \A u \in AllTimers : u # ThreadTimer => LeftIn(y, u) = LeftIn(z, u)
    BY <2>2 DEF Steady, LeftIn
  <2>5. \A u \in AllTimers : u # ThreadTimer => y.active[u] = z.active[u]
    BY <2>2 DEF TimerType
  <2>6. ~y.active[ThreadTimer]
    BY <1>2, <2>2 DEF TimerType
  <2>7. Active(y)
    BY <2>2, <2>3, <2>5, <2>6 DEF Active
  <2>8. HardOnTime(y)
    BY <1>3, <2>2, <2>3, <2>4 DEF HardOnTime, Steady
  <2>9. \A u \in UserTimers : (Listed(y, u) <=> Listed(z, u)) /\ LeftIn(y, u) = LeftIn(z, u)
    BY <1>2, <2>2, <2>4
  <2> QED BY <1>1, <1>2, <2>2, <2>3, <2>7, <2>8, <2>9 DEF Without
<1>5. CASE ~z.active[ThreadTimer]
  <2>1. y = z
    BY <1>1, <1>5 DEF rt_timer_stop
  <2>2. ~Listed(z, ThreadTimer)
    BY <1>2, <1>5 DEF Active
  <2> QED BY <1>1, <2>1, <2>2 DEF Without, Steady
<1> QED BY <1>4, <1>5

\* The timer thread is woken, with its own timer stopped.
LEMMA WokenInv ==
  ASSUME NEW y, TimerType(y), Ordered(y), Active(y), HardOnTime(y), ~Listed(y, ThreadTimer),
         y.called["soft"] = NoTimer,
         \A u \in SoftTimers : Listed(y, u) => -MaxLag <= LeftIn(y, u)
  PROVE  TimerInv(ResumeThread(y))
<1>1. PICK x : x = ResumeThread(y)
  OBVIOUS
<1>2. /\ x.pc = "check" /\ x.lag = 0 /\ x.list = y.list /\ x.due = y.due /\ x.called = y.called
      /\ x.use = y.use /\ x.tick = y.tick /\ x.init = y.init /\ x.periodic = y.periodic
      /\ x.active = y.active /\ x.isr = y.isr /\ x.next = y.next /\ x.MUTED = y.MUTED
      /\ Fields(x)
  BY <1>1 DEF ResumeThread, TimerType, Fields
<1>3. TimerType(x)
  BY <1>2, HalfFacts DEF TimerType, Fields
<1>4. /\ Ordered(x) /\ \A u : Listed(x, u) <=> Listed(y, u)
      /\ \A u \in AllTimers : LeftIn(x, u) = LeftIn(y, u)
  BY <1>2, SameOrder
<1>5. Active(x)
  BY <1>2, <1>4 DEF Active
<1>6. HardOnTime(x)
  <2>1. x.called["hard"] # NoTimer => x.isr = "call" /\ LeftIn(x, x.called["hard"]) = 0
    <3>1. x.called["hard"] # NoTimer => x.called["hard"] \in AllTimers
      BY <1>3, TimerPlaces DEF TimerType
    <3> QED BY <1>2, <1>4, <3>1 DEF HardOnTime
  <2>2. \A u \in AllTimers : ListOf(u) = "hard" /\ Listed(x, u) =>
          0 <= LeftIn(x, u) /\ (x.isr = "none" => 0 < LeftIn(x, u))
    BY <1>2, <1>4 DEF HardOnTime
  <2> QED BY <2>1, <2>2 DEF HardOnTime
<1>7. ThreadServes(x)
  <2>1. Late(x) = MaxLag
    BY <1>2, HalfFacts DEF Late
  <2>2. ASSUME NEW u \in SoftTimers, Listed(x, u) PROVE -Late(x) <= LeftIn(x, u)
    BY <1>4, <2>1, <2>2, TimerPlaces
  <2> QED BY <1>2, <1>4, <2>2 DEF ThreadServes
<1> QED BY <1>1, <1>3, <1>4, <1>5, <1>6, <1>7 DEF TimerInv

\* A soft timer is started while the timer thread is suspended.
LEMMA ResumedInv ==
  ASSUME NEW z, TimerInv(z), NEW t \in SoftTimers, Suspended(z), z.isr = "none"
  PROVE  TimerInv(rt_timer_start(z, t))
<1>1. PICK x : x = InsertByDue(timer_remove(z, t), t)
  OBVIOUS
<1>2. t \in UserTimers /\ t \in AllTimers
  BY TimerPlaces DEF UserTimers
<1>3. Restarted(z, x, t)
  BY <1>1, <1>2, Restarts DEF TimerInv
<1>4. /\ TimerType(x) /\ Ordered(x) /\ Active(x) /\ HardOnTime(x) /\ Steady(z, x)
      /\ x.called["soft"] # NoTimer => x.pc = "call"
      /\ \A u \in SoftTimers : Listed(x, u) => -Late(x) <= LeftIn(x, u)
  BY <1>2, <1>3, RestartedLists DEF Restarted
<1>5. x.isr = "none" /\ x.pc \in {"asleep", "sleeping"} /\ x.called["soft"] = NoTimer
  BY <1>4 DEF Steady, Suspended
<1>6. PICK y : y = rt_timer_stop(x, ThreadTimer)
  OBVIOUS
<1>7. Without(x, y)
  BY <1>4, <1>5, <1>6, StopsThread
<1>8. ASSUME NEW u \in SoftTimers, Listed(y, u) PROVE -MaxLag <= LeftIn(y, u)
  <2>1. u \in UserTimers /\ u \in AllTimers
    BY TimerPlaces DEF UserTimers
  <2>2. Listed(x, u) /\ LeftIn(y, u) = LeftIn(x, u)
    BY <1>7, <1>8, <2>1 DEF Without
  <2>3. LeftIn(x, u) \in Int /\ Late(x) = x.lag /\ x.lag \in Nat /\ x.lag <= MaxLag
    BY <1>4, <1>5, <2>1, LeftType DEF Late, TimerType
  <2> QED BY <1>4, <2>2, <2>3, HalfFacts
<1>9. TimerInv(ResumeThread(y))
  BY <1>5, <1>7, <1>8, WokenInv DEF Without
<1> QED BY <1>1, <1>6, <1>9 DEF rt_timer_start

\* Where and when timers are is as before.
SameTimes(z, y) ==
  /\ y.list = z.list /\ y.called = z.called /\ y.due = z.due /\ y.active = z.active
  /\ Steady(z, y)

\* What the invariant says of lists and times depends on nothing else.
LEMMA SameTimesInv ==
  ASSUME NEW z, TimerInv(z), NEW y, SameTimes(z, y), TimerType(y), Active(y)
  PROVE  TimerInv(y)
<1>1. /\ y.list = z.list /\ y.called = z.called /\ y.due = z.due /\ y.active = z.active
      /\ y.tick = z.tick /\ y.isr = z.isr /\ y.pc = z.pc /\ y.next = z.next /\ y.lag = z.lag
  BY DEF SameTimes, Steady
<1>2. TimerType(z) /\ Ordered(z) /\ HardOnTime(z) /\ ThreadServes(z)
  BY DEF TimerInv
<1>3. Ordered(y) /\ \A u : Listed(y, u) <=> Listed(z, u)
  BY <1>1, <1>2, SameOrder
<1>4. \A u : LeftIn(y, u) = LeftIn(z, u)
  BY <1>1 DEF LeftIn
<1>5. HardOnTime(y)
  BY <1>1, <1>2, <1>3, <1>4 DEF HardOnTime
<1>6. Late(y) = Late(z)
  BY <1>1 DEF Late
<1>7. ThreadServes(y)
  BY <1>1, <1>2, <1>3, <1>4, <1>6 DEF ThreadServes
<1> QED BY <1>3, <1>5, <1>7 DEF TimerInv

\* rt_timer_control.
LEMMA ControlInv ==
  ASSUME NEW z, TimerInv(z), NEW t \in UserTimers, NEW y \in rt_timer_control(z, t)
  PROVE  TimerInv(y)
<1>1. TimerType(z) /\ Active(z) /\ t \in AllTimers /\ t # ThreadTimer
  BY TimerPlaces DEF TimerInv
<1>2. CASE \E n \in Times : y = [z EXCEPT !.init[t] = n]
  <2>1. PICK n \in Times : y = [z EXCEPT !.init[t] = n]
    BY <1>2
  <2>2. n \in 1 .. Longest
    BY HalfFacts
  <2>3. /\ y.list = z.list /\ y.due = z.due /\ y.called = z.called
        /\ y.init = [z.init EXCEPT ![t] = n] /\ y.periodic = z.periodic /\ y.active = z.active
        /\ y.MUTED = z.MUTED /\ Steady(z, y) /\ Fields(y)
    BY <1>1, <2>1 DEF TimerType, Steady, Fields
  <2>4. TimerType(y)
    BY <1>1, <2>2, <2>3 DEF TimerType, Steady, Fields
  <2>5. \A u : Listed(y, u) <=> Listed(z, u)
    BY <2>3 DEF Listed
  <2>6. Active(y)
    BY <1>1, <2>3, <2>5 DEF Active
  <2> QED BY <2>3, <2>4, <2>6, SameTimesInv DEF SameTimes
<1>3. CASE \E b \in BOOLEAN : y = SetPeriodic(z, t, b)
  <2>1. PICK b \in BOOLEAN : y = SetPeriodic(z, t, b)
    BY <1>3
  <2>2. PICK muted : muted = IF ~b /\ z.active[t] /\ z.called[ListOf(t)] = t THEN z.MUTED \cup {t}
                             ELSE IF z.called[ListOf(t)] = t THEN z.MUTED \ {t} ELSE z.MUTED
    OBVIOUS
  <2>3. /\ y.list = z.list /\ y.due = z.due /\ y.called = z.called
        /\ y.init = z.init /\ y.periodic = [z.periodic EXCEPT ![t] = b] /\ y.active = z.active
        /\ y.MUTED = muted /\ Steady(z, y) /\ Fields(y)
    BY <1>1, <2>1, <2>2 DEF TimerType, Steady, Fields, SetPeriodic
  <2>4. muted \in SUBSET UserTimers
    BY <1>1, <2>2 DEF TimerType
  <2>5. TimerType(y)
    BY <1>1, <2>3, <2>4 DEF TimerType, Steady, Fields
  <2>6. \A u : Listed(y, u) <=> Listed(z, u)
    BY <2>3 DEF Listed
  <2>7. ASSUME NEW u \in AllTimers, y.active[u]
        PROVE  Listed(y, u) \/ u \in y.MUTED \/ (y.called[ListOf(u)] = u /\ y.periodic[u])
    <3>1. Listed(z, u) \/ u \in z.MUTED \/ (z.called[ListOf(u)] = u /\ z.periodic[u])
      BY <1>1, <2>3, <2>7 DEF Active
    <3>2. CASE u # t
      BY <1>1, <2>2, <2>3, <2>6, <3>1, <3>2 DEF TimerType
    <3>3. CASE u = t
      <4>1. y.periodic[t] = b
        BY <1>1, <2>3 DEF TimerType
      <4> QED BY <2>1, <2>2, <2>3, <2>6, <2>7, <3>1, <3>3, <4>1
    <3> QED BY <3>2, <3>3
  <2>8. Active(y)
    BY <1>1, <2>3, <2>6, <2>7 DEF Active
  <2> QED BY <2>3, <2>5, <2>8, SameTimesInv DEF SameTimes
<1> QED BY <1>2, <1>3 DEF rt_timer_control

\* What services do: a soft timer is started only where the timer thread looks at its list
\* before it sleeps, or sleeps.
LEMMA ServicesInv ==
  ASSUME NEW z, TimerInv(z), NEW use, use \subseteq UserTimers, NEW startable,
         startable \cap SoftTimers = {} \/ z.pc = "call" \/ (Suspended(z) /\ z.isr = "none"),
         NEW y, \/ \E t \in startable \cap use : y = rt_timer_start(z, t)
                \/ \E t \in use : y \in {rt_timer_stop(z, t), rt_timer_detach(z, t)}
                \/ \E t \in use : y \in rt_timer_control(z, t)
  PROVE  TimerInv(y)
<1>1. TimerType(z) /\ Ordered(z)
  BY DEF TimerInv
<1>2. \A t \in use : t \in UserTimers /\ t \in AllTimers
  BY TimerPlaces
<1>3. ASSUME NEW t \in startable \cap use, y = rt_timer_start(z, t) PROVE TimerInv(y)
  <2>1. PICK x : x = InsertByDue(timer_remove(z, t), t)
    OBVIOUS
  <2>2. t \in UserTimers /\ t \in AllTimers
    BY <1>2
  <2>3. Restarted(z, x, t)
    BY <1>1, <2>1, <2>2, Restarts
  <2>4. CASE t \in SoftTimers /\ Suspended(z)
    <3>1. z.pc # "call"
      BY <2>4 DEF Suspended
    <3>2. z.isr = "none"
      BY <2>4, <3>1
    <3> QED BY <1>3, <2>4, <3>2, ResumedInv
  <2>5. CASE ~(t \in SoftTimers /\ Suspended(z))
    <3>1. y = x
      BY <1>3, <2>1, <2>5, Zenon DEF rt_timer_start
    <3>2. t \in HardTimers \/ z.pc = "call"
      BY <2>2, <2>5 DEF UserTimers
    <3> QED BY <2>2, <2>3, <3>1, <3>2, RestartedInv
  <2> QED BY <2>4, <2>5
<1>4. ASSUME NEW t \in use, y = rt_timer_detach(z, t) PROVE TimerInv(y)
  BY <1>1, <1>2, <1>4, Detaches, DetachedInv
<1>5. ASSUME NEW t \in use, y = rt_timer_stop(z, t) PROVE TimerInv(y)
  <2>1. CASE z.active[t]
    <3>1. Detached(z, y, t)
      BY <1>1, <1>2, <1>5, <2>1, Detaches DEF rt_timer_stop
    <3> QED BY <1>2, <3>1, DetachedInv
  <2>2. CASE ~z.active[t]
    BY <1>5, <2>2 DEF rt_timer_stop
  <2> QED BY <2>1, <2>2
<1>6. ASSUME NEW t \in use, y \in rt_timer_control(z, t) PROVE TimerInv(y)
  BY <1>2, <1>6, ControlInv
<1> QED BY <1>3, <1>4, <1>5, <1>6

\* A tick: every listed timer, the timer being called and the time read by the timer thread
\* are one tick nearer, and the timer thread is one tick later unless it is suspended.
LEMMA TickInv ==
  ASSUME TimerInv(w), TimerTick
  PROVE  TimerInv(w')
<1>1. PICK z, y : z = w /\ y = w'
  OBVIOUS
<1>2. /\ TimerType(z) /\ Ordered(z) /\ Active(z) /\ HardOnTime(z) /\ ThreadServes(z)
      /\ z.isr = "none" /\ (Suspended(z) \/ z.lag < MaxLag)
      /\ y = [z EXCEPT !.tick = (@ + 1) % TickMod, !.isr = "check",
                       !.lag = IF Suspended(z) THEN @ ELSE @ + 1]
  BY <1>1 DEF TimerInv, TimerTick
<1>3. /\ y.list = z.list /\ y.due = z.due /\ y.called = z.called /\ y.pc = z.pc
      /\ y.use = z.use /\ y.init = z.init /\ y.periodic = z.periodic /\ y.active = z.active
      /\ y.next = z.next /\ y.MUTED = z.MUTED /\ y.isr = "check"
      /\ y.tick = (z.tick + 1) % TickMod /\ y.lag = (IF Suspended(z) THEN z.lag ELSE z.lag + 1)
      /\ Fields(y)
  BY <1>2 DEF TimerType, Fields
<1>4. y.lag \in Nat /\ y.lag <= MaxLag /\ z.lag \in Nat /\ z.lag <= MaxLag
  BY <1>2, <1>3, HalfFacts DEF TimerType
<1>5. y.tick \in Ticks
  BY <1>2, <1>3, AfterTick DEF TimerType
<1>6. TimerType(y)
  BY <1>2, <1>3, <1>4, <1>5 DEF TimerType, Fields
<1>7. ASSUME NEW a \in Ticks, -(2 * MaxLag) <= After(a, z.tick)
      PROVE  After(a, y.tick) = After(a, z.tick) - 1
  <2>1. z.tick \in Ticks
    BY <1>2 DEF TimerType
  <2>2. After(a, z.tick) \in Int /\ After(a, z.tick) > -Half
    BY <1>7, <2>1, AfterIs, HalfFacts
  <2> QED BY <1>3, <2>1, <2>2, AfterTick
<1>8. \A u \in AllTimers : -(2 * MaxLag) <= LeftIn(z, u) => LeftIn(y, u) = LeftIn(z, u) - 1
  BY <1>2, <1>3, <1>7 DEF TimerType, LeftIn
<1>9. \A u \in AllTimers : LeftIn(z, u) \in Int
  BY <1>2, LeftType
<1>10. \A u : Listed(y, u) <=> Listed(z, u)
  BY <1>3 DEF Listed
<1>11. \A u \in AllTimers : Listed(z, u) => -(2 * MaxLag) <= LeftIn(z, u) /\ LeftIn(z, u) <= Longest
  BY <1>2, ListedIs, TimerPlaces DEF Ordered
<1>12. ASSUME NEW u \in AllTimers, Listed(z, u), ListOf(u) = "hard" PROVE 0 <= LeftIn(y, u)
  <2>1. 0 < LeftIn(z, u)
    BY <1>2, <1>12 DEF HardOnTime
  <2> QED BY <1>8, <1>9, <1>11, <1>12, <2>1
<1>13. Late(y) \in Nat /\ Late(y) <= 2 * MaxLag
  BY <1>6, LateType
<1>14. ~Suspended(z) => y.lag = z.lag + 1 /\ Late(y) = Late(z) + 1
  BY <1>3, <1>4, HalfFacts DEF Late, Suspended
<1>15. Suspended(z) => y.lag = z.lag /\ Late(y) = z.lag /\ Late(z) = z.lag
  BY <1>3 DEF Late, Suspended
<1>16. ASSUME NEW u \in SoftTimers, Listed(z, u)
       PROVE  u \in AllTimers /\ LeftIn(y, u) = LeftIn(z, u) - 1 /\ -Late(y) <= LeftIn(y, u)
  <2>1. u \in AllTimers /\ LeftIn(y, u) = LeftIn(z, u) - 1 /\ LeftIn(z, u) \in Int
    BY <1>8, <1>9, <1>11, <1>16, TimerPlaces
  <2>2. -Late(z) <= LeftIn(z, u) /\ z.pc # "asleep"
    BY <1>2, <1>16 DEF ThreadServes
  <2>3. Late(z) \in Nat
    BY <1>2, LateType
  <2>4. CASE ~Suspended(z)
    BY <1>14, <2>1, <2>2, <2>3, <2>4
  <2>5. CASE Suspended(z)
    <3>1. z.pc = "sleeping"
      BY <2>2, <2>5 DEF Suspended
    <3>2. ThreadTimer \in AllTimers /\ Listed(z, ThreadTimer) /\ ListOf(ThreadTimer) = "hard"
      BY <1>2, <3>1, TimerPlaces DEF ThreadServes
    <3>3. 0 < LeftIn(z, ThreadTimer) /\ LeftIn(z, ThreadTimer) \in Int
      BY <1>2, <1>9, <3>2 DEF HardOnTime
    <3>4. LeftIn(z, ThreadTimer) <= LeftIn(z, u) + z.lag
      BY <1>2, <1>16, <3>1 DEF ThreadServes
    <3> QED BY <1>4, <1>15, <2>1, <2>5, <3>3, <3>4
  <2> QED BY <2>1, <2>4, <2>5
<1>17. \A u \in AllTimers : Listed(z, u) =>
         /\ -(2 * MaxLag) <= LeftIn(y, u) /\ LeftIn(y, u) <= Longest
         /\ LeftIn(y, u) = LeftIn(z, u) - 1
  <2> SUFFICES ASSUME NEW u \in AllTimers, Listed(z, u)
               PROVE  /\ -(2 * MaxLag) <= LeftIn(y, u) /\ LeftIn(y, u) <= Longest
                      /\ LeftIn(y, u) = LeftIn(z, u) - 1
    OBVIOUS
  <2>1. LeftIn(y, u) = LeftIn(z, u) - 1 /\ LeftIn(z, u) \in Int /\ LeftIn(z, u) <= Longest
    BY <1>8, <1>9, <1>11
  <2>2. CASE ListOf(u) = "hard"
    BY <1>12, <2>1, <2>2, HalfFacts
  <2>3. CASE ListOf(u) = "soft"
    <3>1. u \in SoftTimers
      BY <2>3, TimerPlaces
    <3>2. -Late(y) <= LeftIn(y, u)
      BY <1>16, <3>1
    <3> QED BY <1>13, <2>1, <3>2, HalfFacts
  <2> QED BY <2>2, <2>3, TimerPlaces DEF TimerLists
<1>18. Ordered(y)
  <2> SUFFICES ASSUME NEW l \in TimerLists
               PROVE  /\ IsInjective(y.list[l])
                      /\ \A u \in Members(y.list[l]) :
                           ListOf(u) = l /\ -(2 * MaxLag) <= LeftIn(y, u) /\ LeftIn(y, u) <= Longest
                      /\ \A i, j \in 1 .. Len(y.list[l]) :
                           i < j => LeftIn(y, y.list[l][i]) <= LeftIn(y, y.list[l][j])
    BY DEF Ordered
  <2>1. PICK q \in Seq(AllTimers) : q = z.list[l] /\ q = y.list[l]
    BY <1>2, <1>3 DEF TimerType
  <2>2. \A u \in Members(q) : u \in AllTimers /\ ListOf(u) = l
    BY <1>2, <2>1, Indexed DEF Ordered
  <2>3. \A u \in Members(q) : Listed(z, u)
    BY <2>1, <2>2, ListedIs
  <2>4. \A i \in 1 .. Len(q) :
          q[i] \in AllTimers /\ LeftIn(y, q[i]) = LeftIn(z, q[i]) - 1 /\ LeftIn(z, q[i]) \in Int
    BY <1>9, <1>17, <2>2, <2>3, Indexed
  <2>5. IsInjective(q) /\ \A i, j \in 1 .. Len(q) : i < j => LeftIn(z, q[i]) <= LeftIn(z, q[j])
    BY <1>2, <2>1 DEF Ordered
  <2>6. \A i, j \in 1 .. Len(q) : i < j => LeftIn(y, q[i]) <= LeftIn(y, q[j])
    BY <2>4, <2>5
  <2> QED BY <1>17, <2>1, <2>2, <2>3, <2>5, <2>6
<1>19. Active(y)
  BY <1>2, <1>3, <1>10 DEF Active
<1>20. y.called["hard"] = NoTimer
  BY <1>2, <1>3 DEF HardOnTime
<1>21. HardOnTime(y)
  BY <1>3, <1>10, <1>12, <1>20 DEF HardOnTime
<1>22. ThreadServes(y)
  <2>1. y.called["soft"] # NoTimer =>
          /\ y.pc = "call" /\ LeftIn(y, y.called["soft"]) <= 0
          /\ -Late(y) <= LeftIn(y, y.called["soft"])
    <3> SUFFICES ASSUME y.called["soft"] # NoTimer
                 PROVE  /\ y.pc = "call" /\ LeftIn(y, y.called["soft"]) <= 0
                        /\ -Late(y) <= LeftIn(y, y.called["soft"])
      OBVIOUS
    <3>1. PICK u \in AllTimers : u = z.called["soft"] /\ u = y.called["soft"]
      BY <1>2, <1>3, TimerPlaces DEF TimerType
    <3>2. z.pc = "call" /\ LeftIn(z, u) <= 0 /\ -Late(z) <= LeftIn(z, u)
      BY <1>2, <1>3, <3>1 DEF ThreadServes
    <3>3. Late(z) \in Nat /\ Late(z) <= 2 * MaxLag /\ LeftIn(z, u) \in Int
      BY <1>2, <1>9, LateType
    <3>4. LeftIn(y, u) = LeftIn(z, u) - 1
      BY <1>8, <3>2, <3>3, HalfFacts
    <3>5. Late(y) = Late(z) + 1
      BY <1>14, <3>2 DEF Suspended
    <3> QED BY <1>3, <3>1, <3>2, <3>3, <3>4, <3>5
  <2>2. y.pc = "delta" =>
          /\ -z.lag <= After(z.next, z.tick) /\ After(y.next, y.tick) = After(z.next, z.tick) - 1
          /\ After(z.next, z.tick) \in Int /\ After(z.next, z.tick) <= Longest
          /\ y.lag = z.lag + 1
    <3> SUFFICES ASSUME y.pc = "delta"
                 PROVE  /\ -z.lag <= After(z.next, z.tick) 
                        /\ After(y.next, y.tick) = After(z.next, z.tick) - 1
                        /\ After(z.next, z.tick) \in Int /\ After(z.next, z.tick) <= Longest
                        /\ y.lag = z.lag + 1
      OBVIOUS
    <3>1. -z.lag <= After(z.next, z.tick) /\ After(z.next, z.tick) <= Longest
      BY <1>2, <1>3 DEF ThreadServes
    <3>2. z.next \in Ticks /\ z.tick \in Ticks /\ After(z.next, z.tick) \in Int
      BY <1>2, AfterIs DEF TimerType
    <3>3. -(2 * MaxLag) <= After(z.next, z.tick)
      BY <1>4, <3>1, <3>2, HalfFacts
    <3> QED BY <1>3, <1>7, <1>14, <3>1, <3>2, <3>3 DEF Suspended
  <2>3. y.pc = "delta" => -y.lag <= After(y.next, y.tick) /\ After(y.next, y.tick) <= Longest
    BY <1>4, <2>2, HalfFacts
  <2>4. ASSUME NEW u \in SoftTimers, Listed(y, u)
        PROVE  /\ -Late(y) <= LeftIn(y, u) /\ y.pc \notin {"suspend", "asleep"}
               /\ y.pc = "delta" => After(y.next, y.tick) <= LeftIn(y, u)
               /\ y.pc = "delay" => y.next <= LeftIn(y, u) + y.lag
               /\ y.pc = "sleeping" => LeftIn(y, ThreadTimer) <= LeftIn(y, u) + y.lag
    <3>1. u \in AllTimers /\ LeftIn(y, u) = LeftIn(z, u) - 1 /\ -Late(y) <= LeftIn(y, u)
          /\ LeftIn(z, u) \in Int /\ Listed(z, u)
      BY <1>9, <1>10, <1>16, <2>4
    <3>2. z.pc \notin {"suspend", "asleep"}
          /\ (z.pc = "delta" => After(z.next, z.tick) <= LeftIn(z, u))
          /\ (z.pc = "delay" => z.next <= LeftIn(z, u) + z.lag)
          /\ (z.pc = "sleeping" => LeftIn(z, ThreadTimer) <= LeftIn(z, u) + z.lag)
      BY <1>2, <3>1 DEF ThreadServes
    <3>3. y.pc = "delta" => After(y.next, y.tick) <= LeftIn(y, u)
      BY <1>3, <2>2, <3>1, <3>2
    <3>4. y.pc = "delay" => y.next <= LeftIn(y, u) + y.lag
      <4>1. z.pc = "delay" => y.lag = z.lag + 1
        BY <1>14 DEF Suspended
      <4> QED BY <1>3, <1>4, <3>1, <3>2, <4>1
    <3>5. y.pc = "sleeping" => LeftIn(y, ThreadTimer) <= LeftIn(y, u) + y.lag
      <4>1. z.pc = "sleeping" => y.lag = z.lag
        BY <1>15 DEF Suspended
      <4>2. z.pc = "sleeping" => Listed(z, ThreadTimer)
        BY <1>2 DEF ThreadServes
      <4>3. z.pc = "sleeping" => LeftIn(y, ThreadTimer) = LeftIn(z, ThreadTimer) - 1
                                 /\ LeftIn(z, ThreadTimer) \in Int
        BY <1>9, <1>17, <4>2, TimerPlaces
      <4> QED BY <1>3, <1>4, <3>1, <3>2, <4>1, <4>3
    <3> QED BY <1>3, <3>1, <3>2, <3>3, <3>4, <3>5
  <2>5. Listed(y, ThreadTimer) <=> y.pc = "sleeping"
    BY <1>2, <1>3, <1>10 DEF ThreadServes
  <2>6. y.pc = "delay" => 1 <= y.next /\ y.next <= Longest
    BY <1>2, <1>3 DEF ThreadServes
  <2> QED BY <2>1, <2>3, <2>4, <2>5, <2>6 DEF ThreadServes
<1> QED BY <1>1, <1>6, <1>18, <1>19, <1>21, <1>22 DEF TimerInv

\* Where the handler and the timer thread are changes, and no timer.
Moved(z, y) ==
  /\ y.list = z.list /\ y.called = z.called /\ y.due = z.due /\ y.active = z.active
  /\ y.init = z.init /\ y.periodic = z.periodic /\ y.MUTED = z.MUTED
  /\ y.use = z.use /\ y.tick = z.tick /\ y.lag = z.lag /\ Fields(y)
  /\ y.isr \in {"none", "check", "call"} /\ y.next \in Ticks

\* What does not depend on where they are.
LEMMA MovedLists ==
  ASSUME NEW z, TimerType(z), Ordered(z), Active(z), NEW y, Moved(z, y)
  PROVE  /\ TimerType(y) /\ Ordered(y) /\ Active(y)
         /\ \A u : (Listed(y, u) <=> Listed(z, u)) /\ LeftIn(y, u) = LeftIn(z, u)
<1>1. /\ y.list = z.list /\ y.called = z.called /\ y.due = z.due /\ y.active = z.active
      /\ y.init = z.init /\ y.periodic = z.periodic /\ y.MUTED = z.MUTED
      /\ y.use = z.use /\ y.tick = z.tick /\ y.lag = z.lag /\ Fields(y)
      /\ y.isr \in {"none", "check", "call"} /\ y.next \in Ticks
  BY DEF Moved
<1>2. TimerType(y)
  BY <1>1 DEF TimerType, Fields
<1>3. Ordered(y) /\ \A u : Listed(y, u) <=> Listed(z, u)
  BY <1>1, SameOrder
<1>4. \A u : LeftIn(y, u) = LeftIn(z, u)
  BY <1>1 DEF LeftIn
<1>5. Active(y)
  BY <1>1, <1>3 DEF Active
<1> QED BY <1>2, <1>3, <1>4, <1>5

\* No timer of a list is due whose first timer is not.
LEMMA NoneDue ==
  ASSUME TimerType(w), Ordered(w), NEW l \in TimerLists, ~FirstDue(l),
         NEW u \in AllTimers, ListOf(u) = l, Listed(w, u)
  PROVE  0 < LeftIn(w, u)
<1>1. w.list[l] # <<>>
  BY DEF Listed
<1>2. PICK t \in AllTimers :
        /\ t = Head(w.list[l]) /\ ListOf(t) = l /\ Listed(w, t)
        /\ \A v \in AllTimers : ListOf(v) = l /\ Listed(w, v) => LeftIn(w, t) <= LeftIn(w, v)
  BY <1>1, Begins
<1>3. PICK a \in Ticks, b \in Ticks : a = w.due[t] /\ b = w.tick
  BY DEF TimerType
<1>4. ~Reached(b, a)
  BY <1>1, <1>2, <1>3 DEF FirstDue
<1>5. After(a, b) = LeftIn(w, t) /\ After(a, b) \in Int
  BY <1>3, AfterIs DEF LeftIn
<1>6. -(2 * MaxLag) <= LeftIn(w, t)
  BY <1>2, ListedIs DEF Ordered
<1>7. 0 < LeftIn(w, t)
  BY <1>4, <1>5, <1>6, AfterCompared, HalfFacts
<1> QED BY <1>2, <1>5, <1>7, LeftType

\* A first timer that is due.
LEMMA FirstIsDue ==
  ASSUME TimerType(w), Ordered(w), NEW l \in TimerLists, FirstDue(l)
  PROVE  \E t \in AllTimers :
           /\ Begun(w, BeginCall(w, l), l, t) /\ ListOf(t) = l /\ Listed(w, t)
           /\ LeftIn(w, t) <= 0
<1>1. w.list[l] # <<>>
  BY DEF FirstDue
<1>2. PICK t \in AllTimers :
        /\ Begun(w, BeginCall(w, l), l, t) /\ t = Head(w.list[l]) /\ ListOf(t) = l /\ Listed(w, t)
  BY <1>1, Begins
<1>3. PICK a \in Ticks, b \in Ticks : a = w.due[t] /\ b = w.tick
  BY DEF TimerType
<1>4. Reached(b, a)
  BY <1>2, <1>3 DEF FirstDue
<1>5. After(a, b) = LeftIn(w, t) /\ After(a, b) \in Int
  BY <1>3, AfterIs DEF LeftIn
<1>6. -(2 * MaxLag) <= LeftIn(w, t)
  BY <1>2, ListedIs DEF Ordered
<1>7. LeftIn(w, t) <= 0
  BY <1>4, <1>5, <1>6, AfterCompared, HalfFacts
<1> QED BY <1>2, <1>7

\* While a timer is being called it is active only if it is periodic.
LEMMA BegunActive ==
  ASSUME NEW z, TimerType(z), Active(z), NEW l \in TimerLists, z.called[l] = NoTimer,
         NEW t \in AllTimers, ListOf(t) = l, NEW y, Begun(z, y, l, t)
  PROVE  Active(y)
<1>1. /\ y.periodic = z.periodic /\ y.MUTED = z.MUTED
      /\ y.active = [z.active EXCEPT ![t] = z.periodic[t]]
      /\ \A u \in AllTimers : Listed(y, u) <=> Listed(z, u) /\ u # t
      /\ y.called = [z.called EXCEPT ![l] = t]
  BY DEF Begun
<1>2. \A k \in TimerLists : y.called[k] = IF k = l THEN t ELSE z.called[k]
  BY <1>1 DEF TimerType
<1>3. \A u \in AllTimers : y.active[u] = IF u = t THEN z.periodic[t] ELSE z.active[u]
  BY <1>1 DEF TimerType
<1>4. ASSUME NEW u \in AllTimers, Listed(y, u) PROVE y.active[u] /\ y.called[ListOf(u)] # u
  <2>1. Listed(z, u) /\ u # t /\ ListOf(u) \in TimerLists
    BY <1>1, <1>4, TimerPlaces
  <2>2. z.active[u] /\ z.called[ListOf(u)] # u
    BY <2>1 DEF Active
  <2> QED BY <1>2, <1>3, <2>1, <2>2
<1>5. ASSUME NEW u \in AllTimers, y.active[u]
      PROVE  Listed(y, u) \/ u \in y.MUTED \/ (y.called[ListOf(u)] = u /\ y.periodic[u])
  <2>1. CASE u = t
    BY <1>1, <1>2, <1>3, <1>5, <2>1
  <2>2. CASE u # t
    <3>1. Listed(z, u) \/ u \in z.MUTED \/ (z.called[ListOf(u)] = u /\ z.periodic[u])
      BY <1>3, <1>5, <2>2 DEF Active
    <3>2. ListOf(u) \in TimerLists /\ u # NoTimer
      BY TimerPlaces
    <3> QED BY <1>1, <1>2, <2>2, <3>1, <3>2
  <2> QED BY <2>1, <2>2
<1>6. ASSUME NEW k \in TimerLists, y.called[k] # NoTimer PROVE ListOf(y.called[k]) = k
  BY <1>2, <1>6 DEF Active
<1> QED BY <1>4, <1>5, <1>6 DEF Active

\* The handler calls a timer, which is due now.  The function of the thread timer wakes the
\* timer thread.
LEMMA HardCallInv ==
  ASSUME TimerInv(w), HardCall
  PROVE  TimerInv(w')
<1>1. /\ TimerType(w) /\ Ordered(w) /\ Active(w) /\ HardOnTime(w) /\ ThreadServes(w)
      /\ w.isr = "check" /\ FirstDue("hard") /\ "hard" \in TimerLists
  BY TimerPlaces DEF TimerInv, HardCall
<1>2. PICK t \in AllTimers :
        /\ Begun(w, BeginCall(w, "hard"), "hard", t) /\ ListOf(t) = "hard" /\ Listed(w, t)
        /\ LeftIn(w, t) <= 0
  BY <1>1, FirstIsDue
<1>3. PICK x : x = BeginCall(w, "hard")
  OBVIOUS
<1>4. /\ TimerType(x) /\ Ordered(x) /\ Steady(w, x) /\ x.due = w.due
      /\ \A u \in AllTimers : Listed(x, u) <=> Listed(w, u) /\ u # t
      /\ x.called = [w.called EXCEPT !["hard"] = t]
  BY <1>2, <1>3 DEF Begun
<1>5. LeftIn(w, t) = 0 /\ w.called["hard"] = NoTimer
  <2>1. 0 <= LeftIn(w, t)
    BY <1>1, <1>2 DEF HardOnTime
  <2> QED BY <1>1, <1>2, <2>1, LeftType DEF HardOnTime
<1>6. Active(x)
  BY <1>1, <1>2, <1>3, <1>5, BegunActive
<1>7. PICK z : z = [x EXCEPT !.isr = "call"]
  OBVIOUS
<1>8. Moved(x, z) /\ z.isr = "call" /\ z.pc = x.pc /\ z.next = x.next
  BY <1>4, <1>7 DEF Moved, TimerType, Fields
<1>9. /\ TimerType(z) /\ Ordered(z) /\ Active(z)
      /\ \A u : (Listed(z, u) <=> Listed(x, u)) /\ LeftIn(z, u) = LeftIn(x, u)
  BY <1>4, <1>6, <1>8, MovedLists
<1>10. /\ \A u \in AllTimers : Listed(z, u) <=> Listed(w, u) /\ u # t
       /\ \A u : LeftIn(z, u) = LeftIn(w, u)
  BY <1>4, <1>9 DEF LeftIn, Steady
<1>11. z.called["hard"] = t /\ z.called["soft"] = w.called["soft"]
  BY <1>1, <1>4, <1>8, TimerPlaces DEF Moved, TimerType
<1>12. HardOnTime(z)
  <2>1. ASSUME NEW u \in AllTimers, ListOf(u) = "hard", Listed(z, u) PROVE 0 <= LeftIn(z, u)
    BY <1>1, <1>10, <2>1 DEF HardOnTime
  <2> QED BY <1>5, <1>8, <1>10, <1>11, <2>1 DEF HardOnTime
<1>13. z.pc = w.pc /\ z.lag = w.lag /\ z.next = w.next /\ z.tick = w.tick /\ Late(z) = Late(w)
  BY <1>4, <1>8 DEF Steady, Moved, Late
<1>14. CASE t = ThreadTimer
  <2>1. w.pc = "sleeping" /\ w.called["soft"] = NoTimer
    BY <1>1, <1>2, <1>14 DEF ThreadServes
  <2>2. ~Listed(z, ThreadTimer)
    BY <1>10, <1>14, TimerPlaces
  <2>3. ASSUME NEW u \in SoftTimers, Listed(z, u) PROVE -MaxLag <= LeftIn(z, u)
    <3>1. u \in AllTimers /\ Listed(w, u) /\ LeftIn(z, u) = LeftIn(w, u)
      BY <1>10, <2>3, TimerPlaces
    <3>2. -Late(w) <= LeftIn(w, u)
      BY <1>1, <3>1 DEF ThreadServes
    <3>3. Late(w) = w.lag /\ w.lag \in Nat /\ w.lag <= MaxLag /\ LeftIn(w, u) \in Int
      BY <1>1, <2>1, <3>1, LeftType DEF Late, TimerType
    <3> QED BY <3>1, <3>2, <3>3, HalfFacts
  <2>4. TimerInv(ResumeThread(z))
    BY <1>9, <1>11, <1>12, <2>1, <2>2, <2>3, WokenInv
  <2>5. w' = ResumeThread(z)
    BY <1>3, <1>7, <1>11, <1>14 DEF HardCall
  <2> QED BY <2>4, <2>5
<1>15. CASE t # ThreadTimer
  <2>1. \A u \in SoftTimers : u \in AllTimers /\ u # t
    BY <1>2, TimerPlaces
  <2>2. \A u \in SoftTimers : Listed(z, u) <=> Listed(w, u)
    BY <1>10, <2>1
  <2>3. Listed(z, ThreadTimer) <=> z.pc = "sleeping"
    BY <1>1, <1>10, <1>13, <1>15, TimerPlaces DEF ThreadServes
  <2>4. ThreadServes(z)
    BY <1>1, <1>10, <1>11, <1>13, <2>2, <2>3 DEF ThreadServes
  <2>5. w' = z
    BY <1>3, <1>7, <1>11, <1>15 DEF HardCall
  <2> QED BY <1>9, <1>12, <2>4, <2>5 DEF TimerInv
<1> QED BY <1>14, <1>15

\* The timer thread calls a timer, which is not early.
LEMMA SoftCallInv ==
  ASSUME TimerInv(w), SoftCall
  PROVE  TimerInv(w')
<1>1. /\ TimerType(w) /\ Ordered(w) /\ Active(w) /\ HardOnTime(w) /\ ThreadServes(w)
      /\ w.isr = "none" /\ w.pc = "check" /\ FirstDue("soft") /\ "soft" \in TimerLists
  BY TimerPlaces DEF TimerInv, SoftCall, At
<1>2. PICK t \in AllTimers :
        /\ Begun(w, BeginCall(w, "soft"), "soft", t) /\ ListOf(t) = "soft" /\ Listed(w, t)
        /\ LeftIn(w, t) <= 0
  BY <1>1, FirstIsDue
<1>3. PICK x : x = BeginCall(w, "soft")
  OBVIOUS
<1>4. /\ TimerType(x) /\ Ordered(x) /\ Steady(w, x) /\ x.due = w.due
      /\ \A u \in AllTimers : Listed(x, u) <=> Listed(w, u) /\ u # t
      /\ x.called = [w.called EXCEPT !["soft"] = t]
  BY <1>2, <1>3 DEF Begun
<1>5. w.called["soft"] = NoTimer /\ w.called["hard"] = NoTimer
  BY <1>1 DEF ThreadServes, HardOnTime
<1>6. Active(x)
  BY <1>1, <1>2, <1>3, <1>5, BegunActive
<1>7. PICK z : z = [x EXCEPT !.pc = "call"]
  OBVIOUS
<1>8. Moved(x, z) /\ z.isr = x.isr /\ z.pc = "call" /\ z.next = x.next
  BY <1>4, <1>7 DEF Moved, TimerType, Fields
<1>9. /\ TimerType(z) /\ Ordered(z) /\ Active(z)
      /\ \A u : (Listed(z, u) <=> Listed(x, u)) /\ LeftIn(z, u) = LeftIn(x, u)
  BY <1>4, <1>6, <1>8, MovedLists
<1>10. /\ \A u \in AllTimers : Listed(z, u) <=> Listed(w, u) /\ u # t
       /\ \A u : LeftIn(z, u) = LeftIn(w, u)
  BY <1>4, <1>9 DEF LeftIn, Steady
<1>11. z.called["soft"] = t /\ z.called["hard"] = NoTimer
  BY <1>1, <1>4, <1>5, <1>8, TimerPlaces DEF Moved, TimerType
<1>12. HardOnTime(z)
  <2>1. z.isr = "none"
    BY <1>1, <1>4, <1>8 DEF Steady
  <2>2. ASSUME NEW u \in AllTimers, ListOf(u) = "hard", Listed(z, u)
        PROVE  0 <= LeftIn(z, u) /\ 0 < LeftIn(z, u)
    BY <1>1, <1>10, <2>2 DEF HardOnTime
  <2> QED BY <1>11, <2>1, <2>2 DEF HardOnTime
<1>13. z.lag = w.lag /\ z.next = w.next /\ z.tick = w.tick /\ Late(z) = Late(w)
  BY <1>1, <1>4, <1>8 DEF Steady, Moved, Late
<1>14. t \in SoftTimers /\ -Late(w) <= LeftIn(w, t)
  BY <1>1, <1>2, TimerPlaces DEF ThreadServes
<1>15. ASSUME NEW u \in SoftTimers, Listed(z, u) PROVE -Late(z) <= LeftIn(z, u)
  <2>1. Listed(w, u)
    BY <1>10, <1>15, TimerPlaces
  <2> QED BY <1>1, <1>10, <1>13, <2>1 DEF ThreadServes
<1>16. ~Listed(z, ThreadTimer)
  BY <1>1, <1>10, TimerPlaces DEF ThreadServes
<1>17. ThreadServes(z)
  BY <1>2, <1>8, <1>10, <1>11, <1>13, <1>14, <1>15, <1>16 DEF ThreadServes
<1>18. w' = z
  BY <1>3, <1>7 DEF SoftCall
<1> QED BY <1>9, <1>12, <1>17, <1>18 DEF TimerInv

\* The timer being called is put away: it is not to be called again, or is in MUTED.
LEMMA PutAwayInv ==
  ASSUME NEW z, TimerInv(z), NEW l \in TimerLists, NEW t \in AllTimers, z.called[l] = t,
         ~(z.periodic[t] /\ z.active[t]), NEW y, Unlisted(z, y, t)
  PROVE  TimerInv(y) /\ y.called[l] = NoTimer
<1>1. /\ TimerType(z) /\ Ordered(z) /\ Active(z) /\ HardOnTime(z) /\ ThreadServes(z)
      /\ TimerType(y) /\ Ordered(y) /\ Steady(z, y) /\ t # NoTimer
      /\ y.init = z.init /\ y.periodic = z.periodic /\ y.active = z.active /\ y.MUTED = z.MUTED
      /\ \A u \in AllTimers : Listed(y, u) <=> Listed(z, u) /\ u # t
      /\ \A u \in AllTimers : u # t => y.due[u] = z.due[u]
  BY TimerPlaces DEF Unlisted, TimerInv
<1>2. ListOf(t) = l /\ ~Listed(z, t)
  <2>1. ListOf(t) = l
    BY <1>1 DEF Active
  <2> QED BY <1>1, <2>1 DEF Active
<1>3. \A k \in TimerLists : y.called[k] = IF k = l THEN NoTimer ELSE z.called[k]
  BY <1>2 DEF Unlisted
<1>4. \A u \in AllTimers : Listed(y, u) <=> Listed(z, u)
  BY <1>1, <1>2
<1>5. \A u \in AllTimers : u # t => LeftIn(y, u) = LeftIn(z, u)
  BY <1>1 DEF Steady, LeftIn
<1>6. Active(y)
  <2>1. ASSUME NEW u \in AllTimers, Listed(y, u) PROVE y.active[u] /\ y.called[ListOf(u)] # u
    <3>1. z.active[u] /\ z.called[ListOf(u)] # u /\ ListOf(u) \in TimerLists /\ u # NoTimer
      BY <1>1, <1>4, <2>1, TimerPlaces DEF Active
    <3> QED BY <1>1, <1>3, <3>1
  <2>2. ASSUME NEW u \in AllTimers, y.active[u]
        PROVE  Listed(y, u) \/ u \in y.MUTED \/ (y.called[ListOf(u)] = u /\ y.periodic[u])
    <3>1. Listed(z, u) \/ u \in z.MUTED \/ (z.called[ListOf(u)] = u /\ z.periodic[u])
      BY <1>1, <2>2 DEF Active
    <3>2. ListOf(u) \in TimerLists /\ (u = t \/ ListOf(u) # l \/ z.called[ListOf(u)] # u)
      BY TimerPlaces
    <3> QED BY <1>1, <1>3, <1>4, <2>2, <3>1, <3>2
  <2>3. ASSUME NEW k \in TimerLists, y.called[k] # NoTimer PROVE ListOf(y.called[k]) = k
    BY <1>1, <1>3, <2>3 DEF Active
  <2> QED BY <2>1, <2>2, <2>3 DEF Active
<1>7. ASSUME NEW k \in TimerLists, y.called[k] # NoTimer
      PROVE  y.called[k] = z.called[k] /\ LeftIn(y, y.called[k]) = LeftIn(z, z.called[k])
  <2>1. k # l /\ y.called[k] = z.called[k] /\ z.called[k] \in AllTimers
    BY <1>1, <1>3, <1>7 DEF TimerType
  <2>2. ListOf(z.called[k]) = k
    BY <1>1, <1>7, <2>1 DEF Active
  <2> QED BY <1>2, <1>5, <2>1, <2>2
<1>8. y.isr = z.isr /\ y.pc = z.pc /\ y.lag = z.lag /\ y.next = z.next /\ y.tick = z.tick
      /\ Late(y) = Late(z)
  BY <1>1 DEF Steady, Late
<1>9. HardOnTime(y)
  <2>1. ASSUME NEW u \in AllTimers, ListOf(u) = "hard", Listed(y, u)
        PROVE  0 <= LeftIn(y, u) /\ (y.isr = "none" => 0 < LeftIn(y, u))
    <3>1. Listed(z, u) /\ u # t
      BY <1>1, <2>1
    <3> QED BY <1>1, <1>5, <1>8, <2>1, <3>1 DEF HardOnTime
  <2> QED BY <1>1, <1>7, <1>8, <2>1, TimerPlaces DEF HardOnTime
<1>10. ThreadServes(y)
  <2>1. Listed(y, ThreadTimer) <=> y.pc = "sleeping"
    BY <1>1, <1>4, <1>8, TimerPlaces DEF ThreadServes
  <2>2. y.called["soft"] # NoTimer =>
          /\ y.pc = "call" /\ LeftIn(y, y.called["soft"]) <= 0
          /\ -Late(y) <= LeftIn(y, y.called["soft"])
    BY <1>1, <1>7, <1>8, TimerPlaces DEF ThreadServes
  <2>3. ASSUME NEW u \in SoftTimers, Listed(y, u)
        PROVE  Listed(z, u) /\ LeftIn(y, u) = LeftIn(z, u)
    BY <1>1, <1>5, <2>3, TimerPlaces
  <2>4. y.pc = "sleeping" => LeftIn(y, ThreadTimer) = LeftIn(z, ThreadTimer)
    BY <1>1, <1>5, <2>1, TimerPlaces
  <2> QED BY <1>1, <1>8, <2>1, <2>2, <2>3, <2>4 DEF ThreadServes
<1> QED BY <1>1, <1>3, <1>6, <1>9, <1>10 DEF TimerInv

\* The end of a call: a periodic timer that is still active is started again.
LEMMA EndCallInv ==
  ASSUME NEW z, TimerInv(z), NEW l \in TimerLists, l = "hard" \/ z.pc = "call"
  PROVE  /\ TimerInv(EndCall(z, l)) /\ EndCall(z, l).called[l] = NoTimer
         /\ Steady(z, EndCall(z, l))
<1>1. TimerType(z) /\ Ordered(z) /\ Active(z)
  BY DEF TimerInv
<1>2. CASE z.called[l] = NoTimer
  <2>1. EndCall(z, l) = z
    BY <1>2, Zenon DEF EndCall
  <2> QED BY <1>2, <2>1 DEF Steady
<1>3. CASE z.called[l] # NoTimer
  <2>1. PICK t \in AllTimers : t = z.called[l] /\ ListOf(t) = l
    BY <1>1, <1>3 DEF TimerType, Active
  <2>2. PICK x : x = timer_remove(z, t)
    OBVIOUS
  <2>3. Unlisted(z, x, t)
    BY <1>1, <2>2, RemoveUnlists
  <2>4. x.called[l] = NoTimer /\ Steady(z, x) /\ TimerType(x) /\ Ordered(x)
    BY <2>1, <2>3 DEF Unlisted
  <2>5. CASE z.periodic[t] /\ z.active[t]
    <3>1. PICK y : y = InsertByDue(timer_remove(x, t), t)
      OBVIOUS
    <3>2. Restarted(x, y, t)
      BY <2>4, <3>1, Restarts
    <3>3. Restarted(z, y, t)
      <4>1. \A k \in TimerLists :
              y.called[k] = IF k = ListOf(t) /\ z.called[k] = t THEN NoTimer ELSE z.called[k]
        <5>1. \A k \in TimerLists :
                x.called[k] = IF k = ListOf(t) /\ z.called[k] = t THEN NoTimer ELSE z.called[k]
          BY <2>3 DEF Unlisted
        <5>2. \A k \in TimerLists :
                y.called[k] = IF k = ListOf(t) /\ x.called[k] = t THEN NoTimer ELSE x.called[k]
          BY <3>2 DEF Restarted
        <5> QED BY <5>1, <5>2
      <4>2. \A u \in AllTimers : Listed(y, u) <=> Listed(z, u) \/ u = t
        BY <2>3, <3>2 DEF Unlisted, Restarted
      <4>3. \A u \in AllTimers : u # t => y.due[u] = z.due[u]
        BY <2>3, <3>2 DEF Unlisted, Restarted
      <4>4. /\ TimerType(y) /\ Ordered(y) /\ Steady(z, y)
            /\ y.init = z.init /\ y.periodic = z.periodic
            /\ y.active = [z.active EXCEPT ![t] = TRUE] /\ y.MUTED = z.MUTED \ {t}
            /\ LeftIn(y, t) = z.init[t]
        BY <2>3, <3>2 DEF Unlisted, Restarted, Steady
      <4> QED BY <4>1, <4>2, <4>3, <4>4 DEF Restarted
    <3>4. t \in UserTimers /\ (t \in HardTimers \/ z.pc = "call")
      <4>1. t # ThreadTimer
        BY <1>1, <2>5 DEF TimerType
      <4>2. t \in UserTimers
        BY <4>1 DEF AllTimers
      <4> QED BY <2>1, <4>1, <4>2, TimerPlaces DEF UserTimers
    <3>5. TimerInv(y)
      BY <3>3, <3>4, RestartedInv
    <3>6. y.called[l] = NoTimer /\ Steady(z, y)
      BY <2>1, <3>3 DEF Restarted
    <3>7. rt_timer_start(x, t) = y
      <4>1. ~(t \in SoftTimers /\ Suspended(x))
        <5>1. t \in SoftTimers => z.pc = "call" /\ x.pc = z.pc
          BY <2>1, <2>4, TimerPlaces DEF Steady
        <5> QED BY <5>1 DEF Suspended
      <4> QED BY <3>1, <4>1, Zenon DEF rt_timer_start
    <3>8. EndCall(z, l) = y
      BY <1>3, <2>1, <2>2, <2>5, <3>7, Zenon DEF EndCall
    <3> QED BY <3>5, <3>6, <3>8
  <2>6. CASE ~(z.periodic[t] /\ z.active[t])
    <3>1. EndCall(z, l) = x
      BY <1>3, <2>1, <2>2, <2>6, Zenon DEF EndCall
    <3>2. TimerInv(x)
      BY <2>1, <2>3, <2>6, PutAwayInv
    <3> QED BY <2>4, <3>1, <3>2
  <2> QED BY <2>5, <2>6
<1> QED BY <1>2, <1>3

\* The handler goes on after a call.
LEMMA HardReturnInv ==
  ASSUME TimerInv(w), HardReturn
  PROVE  TimerInv(w')
<1>1. PICK x : x = EndCall(w, "hard")
  OBVIOUS
<1>2. TimerInv(x) /\ x.called["hard"] = NoTimer /\ Steady(w, x) /\ w.isr = "call"
  BY <1>1, EndCallInv, TimerPlaces DEF HardReturn
<1>3. /\ TimerType(x) /\ Ordered(x) /\ Active(x) /\ HardOnTime(x) /\ ThreadServes(x)
      /\ x.isr = "call"
  BY <1>2 DEF TimerInv, Steady
<1>4. PICK y : y = [x EXCEPT !.isr = "check"]
  OBVIOUS
<1>5. Moved(x, y) /\ y.isr = "check" /\ y.pc = x.pc /\ y.next = x.next
  BY <1>3, <1>4 DEF Moved, TimerType, Fields
<1>6. /\ TimerType(y) /\ Ordered(y) /\ Active(y)
      /\ \A u : (Listed(y, u) <=> Listed(x, u)) /\ LeftIn(y, u) = LeftIn(x, u)
  BY <1>3, <1>5, MovedLists
<1>7. y.called = x.called /\ y.lag = x.lag /\ y.tick = x.tick /\ Late(y) = Late(x)
  BY <1>5 DEF Moved, Late
<1>8. HardOnTime(y)
  BY <1>2, <1>3, <1>5, <1>6, <1>7 DEF HardOnTime
<1>9. ThreadServes(y)
  BY <1>3, <1>5, <1>6, <1>7 DEF ThreadServes
<1>10. w' = y
  BY <1>1, <1>4 DEF HardReturn
<1> QED BY <1>6, <1>8, <1>9, <1>10 DEF TimerInv

\* The timer thread goes on after a call.
LEMMA SoftReturnInv ==
  ASSUME TimerInv(w), SoftReturn
  PROVE  TimerInv(w')
<1>1. PICK x : x = EndCall(w, "soft")
  OBVIOUS
<1>2. /\ TimerInv(x) /\ x.called["soft"] = NoTimer /\ Steady(w, x) /\ w.pc = "call"
      /\ w.isr = "none"
  BY <1>1, EndCallInv, TimerPlaces DEF SoftReturn, At
<1>3. /\ TimerType(x) /\ Ordered(x) /\ Active(x) /\ HardOnTime(x) /\ ThreadServes(x)
      /\ x.isr = "none" /\ x.pc = "call"
  BY <1>2 DEF TimerInv, Steady
<1>4. PICK y : y = [x EXCEPT !.pc = "check"]
  OBVIOUS
<1>5. Moved(x, y) /\ y.isr = x.isr /\ y.pc = "check" /\ y.next = x.next
  BY <1>3, <1>4 DEF Moved, TimerType, Fields
<1>6. /\ TimerType(y) /\ Ordered(y) /\ Active(y)
      /\ \A u : (Listed(y, u) <=> Listed(x, u)) /\ LeftIn(y, u) = LeftIn(x, u)
  BY <1>3, <1>5, MovedLists
<1>7. y.called = x.called /\ y.lag = x.lag /\ y.tick = x.tick /\ Late(y) = Late(x)
  BY <1>3, <1>5 DEF Moved, Late
<1>8. HardOnTime(y)
  BY <1>3, <1>5, <1>6, <1>7 DEF HardOnTime
<1>9. ThreadServes(y)
  BY <1>2, <1>3, <1>5, <1>6, <1>7 DEF ThreadServes
<1>10. w' = y
  BY <1>1, <1>4 DEF SoftReturn
<1> QED BY <1>6, <1>8, <1>9, <1>10 DEF TimerInv

\* The handler is left when no hard timer is due.
LEMMA LeaveInv ==
  ASSUME TimerInv(w), LeaveHandler
  PROVE  TimerInv(w')
<1>1. /\ TimerType(w) /\ Ordered(w) /\ Active(w) /\ HardOnTime(w) /\ ThreadServes(w)
      /\ w.isr = "check" /\ ~FirstDue("hard") /\ "hard" \in TimerLists
  BY TimerPlaces DEF TimerInv, LeaveHandler
<1>2. PICK y : y = w'
  OBVIOUS
<1>3. Moved(w, y) /\ y.isr = "none" /\ y.pc = w.pc /\ y.next = w.next
  BY <1>1, <1>2 DEF LeaveHandler, Moved, TimerType, Fields
<1>4. /\ TimerType(y) /\ Ordered(y) /\ Active(y)
      /\ \A u : (Listed(y, u) <=> Listed(w, u)) /\ LeftIn(y, u) = LeftIn(w, u)
  BY <1>1, <1>3, MovedLists
<1>5. y.called = w.called /\ y.lag = w.lag /\ y.tick = w.tick /\ Late(y) = Late(w)
  BY <1>3 DEF Moved, Late
<1>6. HardOnTime(y)
  <2>1. ASSUME NEW u \in AllTimers, ListOf(u) = "hard", Listed(y, u)
        PROVE  0 <= LeftIn(y, u) /\ 0 < LeftIn(y, u)
    BY <1>1, <1>4, <2>1, NoneDue DEF HardOnTime
  <2> QED BY <1>1, <1>5, <2>1 DEF HardOnTime
<1>7. ThreadServes(y)
  BY <1>1, <1>3, <1>4, <1>5 DEF ThreadServes
<1> QED BY <1>2, <1>4, <1>6, <1>7 DEF TimerInv

\* The timer thread goes to another place, with isr and lag as before.
LEMMA ThreadMoves ==
  ASSUME TimerInv(w), NEW y, Moved(w, y), w.isr = "none", y.isr = "none", w.pc # "call",
         w.pc # "sleeping", y.pc # "sleeping",
         y.pc = "delta" => -y.lag <= After(y.next, y.tick) /\ After(y.next, y.tick) <= Longest,
         y.pc = "delay" => 1 <= y.next /\ y.next <= Longest,
         \A u \in SoftTimers : Listed(w, u) =>
           /\ -Late(y) <= LeftIn(w, u) /\ y.pc \notin {"suspend", "asleep"}
           /\ y.pc = "delta" => After(y.next, y.tick) <= LeftIn(w, u)
           /\ y.pc = "delay" => y.next <= LeftIn(w, u) + y.lag
  PROVE  TimerInv(y)
<1>1. TimerType(w) /\ Ordered(w) /\ Active(w) /\ HardOnTime(w) /\ ThreadServes(w)
  BY DEF TimerInv
<1>2. /\ TimerType(y) /\ Ordered(y) /\ Active(y)
      /\ \A u : (Listed(y, u) <=> Listed(w, u)) /\ LeftIn(y, u) = LeftIn(w, u)
  BY <1>1, MovedLists
<1>3. y.called = w.called
  BY DEF Moved
<1>4. HardOnTime(y)
  BY <1>1, <1>2, <1>3 DEF HardOnTime
<1>5. ThreadServes(y)
  BY <1>1, <1>2, <1>3 DEF ThreadServes
<1> QED BY <1>2, <1>4, <1>5 DEF TimerInv

\* No soft timer is due: the timer thread goes to sleep.
LEMMA CheckDoneInv ==
  ASSUME TimerInv(w), CheckDone
  PROVE  TimerInv(w')
<1>1. /\ TimerType(w) /\ Ordered(w) /\ w.isr = "none" /\ w.pc = "check" /\ ~FirstDue("soft")
      /\ w.lag \in Nat
  BY DEF TimerInv, CheckDone, At, TimerType
<1>2. PICK y : y = w'
  OBVIOUS
<1>3. Moved(w, y) /\ y.isr = "none" /\ y.pc = "look" /\ y.lag = w.lag /\ Late(y) = w.lag
  BY <1>1, <1>2 DEF CheckDone, Moved, TimerType, Fields, Late
<1>4. ASSUME NEW u \in SoftTimers, Listed(w, u) PROVE -Late(y) <= LeftIn(w, u)
  <2>1. 0 < LeftIn(w, u) /\ LeftIn(w, u) \in Int
    BY <1>1, <1>4, NoneDue, LeftType, TimerPlaces
  <2> QED BY <1>1, <1>3, <2>1
<1> QED BY <1>1, <1>2, <1>3, <1>4, ThreadMoves

\* The timer thread reads when its first timer is due.
LEMMA LookInv ==
  ASSUME TimerInv(w), Look
  PROVE  TimerInv(w')
<1>1. /\ TimerType(w) /\ Ordered(w) /\ ThreadServes(w) /\ w.isr = "none" /\ w.pc = "look"
      /\ "soft" \in TimerLists /\ Late(w) = w.lag
  BY TimerPlaces DEF TimerInv, Look, At, Late
<1>2. PICK y : y = w'
  OBVIOUS
<1>3. CASE w.list["soft"] = <<>>
  <2>1. Moved(w, y) /\ y.isr = "none" /\ y.pc = "suspend"
    BY <1>1, <1>2, <1>3 DEF Look, Moved, TimerType, Fields
  <2>2. \A u \in SoftTimers : ~Listed(w, u)
    <3> SUFFICES ASSUME NEW u \in SoftTimers PROVE ~Listed(w, u)
      OBVIOUS
    <3>1. w.list[ListOf(u)] = <<>>
      BY <1>3 DEF ListOf
    <3> QED BY <3>1 DEF Listed
  <2> QED BY <1>1, <1>2, <2>1, <2>2, ThreadMoves
<1>4. CASE w.list["soft"] # <<>>
  <2>1. PICK t \in AllTimers :
          /\ t = Head(w.list["soft"]) /\ ListOf(t) = "soft" /\ Listed(w, t)
          /\ \A v \in AllTimers : ListOf(v) = "soft" /\ Listed(w, v) => LeftIn(w, t) <= LeftIn(w, v)
    BY <1>1, <1>4, Begins
  <2>2. w.due[t] \in Ticks
    BY <1>1 DEF TimerType
  <2>3. /\ Moved(w, y) /\ y.isr = "none" /\ y.pc = "delta" /\ y.next = w.due[t]
        /\ y.lag = w.lag /\ y.tick = w.tick /\ Late(y) = w.lag
    BY <1>1, <1>2, <1>4, <2>1, <2>2 DEF Look, Moved, TimerType, Fields, Late
  <2>4. After(y.next, y.tick) = LeftIn(w, t)
    BY <2>3 DEF LeftIn
  <2>5. -w.lag <= LeftIn(w, t) /\ LeftIn(w, t) <= Longest
    <3>1. -w.lag <= LeftIn(w, t)
      BY <1>1, <2>1, TimerPlaces DEF ThreadServes
    <3>2. LeftIn(w, t) <= Longest
      BY <1>1, <2>1, ListedIs DEF Ordered
    <3> QED BY <3>1, <3>2
  <2>6. ASSUME NEW u \in SoftTimers, Listed(w, u)
        PROVE  -Late(y) <= LeftIn(w, u) /\ After(y.next, y.tick) <= LeftIn(w, u)
    <3>1. -w.lag <= LeftIn(w, u)
      BY <1>1, <2>6 DEF ThreadServes
    <3>2. LeftIn(w, t) <= LeftIn(w, u)
      BY <2>1, <2>6, TimerPlaces
    <3> QED BY <2>3, <2>4, <3>1, <3>2
  <2> QED BY <1>1, <1>2, <2>3, <2>4, <2>5, <2>6, ThreadMoves
<1> QED BY <1>3, <1>4

\* The timer thread compares that with the current tick.
LEMMA DeltaInv ==
  ASSUME TimerInv(w), Delta
  PROVE  TimerInv(w')
<1>1. /\ TimerType(w) /\ ThreadServes(w) /\ w.isr = "none" /\ w.pc = "delta" /\ Late(w) = w.lag
      /\ w.lag \in Nat
  BY DEF TimerInv, Delta, At, Late, TimerType
<1>2. PICK y : y = w'
  OBVIOUS
<1>3. PICK a \in Ticks, b \in Ticks : a = w.next /\ b = w.tick
  BY <1>1 DEF TimerType
<1>4. After(a, b) <= Longest /\ After(a, b) \in Int
  BY <1>1, <1>3, AfterIs DEF ThreadServes
<1>5. a # b /\ Reached(a, b) <=> After(a, b) > 0
  BY AfterCompared
<1>6. ASSUME NEW u \in SoftTimers, Listed(w, u)
      PROVE  /\ -w.lag <= LeftIn(w, u) /\ After(a, b) <= LeftIn(w, u) /\ LeftIn(w, u) \in Int
  BY <1>1, <1>3, <1>6, LeftType, TimerPlaces DEF ThreadServes
<1>7. CASE After(a, b) > 0
  <2>1. (a - b) % TickMod = After(a, b)
    BY <1>4, <1>7, AfterCompared
  <2>2. After(a, b) \in Ticks
    BY <1>4, <1>7, HalfFacts DEF Ticks
  <2>3. y = [w EXCEPT !.pc = "delay", !.next = After(a, b)]
    BY <1>2, <1>3, <1>5, <1>7, <2>1 DEF Delta
  <2>4. /\ Moved(w, y) /\ y.isr = "none" /\ y.pc = "delay" /\ y.next = After(a, b)
        /\ y.lag = w.lag /\ Late(y) = w.lag
    BY <1>1, <2>2, <2>3 DEF Moved, TimerType, Fields, Late
  <2>5. 1 <= y.next /\ y.next <= Longest
    BY <1>4, <1>7, <2>4
  <2>6. \A u \in SoftTimers : Listed(w, u) =>
          -Late(y) <= LeftIn(w, u) /\ y.next <= LeftIn(w, u) + y.lag
    BY <1>1, <1>4, <1>6, <2>4
  <2> QED BY <1>1, <1>2, <2>4, <2>5, <2>6, ThreadMoves
<1>8. CASE ~(After(a, b) > 0)
  <2>1. 0 \in Ticks
    BY HalfFacts DEF Ticks
  <2>2. y = [w EXCEPT !.pc = "check", !.next = 0]
    BY <1>2, <1>3, <1>5, <1>8 DEF Delta
  <2>3. /\ Moved(w, y) /\ y.isr = "none" /\ y.pc = "check" /\ y.lag = w.lag
        /\ Late(y) = MaxLag + w.lag
    BY <1>1, <2>1, <2>2 DEF Moved, TimerType, Fields, Late
  <2>4. \A u \in SoftTimers : Listed(w, u) => -Late(y) <= LeftIn(w, u)
    BY <1>1, <1>6, <2>3, HalfFacts
  <2> QED BY <1>1, <1>2, <2>3, <2>4, ThreadMoves
<1> QED BY <1>7, <1>8

\* The timer thread suspends itself for good: it has no timer.
LEMMA SuspendInv ==
  ASSUME TimerInv(w), Suspend
  PROVE  TimerInv(w')
<1>1. /\ TimerType(w) /\ Ordered(w) /\ Active(w) /\ HardOnTime(w) /\ ThreadServes(w)
      /\ w.isr = "none" /\ w.pc = "suspend"
  BY DEF TimerInv, Suspend, At
<1>2. PICK x : x = rt_timer_stop(w, ThreadTimer)
  OBVIOUS
<1>3. Without(w, x)
  BY <1>1, <1>2, StopsThread
<1>4. /\ TimerType(x) /\ Ordered(x) /\ Active(x) /\ HardOnTime(x) /\ x.isr = "none"
      /\ ~Listed(x, ThreadTimer) /\ x.called["soft"] = NoTimer
      /\ \A u \in SoftTimers : ~Listed(x, u)
  BY <1>1, <1>3, TimerPlaces DEF Without, ThreadServes, Steady, UserTimers
<1>5. PICK y : y = [x EXCEPT !.pc = "asleep"]
  OBVIOUS
<1>6. Moved(x, y) /\ y.isr = x.isr /\ y.pc = "asleep"
  BY <1>4, <1>5 DEF Moved, TimerType, Fields
<1>7. /\ TimerType(y) /\ Ordered(y) /\ Active(y)
      /\ \A u : (Listed(y, u) <=> Listed(x, u)) /\ LeftIn(y, u) = LeftIn(x, u)
  BY <1>4, <1>6, MovedLists
<1>8. y.called = x.called
  BY <1>6 DEF Moved
<1>9. HardOnTime(y)
  BY <1>4, <1>6, <1>7, <1>8 DEF HardOnTime
<1>10. ThreadServes(y)
  BY <1>4, <1>6, <1>7, <1>8 DEF ThreadServes
<1>11. w' = y
  BY <1>2, <1>5 DEF Suspend
<1> QED BY <1>7, <1>9, <1>10, <1>11 DEF TimerInv

\* The timer thread sleeps: its own timer is set to the time that was left before its first
\* timer when it compared them.
LEMMA DelayInv ==
  ASSUME TimerInv(w), Delay
  PROVE  TimerInv(w')
<1>1. /\ TimerType(w) /\ Ordered(w) /\ Active(w) /\ HardOnTime(w) /\ ThreadServes(w)
      /\ w.isr = "none" /\ w.pc = "delay" /\ w.next \in 1 .. Longest /\ w.lag \in Nat
      /\ Late(w) = w.lag
  <2>1. /\ TimerType(w) /\ Ordered(w) /\ Active(w) /\ HardOnTime(w) /\ ThreadServes(w)
        /\ w.isr = "none" /\ w.pc = "delay"
    BY DEF TimerInv, Delay, At
  <2>2. w.next \in Int
    BY <2>1, HalfFacts DEF TimerType, Ticks
  <2> QED BY <2>1, <2>2 DEF ThreadServes, TimerType, Late
<1>2. PICK x : x = rt_timer_stop(w, ThreadTimer)
  OBVIOUS
<1>3. Without(w, x)
  BY <1>1, <1>2, StopsThread
<1>4. /\ TimerType(x) /\ Ordered(x) /\ Active(x) /\ HardOnTime(x) /\ Steady(w, x)
      /\ ~Listed(x, ThreadTimer) /\ x.called["soft"] = NoTimer /\ x.called = w.called
      /\ \A u \in SoftTimers : Listed(x, u) =>
           -w.lag <= LeftIn(x, u) /\ w.next <= LeftIn(x, u) + w.lag
  BY <1>1, <1>3, TimerPlaces DEF Without, ThreadServes, UserTimers
<1>5. /\ x.isr = "none" /\ x.pc = "delay" /\ x.next = w.next /\ x.lag = w.lag
      /\ x.tick = w.tick /\ Late(x) = w.lag
  BY <1>1, <1>4 DEF Steady, Late
<1>6. PICK z : z = [x EXCEPT !.init[ThreadTimer] = w.next]
  OBVIOUS
<1>7. /\ z.list = x.list /\ z.due = x.due /\ z.called = x.called /\ z.active = x.active
      /\ z.init = [x.init EXCEPT ![ThreadTimer] = w.next] /\ z.periodic = x.periodic
      /\ z.MUTED = x.MUTED /\ Steady(x, z) /\ Fields(z)
  BY <1>4, <1>6 DEF TimerType, Steady, Fields
<1>8. TimerType(z) /\ z.init[ThreadTimer] = w.next
  BY <1>1, <1>4, <1>7, TimerPlaces DEF TimerType, Steady, Fields
<1>9. \A u : Listed(z, u) <=> Listed(x, u)
  BY <1>7 DEF Listed
<1>10. Active(z)
  BY <1>4, <1>7, <1>9 DEF Active
<1>11. ThreadServes(x)
  BY <1>1, <1>4, <1>5 DEF ThreadServes
<1>12. TimerInv(z)
  BY <1>4, <1>7, <1>8, <1>10, <1>11, SameTimesInv DEF TimerInv, SameTimes
<1>13. PICK v : v = InsertByDue(timer_remove(z, ThreadTimer), ThreadTimer)
  OBVIOUS
<1>14. Restarted(z, v, ThreadTimer)
  BY <1>12, <1>13, Restarts, TimerPlaces DEF TimerInv
<1>15. /\ TimerType(v) /\ Ordered(v) /\ Active(v) /\ HardOnTime(v)
       /\ \A u \in SoftTimers : Listed(v, u) => -Late(v) <= LeftIn(v, u)
       /\ v.called["soft"] # NoTimer => v.pc = "call"
  BY <1>12, <1>14, RestartedLists, TimerPlaces DEF Restarted
<1>16. /\ v.isr = "none" /\ v.pc = "delay" /\ v.lag = w.lag /\ Late(v) = w.lag
       /\ Listed(v, ThreadTimer) /\ LeftIn(v, ThreadTimer) = w.next
       /\ v.called["soft"] = NoTimer
  BY <1>5, <1>7, <1>8, <1>14, <1>15, TimerPlaces DEF Restarted, Steady, Late
<1>17. ASSUME NEW u \in SoftTimers, Listed(v, u) PROVE w.next <= LeftIn(v, u) + w.lag
  <2>1. u \in AllTimers /\ u # ThreadTimer
    BY TimerPlaces DEF UserTimers
  <2>2. Listed(x, u) /\ v.due[u] = x.due[u]
    BY <1>7, <1>9, <1>14, <1>17, <2>1 DEF Restarted
  <2>3. LeftIn(v, u) = LeftIn(x, u)
    BY <1>7, <1>14, <2>2 DEF Restarted, Steady, LeftIn
  <2> QED BY <1>4, <2>2, <2>3
<1>18. PICK y : y = [v EXCEPT !.pc = "sleeping", !.next = 0]
  OBVIOUS
<1>19. 0 \in Ticks
  BY HalfFacts DEF Ticks
<1>20. Moved(v, y) /\ y.isr = "none" /\ y.pc = "sleeping" /\ y.lag = w.lag /\ Late(y) = w.lag
  BY <1>15, <1>16, <1>18, <1>19 DEF Moved, TimerType, Fields, Late
<1>21. /\ TimerType(y) /\ Ordered(y) /\ Active(y)
       /\ \A u : (Listed(y, u) <=> Listed(v, u)) /\ LeftIn(y, u) = LeftIn(v, u)
  BY <1>15, <1>20, MovedLists
<1>22. y.called = v.called
  BY <1>20 DEF Moved
<1>23. HardOnTime(y)
  BY <1>15, <1>16, <1>20, <1>21, <1>22 DEF HardOnTime
<1>24. ThreadServes(y)
  BY <1>15, <1>16, <1>17, <1>20, <1>21, <1>22 DEF ThreadServes
<1>25. w' = y
  <2>1. rt_timer_start(z, ThreadTimer) = v
    <3>1. ThreadTimer \notin SoftTimers
      BY TimerPlaces DEF UserTimers
    <3> QED BY <1>13, <3>1, Zenon DEF rt_timer_start
  <2> QED BY <1>2, <1>6, <1>18, <2>1 DEF Delay
<1> QED BY <1>21, <1>23, <1>24, <1>25 DEF TimerInv

\* Every step of the timers preserves the invariant, if the functions of hard timers start
\* no soft ones.
LEMMA TimerStepInv ==
  ASSUME ~IsrStarts, TimerInv(w), TimerStep
  PROVE  TimerInv(w')
<1>1. w.use \subseteq UserTimers
  BY DEF TimerInv, TimerType
<1>2. ASSUME NEW startable, w' \in Services(w, startable),
             startable \cap SoftTimers = {} \/ w.pc = "call" \/ (Suspended(w) /\ w.isr = "none")
      PROVE  TimerInv(w')
  <2>1. PICK y, use : y = w' /\ use = w.use
    OBVIOUS
  <2>2. \/ \E t \in startable \cap use : y = rt_timer_start(w, t)
        \/ \E t \in use : y \in {rt_timer_stop(w, t), rt_timer_detach(w, t)}
        \/ \E t \in use : y \in rt_timer_control(w, t)
    BY <1>2, <2>1 DEF Services
  <2>3. TimerInv(y)
    BY <1>1, <1>2, <2>1, <2>2, ServicesInv
  <2> QED BY <2>1, <2>3
<1>3. CASE HardFunction
  <2>1. w' \in Services(w, HardTimers)
    BY <1>3 DEF HardFunction
  <2>2. HardTimers \cap SoftTimers = {}
    BY TimerAssumption
  <2> QED BY <1>2, <2>1, <2>2
<1>4. CASE SoftFunction
  BY <1>2, <1>4 DEF SoftFunction, At
<1>5. CASE OtherThreads
  BY <1>2, <1>5 DEF OtherThreads
<1>6. CASE TimerTick
  BY <1>6, TickInv
<1>7. CASE HardCall
  BY <1>7, HardCallInv
<1>8. CASE HardReturn
  BY <1>8, HardReturnInv
<1>9. CASE LeaveHandler
  BY <1>9, LeaveInv
<1>10. CASE Look
  BY <1>10, LookInv
<1>11. CASE Suspend
  BY <1>11, SuspendInv
<1>12. CASE Delta
  BY <1>12, DeltaInv
<1>13. CASE Delay
  BY <1>13, DelayInv
<1>14. CASE SoftCall
  BY <1>14, SoftCallInv
<1>15. CASE SoftReturn
  BY <1>15, SoftReturnInv
<1>16. CASE CheckDone
  BY <1>16, CheckDoneInv
<1> QED BY <1>3, <1>4, <1>5, <1>6, <1>7, <1>8, <1>9, <1>10, <1>11, <1>12, <1>13, <1>14, <1>15,
           <1>16 DEF TimerStep

\* No timer is running at first.
LEMMA TimerInit ==
  ASSUME NEW use \in SUBSET UserTimers, NEW z, z = TimerObject(use)
  PROVE  TimerInv(z)
<1>1. PICK n \in 1 .. Longest : n = CHOOSE m \in Times : TRUE
  BY HalfFacts
<1>2. /\ z.list = [l \in TimerLists |-> <<>>] /\ z.called = [l \in TimerLists |-> NoTimer]
      /\ z.due = [t \in AllTimers |-> 0] /\ z.init = [t \in AllTimers |-> n]
      /\ z.periodic = [t \in AllTimers |-> FALSE] /\ z.active = [t \in AllTimers |-> FALSE]
      /\ z.use = use /\ z.tick = FirstTick /\ z.isr = "none" /\ z.pc = "look" /\ z.next = 0
      /\ z.lag = 0 /\ z.MUTED = {} /\ Fields(z)
  BY <1>1 DEF TimerObject, TimerLists, Fields
<1>3. 0 \in Ticks /\ FirstTick \in Ticks
  BY HalfFacts, TimerAssumption DEF Ticks
<1>4. TimerType(z)
  BY <1>2, <1>3, TimerPlaces, HalfFacts DEF TimerType, Fields
<1>5. \A l \in TimerLists : z.list[l] = <<>>
  BY <1>2
<1>6. \A t \in AllTimers : ~Listed(z, t)
  BY <1>5, TimerPlaces DEF Listed
<1>7. Ordered(z)
  BY <1>5 DEF Ordered, IsInjective, Members
<1>8. Active(z)
  BY <1>2, <1>6, TimerPlaces DEF Active
<1>9. HardOnTime(z)
  BY <1>2, <1>6, TimerPlaces DEF HardOnTime
<1>10. ThreadServes(z)
  BY <1>2, <1>6, TimerPlaces DEF ThreadServes
<1> QED BY <1>4, <1>7, <1>8, <1>9, <1>10 DEF TimerInv

\* The timers of the kernel at first.
LEMMA KernelTimers ==
  ASSUME Init
  PROVE  TimerInv(w)
<1>1. PICK use : use \in (IF kind = "timer" THEN TimerSets ELSE {{}}) /\ w = TimerObject(use)
  BY DEF Init
<1>2. use \in SUBSET UserTimers
  BY <1>1, TimerAssumption DEF UserTimers
<1> QED BY <1>1, <1>2, TimerInit

\* Every step of the kernel preserves the invariant of the timers.
LEMMA KernelTimersNext ==
  ASSUME ~IsrStarts, TimerInv(w), [Next]_kernelVars
  PROVE  TimerInv(w)'
<1>1. w' = w \/ TimerStep
  BY DEF Next, kernelVars
<1>2. TimerInv(w')
  BY <1>1, TimerStepInv
<1> QED BY <1>2

\* Left is the time that is left.
LEMMA LeftIs == \A t : Left(t) = LeftIn(w, t)
  BY DEF Left, LeftIn, After, Half

\* The invariant says that timers are on time.
LEMMA InvOnTime ==
  ASSUME TimerInv(w)
  PROVE  TimersOnTime
<1>1. TimerType(w) /\ Ordered(w) /\ Active(w) /\ HardOnTime(w) /\ ThreadServes(w)
  BY DEF TimerInv
<1>2. ASSUME NEW l \in {"hard", "soft"}
      PROVE  /\ IsInjective(w.list[l])
             /\ \A i, j \in DOMAIN w.list[l] : i < j => Left(w.list[l][i]) <= Left(w.list[l][j])
  <2>1. l \in TimerLists
    BY DEF TimerLists
  <2>2. PICK q \in Seq(AllTimers) : q = w.list[l]
    BY <1>1, <2>1 DEF TimerType
  <2>3. DOMAIN q = 1 .. Len(q)
    BY <2>2
  <2> QED BY <1>1, <2>1, <2>2, <2>3, LeftIs DEF Ordered
<1>3. ASSUME NEW t \in AllTimers
      PROVE  /\ Listed(w, t) => w.active[t] /\ w.called[ListOf(t)] # t
             /\ w.active[t] => Listed(w, t) \/ w.called[ListOf(t)] = t \/ t \in w.MUTED
             /\ Listed(w, t) /\ ListOf(t) = "hard" =>
                  IF w.isr = "none" THEN Left(t) > 0 ELSE Left(t) >= 0
  <2>1. LeftIn(w, t) \in Int /\ Left(t) = LeftIn(w, t)
    BY <1>1, LeftType, LeftIs
  <2>2. Listed(w, t) /\ ListOf(t) = "hard" =>
          0 <= LeftIn(w, t) /\ (w.isr = "none" => 0 < LeftIn(w, t))
    BY <1>1 DEF HardOnTime
  <2>3. Listed(w, t) /\ ListOf(t) = "hard" =>
          IF w.isr = "none" THEN Left(t) > 0 ELSE Left(t) >= 0
    BY <2>1, <2>2
  <2> QED BY <1>1, <2>3 DEF Active
<1>4. w.called["hard"] # NoTimer => Left(w.called["hard"]) = 0
  BY <1>1, LeftIs DEF HardOnTime
<1>5. w.called["soft"] # NoTimer => Left(w.called["soft"]) <= 0
  BY <1>1, LeftIs DEF ThreadServes
<1>6. Listed(w, ThreadTimer) <=> w.pc = "sleeping"
  BY <1>1 DEF ThreadServes
<1> QED BY <1>2, <1>3, <1>4, <1>5, <1>6 DEF TimersOnTime

\* The invariant says that the timer thread does not sleep past a soft timer.
LEMMA InvServes ==
  ASSUME TimerInv(w)
  PROVE  SoftTimersServed
<1>1. TimerType(w) /\ Ordered(w) /\ ThreadServes(w)
  BY DEF TimerInv
<1>2. ASSUME w.pc = "asleep", w.list["soft"] # <<>> PROVE FALSE
  <2>1. PICK t \in AllTimers : ListOf(t) = "soft" /\ Listed(w, t)
    BY <1>1, <1>2, Begins, TimerPlaces
  <2>2. t \in SoftTimers
    BY <2>1, TimerPlaces
  <2> QED BY <1>1, <1>2, <2>1, <2>2 DEF ThreadServes
<1>3. w.pc = "sleeping" =>
        \A t \in SoftTimers : Listed(w, t) => Left(ThreadTimer) <= Left(t) + w.lag
  BY <1>1, LeftIs DEF ThreadServes
<1> QED BY <1>2, <1>3 DEF SoftTimersServed

\* timer.c: timers go off when they should, for every set of timers, length of the tick
\* counter and interleaving with the timer thread, where the functions of hard timers start
\* no soft timers.
THEOREM TimersGoOffOnTime ==
  ASSUME ~IsrStarts
  PROVE  Spec => []TimersOnTime
<1>1. Init => TimerInv(w)
  BY KernelTimers
<1>2. TimerInv(w) /\ [Next]_kernelVars => TimerInv(w)'
  BY KernelTimersNext
<1>3. TimerInv(w) => TimersOnTime
  BY InvOnTime
<1> QED BY <1>1, <1>2, <1>3, PTL DEF Spec

\* timer.c, _timer_thread_entry: under the same condition the timer thread never sleeps past
\* a soft timer.
THEOREM SleepersAreWoken ==
  ASSUME ~IsrStarts
  PROVE  Spec => []SoftTimersServed
<1>1. Init => TimerInv(w)
  BY KernelTimers
<1>2. TimerInv(w) /\ [Next]_kernelVars => TimerInv(w)'
  BY KernelTimersNext
<1>3. TimerInv(w) => SoftTimersServed
  BY InvServes
<1> QED BY <1>1, <1>2, <1>3, PTL DEF Spec
-----------------------------------------------------------------------------
(* Priority inheritance. BoostInv is KernelInv and, if the kernel's objects *)
(* are mutexes, that each thread has the priority that                      *)
(* thread_get_mutex_priority computes for it and each mutex that of its     *)
(* first waiter, with its list in order. Within a step this is broken at    *)
(* one thread at a time: Walk is what holds while _thread_update_priority   *)
(* climbs from owner to owner, and Below, the threads that the new priority *)
(* can still raise, is why it arrives.                                      *)

(* p is the priority thread_get_mutex_priority gives t: its own or that of *)
(* a mutex it has, and none of these is higher.                            *)
Level(y, t, p) ==
  /\ p <= InitPrio[t] /\ \A m \in y.taken[t] : p <= y.prio[m]
  /\ p = InitPrio[t] \/ \E m \in y.taken[t] : p = y.prio[m]

\* Priorities are numbers, those of mutexes too.
LEMMA PrioNat ==
  ASSUME NEW y, MxType(y)
  PROVE  /\ Prios \in SUBSET Nat /\ NoPrio \in Nat
         /\ \A m \in Mutexes : y.prio[m] \in Nat
         /\ \A t \in AllThreads : InitPrio[t] \in Nat /\ InitPrio[t] < NoPrio
<1>1. Prios \in SUBSET Nat /\ NoPrio \in Nat
  BY ThreadAssumption, MutexAssumption DEF Prios
<1>2. ASSUME NEW m \in Mutexes PROVE y.prio[m] \in Nat
  BY <1>1 DEF MxType
<1> QED BY <1>1, <1>2, ThreadAssumption, MutexAssumption

\* That is what thread_get_mutex_priority computes.
LEMMA LevelIs ==
  ASSUME NEW y, MxType(y), NEW t \in Threads
  PROVE  /\ Level(y, t, thread_get_mutex_priority(y, t))
         /\ \A p \in Nat : Level(y, t, p) => p = thread_get_mutex_priority(y, t)
<1> DEFINE S == {InitPrio[t]} \cup {y.prio[m] : m \in y.taken[t]}
<1>1. t \in AllThreads /\ y.taken[t] \subseteq Mutexes
  BY InLists DEF MxType
<1>2. InitPrio[t] \in Nat /\ \A m \in y.taken[t] : y.prio[m] \in Nat
  BY <1>1, PrioNat
<1>3. S \in SUBSET Nat /\ S # {}
  BY <1>2
<1>4. /\ InitPrio[t] \in S /\ \A m \in y.taken[t] : y.prio[m] \in S
      /\ \A q \in S : q = InitPrio[t] \/ \E m \in y.taken[t] : q = y.prio[m]
  OBVIOUS
<1> HIDE DEF S
<1>5. PICK p \in S : \A q \in S : p <= q
  BY <1>3, LeastOf
<1>6. Lowest(S) \in S /\ \A q \in S : Lowest(S) <= q
  BY <1>5 DEF Lowest
<1>7. Level(y, t, Lowest(S))
  BY <1>4, <1>6 DEF Level
<1>8. ASSUME NEW q \in Nat, Level(y, t, q) PROVE q = Lowest(S)
  <2>1. q \in S /\ \A r \in S : q <= r
    BY <1>4, <1>8 DEF Level
  <2>2. q <= Lowest(S) /\ Lowest(S) <= q /\ Lowest(S) \in Nat
    BY <1>3, <1>6, <2>1
  <2> QED BY <2>2
<1>9. Lowest(S) = thread_get_mutex_priority(y, t)
  BY DEF thread_get_mutex_priority, S
<1> QED BY <1>7, <1>8, <1>9

\* It depends on the mutexes the thread has.
LEMMA SameLevel ==
  ASSUME NEW y, NEW x, NEW t, NEW p, y.taken[t] = x.taken[t],
         \A m \in y.taken[t] : y.prio[m] = x.prio[m], Level(y, t, p)
  PROVE  Level(x, t, p)
  BY DEF Level

\* A mutex of the thread gets a higher priority.
LEMMA RaisedLevel ==
  ASSUME NEW y, MxType(y), NEW x, NEW t \in Threads, x.taken[t] = y.taken[t],
         NEW m \in y.taken[t], NEW p \in Nat, x.prio[m] = p, p < y.prio[m],
         \A k \in y.taken[t] \ {m} : x.prio[k] = y.prio[k], NEW c \in Nat, Level(y, t, c)
  PROVE  (c <= p => Level(x, t, c)) /\ (p < c => Level(x, t, p))
<1>1. y.taken[t] \subseteq Mutexes /\ t \in AllThreads
  BY InLists DEF MxType
<1>2. InitPrio[t] \in Nat /\ \A k \in y.taken[t] : y.prio[k] \in Nat
  BY <1>1, PrioNat
<1>3. ASSUME c <= p PROVE Level(x, t, c)
  <2>1. ASSUME NEW k \in x.taken[t] PROVE c <= x.prio[k]
    BY <1>3 DEF Level
  <2>2. c = InitPrio[t] \/ \E k \in x.taken[t] : c = x.prio[k]
    <3>1. c # y.prio[m]
      BY <1>2, <1>3
    <3> QED BY <3>1 DEF Level
  <2> QED BY <2>1, <2>2 DEF Level
<1>4. ASSUME p < c PROVE Level(x, t, p)
  <2>1. ASSUME NEW k \in x.taken[t] PROVE p <= x.prio[k]
    <3>1. CASE k = m
      BY <3>1
    <3>2. CASE k # m
      <4>1. c <= y.prio[k] /\ y.prio[k] \in Nat
        BY <1>2 DEF Level
      <4> QED BY <1>4, <3>2, <4>1
    <3> QED BY <3>1, <3>2
  <2>2. p <= InitPrio[t]
    BY <1>2, <1>4 DEF Level
  <2> QED BY <2>1, <2>2 DEF Level
<1> QED BY <1>3, <1>4

\* Priorities of threads are numbers.
LEMMA ThreadPrio ==
  ASSUME NEW z, Sound(z), NEW t \in AllThreads
  PROVE  z.prio[t] \in Prios /\ z.prio[t] \in Nat
<1>1. Prios \in SUBSET Nat
  BY ThreadAssumption DEF Prios
<1> QED BY <1>1 DEF Sound, SchedType

(* A mutex has the priority of its first waiter, and its waiters are in    *)
(* order.                                                                  *)
InOrder(z, y, m) == y.prio[m] = FirstPrio(z, m) /\ Rising(z.wait[m], z.prio)
Boosts(z, y) ==
  /\ \A t \in Threads : Level(y, t, z.prio[t])
  /\ \A m \in Mutexes : InOrder(z, y, m)

\* Nobody who waits is more urgent than the first.
LEMMA FirstIsLeast ==
  ASSUME NEW z, Sound(z), NEW m \in Mutexes, Rising(z.wait[m], z.prio)
  PROVE  /\ FirstPrio(z, m) \in Nat
         /\ \A u \in Members(z.wait[m]) : FirstPrio(z, m) <= z.prio[u] /\ z.prio[u] \in Nat
         /\ \/ z.wait[m] = <<>> /\ FirstPrio(z, m) = NoPrio
            \/ \E u \in Members(z.wait[m]) : FirstPrio(z, m) = z.prio[u]
<1>1. PICK q \in Seq(Threads) : q = z.wait[m]
  BY InLists DEF Sound, SchedType
<1>2. Prios \in SUBSET Nat /\ NoPrio \in Nat
  BY ThreadAssumption, MutexAssumption DEF Prios
<1>3. ASSUME NEW t \in Threads PROVE z.prio[t] \in Nat
  BY <1>2, InLists DEF Sound, SchedType
<1>4. CASE q = <<>>
  <2>1. Members(z.wait[m]) = {}
    BY <1>1, <1>4 DEF Members
  <2> QED BY <1>1, <1>2, <1>4, <2>1 DEF FirstPrio
<1>5. CASE q # <<>>
  <2>1. 1 \in 1 .. Len(q) /\ Head(q) = q[1] /\ q[1] \in Threads
    BY <1>5
  <2>2. FirstPrio(z, m) = z.prio[q[1]]
    BY <1>1, <1>5, <2>1 DEF FirstPrio
  <2>3. ASSUME NEW u \in Members(q) PROVE z.prio[q[1]] <= z.prio[u] /\ z.prio[u] \in Nat
    <3>1. PICK i \in 1 .. Len(q) : u = q[i]
      BY DEF Members
    <3>2. z.prio[q[1]] \in Nat /\ z.prio[u] \in Nat
      BY <1>3, <2>1, <3>1
    <3>3. CASE i = 1
      BY <3>1, <3>2, <3>3
    <3>4. CASE i # 1
      <4>1. 1 < i
        BY <3>4
      <4> QED BY <1>1, <2>1, <3>1, <3>2, <4>1 DEF Rising
    <3> QED BY <3>3, <3>4
  <2>4. q[1] \in Members(q)
    BY <2>1 DEF Members
  <2> QED BY <1>1, <1>3, <2>1, <2>2, <2>3, <2>4
<1> QED BY <1>4, <1>5

\* The order of a list depends on the priorities of its threads.
LEMMA SameRising ==
  ASSUME NEW S, NEW q \in Seq(S), NEW f, NEW g, Rising(q, g), \A u \in Members(q) : f[u] = g[u]
  PROVE  Rising(q, f)
<1>1. \A i \in 1 .. Len(q) : q[i] \in Members(q)
  BY DEF Members
<1> QED BY <1>1 DEF Rising

\* And so does who is first in it.
LEMMA SameFirst ==
  ASSUME NEW z, NEW y, Sound(y), NEW m \in Mutexes, z.wait[m] = y.wait[m],
         \A u \in Members(z.wait[m]) : z.prio[u] = y.prio[u]
  PROVE  /\ FirstPrio(z, m) = FirstPrio(y, m)
         /\ Rising(y.wait[m], y.prio) => Rising(z.wait[m], z.prio)
<1>1. PICK q \in Seq(Threads) : q = y.wait[m]
  BY InLists DEF Sound, SchedType
<1>2. q # <<>> => Head(q) \in Members(q)
  <2>1. q # <<>> => Head(q) = q[1] /\ 1 \in 1 .. Len(q)
    OBVIOUS
  <2> QED BY <2>1 DEF Members
<1>3. FirstPrio(z, m) = FirstPrio(y, m)
  BY <1>1, <1>2 DEF FirstPrio
<1>4. Rising(q, y.prio) => Rising(q, z.prio)
  BY <1>1, SameRising
<1> QED BY <1>1, <1>3, <1>4

\* Where ipc_list_suspend puts a thread is before those of lower priority.
LEMMA PlaceIsBefore ==
  ASSUME NEW S, NEW q \in Seq(S), NEW f \in [S -> Nat], NEW t \in S
  PROVE  Place(q, t, f) = Before(q, t, f)
<1> DEFINE I == {i \in 1 .. Len(q) : f[t] < f[q[i]]}
           J == {i \in 1 .. Len(q) : f[q[i]] > f[t]}
<1>1. Place(q, t, f) = IF I # {} THEN Min(I) ELSE 0
  BY Zenon DEF SelectInSeq, Place
<1>2. Before(q, t, f) = IF J # {} THEN Min(J) ELSE 0
  BY Zenon DEF SelectInSeq, Before
<1>3. I = J
  <2>1. ASSUME NEW i \in 1 .. Len(q) PROVE f[t] < f[q[i]] <=> f[q[i]] > f[t]
    <3>1. f[t] \in Nat /\ f[q[i]] \in Nat
      OBVIOUS
    <3> QED BY <3>1
  <2> QED BY <2>1
<1> HIDE DEF I, J
<1> QED BY <1>1, <1>2, <1>3

\* ipc_list_suspend keeps the list of a mutex in order and the other lists as they are.
LEMMA QueuedInOrder ==
  ASSUME NEW z, SchedType(z), Lists(z), NEW t \in Threads, NEW m \in Mutexes, ~InWait(z, t, m),
         Rising(z.wait[m], z.prio), NEW x, x = ipc_list_suspend(z, m, t, "PRIO")
  PROVE  /\ \A k \in WaitLists \ {m} : x.wait[k] = z.wait[k]
         /\ Rising(x.wait[m], z.prio) /\ Members(x.wait[m]) = Members(z.wait[m]) \cup {t}
<1>1. PICK q : q = z.wait[m]
  OBVIOUS
<1>2. PICK f : f = z.prio
  OBVIOUS
<1>3. q \in Seq(Threads) /\ IsInjective(q) /\ t \notin Members(q) /\ Rising(q, f)
  BY <1>1, <1>2, InLists DEF SchedType, Lists, InWait
<1>4. q \in Seq(AllThreads) /\ t \in AllThreads
  BY <1>3, InLists
<1>5. f \in [AllThreads -> Nat] /\ f \in [AllThreads -> Int]
  <2>1. Prios \in SUBSET Nat
    BY ThreadAssumption DEF Prios
  <2> QED BY <1>2, <2>1 DEF SchedType
<1>6. PICK at : at = Place(q, t, f) /\ at = Before(q, t, f)
  BY <1>4, <1>5, PlaceIsBefore
<1>7. PICK r : r = PutBefore(q, t, at)
  OBVIOUS
<1>8. AddsTo(r, AllThreads, q, t) /\ Rising(r, f)
  BY <1>3, <1>4, <1>5, <1>6, <1>7, PutRises
<1>9. x.wait = [z.wait EXCEPT ![m] = r]
  <2>1. r = IF at = 0 THEN Append(q, t) ELSE InsertAt(q, at, t)
    BY <1>7 DEF PutBefore
  <2>2. PICK z1 : z1 = IF z.stat[t] = "suspend" THEN z ELSE rt_thread_suspend(z, t)
    OBVIOUS
  <2>3. z1.wait = z.wait /\ z1 = [z1 EXCEPT !.wait = z.wait] /\ "wait" \in DOMAIN z1
    BY <2>2 DEF rt_thread_suspend, SchedType
  <2>4. x = [z1 EXCEPT !.wait[m] = IF at = 0 THEN Append(@, t) ELSE InsertAt(@, at, t)]
    BY <1>1, <1>2, <1>6, <2>2 DEF ipc_list_suspend, Place
  <2>5. x.wait = [z1.wait EXCEPT ![m] = IF at = 0 THEN Append(z1.wait[m], t)
                                        ELSE InsertAt(z1.wait[m], at, t)]
    BY <2>3, <2>4
  <2> QED BY <1>1, <2>1, <2>3, <2>5
<1>10. x.wait[m] = r /\ \A k \in WaitLists \ {m} : x.wait[k] = z.wait[k]
  BY <1>9, InLists DEF SchedType
<1> QED BY <1>1, <1>2, <1>8, <1>10 DEF AddsTo

(* The waiters and pending_object agree, so do the owners and the lists of *)
(* what is taken, and nobody waits for a mutex he has, or that is free.    *)
Linked(z, y) ==
  \A t \in Threads : \A m \in Mutexes :
    /\ InWait(z, t, m) <=> y.pend[t] = m
    /\ m \in y.taken[t] <=> y.owner[m] = t
    /\ InWait(z, t, m) => y.owner[m] \in Threads \ {t}

(* In the walk along the chain: all is as it should be but the priority of *)
(* the next thread, which is to be p and is lower.                         *)
Walk(k, p) ==
  /\ \A m \in Mutexes : InOrder(k.z, k.y, m)
  /\ \A u \in Threads \ {k.t} : Level(k.y, u, k.z.prio[u])
  /\ k.t # None => k.p = p /\ p < k.z.prio[k.t] /\ Level(k.y, k.t, p)
Below(k, p) == {u \in Threads : p < k.z.prio[u]}

\* What the walk does to the thread it is at.
Stepped(k, x, p) == Walk(x, p) /\ Below(x, p) = Below(k, p) \ {k.t}

\* The chain ends at a thread that waits for no mutex.
LEMMA WalkEnds ==
  ASSUME NEW k, UpdateType(k), Sound(k.z), Linked(k.z, k.y), NEW p, Walk(k, p),
         NEW t \in Threads, k.t = t, NEW z, PrioChanged(k.z, z, t, p),
         z.stat[t] # "suspend" \/ k.y.pend[t] = None,
         NEW x, x = [k EXCEPT !.z = z, !.t = None]
  PROVE  Stepped(k, x, p)
<1>1. None \notin Threads /\ None \notin Mutexes /\ t \in AllThreads
  BY MutexAssumption, InLists
<1>2. x = [z |-> z, y |-> k.y, t |-> None, p |-> k.p]
  BY DEF UpdateType
<1>3. x.z = z /\ x.y = k.y /\ x.t = None /\ p \in Prios
  BY <1>1, <1>2 DEF UpdateType, Walk
<1>4. /\ z.prio[t] = p /\ \A u \in AllThreads \ {t} : z.prio[u] = k.z.prio[u]
      /\ z.wait = k.z.wait /\ z.stat = k.z.stat
  BY <1>1 DEF PrioChanged, Sound, SchedType
<1>5. ASSUME NEW m \in Mutexes PROVE InOrder(z, k.y, m)
  <2>1. ~InWait(k.z, t, m)
    <3>1. Placed(k.z, t) /\ m \in WaitLists
      BY <1>1, InLists DEF Sound
    <3> QED BY <1>1, <1>4, <3>1 DEF Placed, Linked
  <2>2. ASSUME NEW u \in Members(z.wait[m]) PROVE z.prio[u] = k.z.prio[u]
    <3>1. u \in Threads
      <4>1. k.z.wait[m] \in Seq(Threads)
        BY InLists DEF Sound, SchedType
      <4> QED BY <1>4, <2>2, <4>1 DEF Members
    <3>2. u # t
      BY <1>4, <2>1, <2>2 DEF InWait
    <3> QED BY <1>4, <3>1, <3>2, InLists
  <2>3. InOrder(k.z, k.y, m) /\ z.wait[m] = k.z.wait[m]
    BY <1>4 DEF Walk
  <2>4. PICK kz : kz = k.z
    OBVIOUS
  <2>5. FirstPrio(z, m) = FirstPrio(kz, m) /\ (Rising(kz.wait[m], kz.prio) => Rising(z.wait[m], z.prio))
    BY <2>2, <2>3, <2>4, SameFirst
  <2> QED BY <2>3, <2>4, <2>5 DEF InOrder
<1>6. ASSUME NEW u \in Threads PROVE Level(k.y, u, z.prio[u])
  <2>1. CASE u = t
    BY <1>1, <1>4, <2>1 DEF Walk
  <2>2. CASE u # t
    BY <1>4, <2>2, InLists DEF Walk
  <2> QED BY <2>1, <2>2
<1>7. Walk(x, p)
  BY <1>3, <1>5, <1>6 DEF Walk
<1>8. Below(x, p) = Below(k, p) \ {t}
  <2>1. ~(p < p)
    BY <1>3, ThreadAssumption DEF Prios
  <2> QED BY <1>3, <1>4, <2>1, InLists DEF Below
<1> QED BY <1>7, <1>8 DEF Stepped

\* A thread of the chain is queued anew, at its new priority.
LEMMA Requeues ==
  ASSUME NEW y, Sound(y), NEW t \in Threads, NEW m \in Mutexes, InWait(y, t, m),
         Rising(y.wait[m], y.prio), NEW p \in Prios, NEW z, PrioChanged(y, z, t, p),
         NEW v, v = Unlink(z, t), NEW x, x = ipc_list_suspend(v, m, t, "PRIO")
  PROVE  /\ \A k \in WaitLists \ {m} : x.wait[k] = y.wait[k]
         /\ Rising(x.wait[m], z.prio) /\ Members(x.wait[m]) = Members(y.wait[m])
<1>1. t \in AllThreads /\ m \in WaitLists
  BY InLists
<1>2. /\ Sound(z) /\ z.wait = y.wait /\ z.prio[t] = p
      /\ \A u \in AllThreads \ {t} : z.prio[u] = y.prio[u]
  BY <1>1 DEF PrioChanged, Sound, SchedType
<1>3. /\ SoundBut(v, t) /\ v.prio = z.prio
      /\ \A u \in AllThreads : \A l \in WaitLists : InWait(v, u, l) <=> InWait(z, u, l) /\ u # t
      /\ \A l \in WaitLists : ~InWait(z, t, l) => v.wait[l] = z.wait[l]
  BY <1>1, <1>2, UnlinkSound
<1>4. v.wait[m] = RemoveFirst(z.wait[m], t)
  BY <1>1, <1>2, UnlinkType DEF Sound
<1>5. PICK q \in Seq(Threads) : q = y.wait[m] /\ IsInjective(q)
  BY <1>1 DEF Sound, SchedType, Lists
<1>6. PICK r : r = RemoveFirst(q, t)
  OBVIOUS
<1>7. r \in Seq(Threads) /\ Members(r) = Members(q) \ {t}
  BY <1>5, <1>6, RemovedFrom
<1>8. Rising(r, z.prio)
  <2>1. Rising(r, y.prio)
    BY <1>5, <1>6, RemovedRises
  <2>2. \A u \in Members(r) : z.prio[u] = y.prio[u]
    <3>2. \A u \in Members(q) : u \in Threads
      BY DEF Members
    <3>1. \A u \in Members(r) : u \in Threads /\ u # t
      BY <1>7, <3>2
    <3> QED BY <1>2, <3>1, InLists
  <2> QED BY <1>7, <2>1, <2>2, SameRising
<1>9. ~InWait(v, t, m) /\ Rising(v.wait[m], v.prio)
  BY <1>1, <1>2, <1>3, <1>4, <1>5, <1>6, <1>8
<1>10. /\ \A k \in WaitLists \ {m} : x.wait[k] = v.wait[k]
       /\ Rising(x.wait[m], v.prio) /\ Members(x.wait[m]) = Members(v.wait[m]) \cup {t}
  BY <1>3, <1>9, QueuedInOrder DEF SoundBut
<1>11. ASSUME NEW k \in WaitLists \ {m} PROVE v.wait[k] = y.wait[k]
  <2>1. ~InWait(y, t, k)
    BY <1>1 DEF Sound, Placed
  <2> QED BY <1>2, <1>3, <2>1 DEF InWait
<1>12. t \in Members(q)
  BY <1>5 DEF InWait
<1> QED BY <1>2, <1>3, <1>4, <1>5, <1>6, <1>7, <1>10, <1>11, <1>12

\* The first waiter stays, or is the one that was raised.
LEMMA FirstAfter ==
  ASSUME NEW z, Sound(z), NEW x, Sound(x), NEW m \in Mutexes, NEW t \in Threads,
         Rising(z.wait[m], z.prio), Rising(x.wait[m], x.prio),
         Members(x.wait[m]) = Members(z.wait[m]) \cup {t},
         \A u \in Members(z.wait[m]) \ {t} : x.prio[u] = z.prio[u],
         t \in Members(z.wait[m]) => x.prio[t] < z.prio[t]
  PROVE  FirstPrio(x, m) = IF x.prio[t] < FirstPrio(z, m) THEN x.prio[t] ELSE FirstPrio(z, m)
<1>1. PICK a \in Nat : a = FirstPrio(z, m)
  BY FirstIsLeast
<1>2. PICK b \in Nat : b = FirstPrio(x, m)
  BY FirstIsLeast
<1>3. PICK p \in Nat : p = x.prio[t]
  BY FirstIsLeast
<1>4. b <= p
  BY <1>2, <1>3, FirstIsLeast
<1>5. x.wait[m] # <<>>
  <2>1. t \in Members(x.wait[m])
    OBVIOUS
  <2> QED BY <2>1 DEF Members
<1>6. PICK u \in Members(x.wait[m]) : b = x.prio[u]
  BY <1>2, <1>5, FirstIsLeast
<1>7. u # t => a <= b
  BY <1>1, <1>6, FirstIsLeast
<1>8. b <= a
  <2>1. CASE z.wait[m] = <<>>
    <3>1. a = NoPrio
      BY <1>1, <2>1, FirstIsLeast DEF Members
    <3>2. p < NoPrio
      <4>1. x.prio[t] \in Prios
        BY InLists DEF Sound, SchedType
      <4> QED BY <1>3, <4>1, MutexAssumption DEF Prios
    <3>3. NoPrio \in Nat
      BY MutexAssumption
    <3> QED BY <1>4, <3>1, <3>2, <3>3
  <2>2. CASE z.wait[m] # <<>>
    <3>1. PICK v \in Members(z.wait[m]) : a = z.prio[v]
      BY <1>1, <2>2, FirstIsLeast
    <3>2. CASE v = t
      BY <1>3, <1>4, <3>1, <3>2
    <3>3. CASE v # t
      <4>1. b <= x.prio[v] /\ x.prio[v] = a
        BY <1>2, <3>1, <3>3, FirstIsLeast
      <4> QED BY <4>1
    <3> QED BY <3>2, <3>3
  <2> QED BY <2>1, <2>2
<1>9. b = IF p < a THEN p ELSE a
  BY <1>3, <1>4, <1>6, <1>7, <1>8
<1> QED BY <1>1, <1>2, <1>3, <1>9

\* Of the mutexes only the priority of m is not what it was.
ButPrioOf(x, y, m) ==
  MxType(x) /\ x.taken = y.taken /\ \A k \in Mutexes \ {m} : x.prio[k] = y.prio[k]

\* And it is p where that is higher.
RaisedTo(x, y, m, p) ==
  ButPrioOf(x, y, m) /\ x.prio[m] = IF p < y.prio[m] THEN p ELSE y.prio[m]

\* The owner of the mutex is next, unless it has the priority it should have.
LEMMA OwnerIsNext ==
  ASSUME NEW y, MxType(y), NEW up \in Threads, NEW m \in y.taken[up], NEW c \in Nat,
         Level(y, up, c), NEW p \in Nat, NEW x, RaisedTo(x, y, m, p)
  PROVE  LET b == thread_get_mutex_priority(x, up)
         IN b = c \/ (b = p /\ p < c /\ Level(x, up, p))
<1>2. ButPrioOf(x, y, m) /\ x.prio[m] = IF p < y.prio[m] THEN p ELSE y.prio[m]
  BY DEF RaisedTo
<1>1. y.taken[up] \subseteq Mutexes
  BY DEF MxType
<1>6. MxType(x) /\ x.taken = y.taken
  BY <1>2 DEF ButPrioOf
<1>3. y.prio[m] \in Nat
  BY <1>1, PrioNat
<1>4. CASE p < y.prio[m]
  <2>1. x.prio[m] = p
    BY <1>2, <1>4
  <2>2. \A k \in y.taken[up] \ {m} : x.prio[k] = y.prio[k]
    BY <1>1, <1>2 DEF ButPrioOf
  <2>3. (c <= p => Level(x, up, c)) /\ (p < c => Level(x, up, p))
    BY <1>1, <1>4, <1>6, <2>1, <2>2, RaisedLevel
  <2>4. CASE c <= p
    BY <1>6, <2>3, <2>4, LevelIs
  <2>5. CASE p < c
    BY <1>6, <2>3, <2>5, LevelIs
  <2> QED BY <2>4, <2>5
<1>5. CASE ~(p < y.prio[m])
  <2>1. Level(x, up, c)
    <3>1. \A k \in y.taken[up] : y.prio[k] = x.prio[k]
      BY <1>1, <1>2, <1>5 DEF ButPrioOf
    <3> QED BY <1>6, <3>1, SameLevel
  <2> QED BY <1>6, <2>1, LevelIs
<1> QED BY <1>4, <1>5

(* A mutex gets a waiter, or a waiter a higher priority: what is new is    *)
(* the priority of the mutex.                                              *)
LEMMA OthersAsBefore ==
  ASSUME NEW z, NEW y, MxType(y), Linked(z, y), NEW m \in Mutexes, NEW x,
         ButPrioOf(x, y, m), NEW u \in Threads, y.owner[m] # u, NEW p,
         Level(y, u, p)
  PROVE  Level(x, u, p)
<1>1. y.taken[u] \subseteq Mutexes \ {m}
  BY DEF Linked, MxType
<1>2. x.taken = y.taken /\ \A k \in y.taken[u] : y.prio[k] = x.prio[k]
  BY <1>1 DEF ButPrioOf
<1> QED BY <1>2, SameLevel

\* The chain goes on to the owner of the mutex.
LEMMA WalkGoesOn ==
  ASSUME NEW k, UpdateType(k), Sound(k.z), Linked(k.z, k.y), NEW p, Walk(k, p),
         NEW t \in Threads, k.t = t, NEW z, PrioChanged(k.z, z, t, p), NEW m \in Mutexes,
         k.y.pend[t] = m, NEW v, v = Unlink(z, t), NEW zq, Sound(zq), zq.prio = z.prio,
         zq = ipc_list_suspend(v, m, t, "PRIO"),
         NEW y, MxType(y), y = [k.y EXCEPT !.prio[m] = FirstPrio(zq, m)],
         NEW up \in Threads, up = k.y.owner[m], NEW b, b = thread_get_mutex_priority(y, up),
         NEW x, x = [z |-> zq, y |-> y, t |-> IF b = zq.prio[up] THEN None ELSE up, p |-> b]
  PROVE  Stepped(k, x, p)
<1>1. None \notin Threads /\ t \in AllThreads /\ up \in AllThreads /\ m \in WaitLists
  BY MutexAssumption, InLists
<1>2. p \in Prios /\ p \in Nat /\ p < k.z.prio[t] /\ Level(k.y, t, p)
  <2>1. k.t # None
    BY <1>1
  <2> QED BY <2>1, ThreadAssumption DEF UpdateType, Walk, Prios
<1>3. /\ z.prio[t] = p /\ \A u \in AllThreads \ {t} : z.prio[u] = k.z.prio[u]
      /\ z.wait = k.z.wait
  BY <1>1 DEF PrioChanged, Sound, SchedType
<1>4. InWait(k.z, t, m) /\ up # t
  BY DEF Linked
<1>5. PICK kz : kz = k.z
  OBVIOUS
<1>6. Rising(kz.wait[m], kz.prio)
  BY <1>5 DEF Walk, InOrder
<1>7. /\ \A l \in WaitLists \ {m} : zq.wait[l] = kz.wait[l]
      /\ Rising(zq.wait[m], z.prio) /\ Members(zq.wait[m]) = Members(kz.wait[m])
  BY <1>2, <1>4, <1>5, <1>6, Requeues
<1>8. PICK ky : ky = k.y /\ MxType(ky)
  BY DEF UpdateType
<1>9. /\ y.owner = ky.owner /\ y.taken = ky.taken /\ y.pend = ky.pend
      /\ y.prio[m] = FirstPrio(zq, m) /\ \A l \in Mutexes \ {m} : y.prio[l] = ky.prio[l]
  BY <1>8 DEF MxType
<1>17. ButPrioOf(y, ky, m)
  BY <1>9 DEF ButPrioOf
<1>10. t \in Members(kz.wait[m]) /\ \A u \in Members(kz.wait[m]) : u \in Threads
  <2>1. kz.wait[m] \in Seq(Threads)
    BY <1>1, <1>5 DEF Sound, SchedType
  <2> QED BY <1>4, <1>5, <2>1 DEF InWait, Members
<1>11. y.prio[m] = IF p < ky.prio[m] THEN p ELSE ky.prio[m]
  <2>1. ky.prio[m] = FirstPrio(kz, m)
    BY <1>5, <1>8 DEF Walk, InOrder
  <2>2. \A u \in Members(kz.wait[m]) \ {t} : zq.prio[u] = kz.prio[u]
    BY <1>3, <1>5, <1>10, InLists
  <2>3. Rising(zq.wait[m], zq.prio) /\ Members(zq.wait[m]) = Members(kz.wait[m]) \cup {t}
    BY <1>7, <1>10
  <2>4. zq.prio[t] = p /\ zq.prio[t] < kz.prio[t] /\ Sound(kz)
    BY <1>2, <1>3, <1>5
  <2> QED BY <1>6, <1>9, <2>1, <2>2, <2>3, <2>4, FirstAfter
<1>12. ASSUME NEW l \in Mutexes PROVE InOrder(zq, y, l)
  <2>1. CASE l = m
    BY <1>7, <1>9, <2>1 DEF InOrder
  <2>2. CASE l # m
    <3>1. zq.wait[l] = kz.wait[l] /\ y.prio[l] = ky.prio[l] /\ Sound(kz)
      BY <1>5, <1>7, <1>9, <2>2, InLists
    <3>2. ~InWait(kz, t, l)
      BY <1>1, <1>4, <1>5, <2>2, InLists DEF Sound, Placed
    <3>3. \A u \in Members(zq.wait[l]) : u \in Threads /\ u # t
      <4>1. kz.wait[l] \in Seq(Threads)
        BY <1>5, InLists DEF Sound, SchedType
      <4>2. \A u \in Members(kz.wait[l]) : u \in Threads
        BY <4>1 DEF Members
      <4> QED BY <3>1, <3>2, <4>2 DEF InWait
    <3>4. \A u \in Members(zq.wait[l]) : zq.prio[u] = kz.prio[u]
      BY <1>3, <1>5, <3>3, InLists
    <3>5. /\ FirstPrio(zq, l) = FirstPrio(kz, l)
          /\ Rising(kz.wait[l], kz.prio) => Rising(zq.wait[l], zq.prio)
      BY <3>1, <3>4, SameFirst
    <3>6. InOrder(kz, ky, l)
      BY <1>5, <1>8 DEF Walk
    <3> QED BY <3>1, <3>5, <3>6 DEF InOrder
  <2> QED BY <2>1, <2>2
<1>13. ASSUME NEW u \in Threads \ {up} PROVE Level(y, u, zq.prio[u])
  <2>1. Level(ky, u, zq.prio[u])
    <3>1. CASE u = t
      BY <1>2, <1>3, <1>8, <3>1
    <3>2. CASE u # t
      BY <1>3, <1>8, <3>2, InLists DEF Walk
    <3> QED BY <3>1, <3>2
  <2>2. ky.owner[m] # u /\ Linked(kz, ky)
    BY <1>5, <1>8
  <2> QED BY <1>8, <1>17, <2>1, <2>2, OthersAsBefore
<1>14. b = zq.prio[up] \/ (b = p /\ p < zq.prio[up] /\ Level(y, up, p))
  <2>1. zq.prio[up] = kz.prio[up] /\ Level(ky, up, kz.prio[up])
    BY <1>1, <1>3, <1>4, <1>5, <1>8 DEF Walk
  <2>2. m \in ky.taken[up]
    BY <1>5, <1>8 DEF Linked
  <2>3. PICK c \in Nat : c = kz.prio[up]
    <3>1. Sound(kz)
      BY <1>5
    <3> QED BY <1>1, <3>1, ThreadPrio
  <2>4. RaisedTo(y, ky, m, p) /\ Level(ky, up, c) /\ MxType(ky) /\ p \in Nat
    BY <1>2, <1>8, <1>11, <1>17, <2>1, <2>3 DEF RaisedTo
  <2>5. PICK a : a = thread_get_mutex_priority(y, up)
    OBVIOUS
  <2>6. a = c \/ (a = p /\ p < c /\ Level(y, up, p))
    BY <2>2, <2>4, <2>5, OwnerIsNext
  <2> QED BY <2>1, <2>3, <2>5, <2>6
<1>15. Walk(x, p)
  <2>1. CASE b = zq.prio[up]
    <3>1. x.t = None /\ x.z = zq /\ x.y = y
      BY <2>1
    <3>2. Level(y, up, zq.prio[up])
      BY <2>1, LevelIs
    <3> QED BY <1>1, <1>12, <1>13, <3>1, <3>2 DEF Walk
  <2>2. CASE b # zq.prio[up]
    <3>1. x.t = up /\ x.z = zq /\ x.y = y /\ x.p = p
      BY <1>14, <2>2
    <3> QED BY <1>12, <1>13, <1>14, <2>2, <3>1 DEF Walk
  <2> QED BY <2>1, <2>2
<1>16. Below(x, p) = Below(k, p) \ {t}
  <2>1. ~(p < p) /\ x.z = zq
    BY <1>2
  <2> QED BY <1>3, <2>1, InLists DEF Below
<1> QED BY <1>15, <1>16 DEF Stepped

\* What it does to a thread that waits for a mutex.
LEMMA UpdateOneIs ==
  ASSUME NEW k, NEW i, NEW t, k.t = t, t # None, NEW z, z = ChangePriority(k.z, t, k.p),
         NEW m, m = k.y.pend[t], z.stat[t] = "suspend", m # None, NEW v, v = Unlink(z, t),
         NEW zq, zq = ipc_list_suspend(v, m, t, "PRIO"), NEW y,
         y = [k.y EXCEPT !.prio[m] = FirstPrio(zq, m)], NEW up, up = k.y.owner[m], NEW b,
         b = thread_get_mutex_priority(y, up)
  PROVE  UpdateOne(k, i) = [z |-> zq, y |-> y, t |-> IF b = zq.prio[up] THEN None ELSE up, p |-> b]
  BY DEF UpdateOne

\* One level of _thread_update_priority.
LEMMA UpdateOneWalks ==
  ASSUME NEW k, UpdateType(k), Sound(k.z), Linked(k.z, k.y), NEW p, Walk(k, p), k.t # None, NEW i
  PROVE  k.t \in Below(k, p) /\ Stepped(k, UpdateOne(k, i), p)
<1>1. PICK t \in Threads : t = k.t
  BY DEF UpdateType
<1>2. k.p = p /\ p < k.z.prio[t] /\ p \in Prios /\ t \in AllThreads
  BY <1>1, InLists DEF Walk, UpdateType
<1>3. t \in Below(k, p)
  BY <1>2 DEF Below
<1>4. PICK z : z = ChangePriority(k.z, t, p)
  OBVIOUS
<1>5. PrioChanged(k.z, z, t, p)
  <2>1. PICK kz : kz = k.z
    OBVIOUS
  <2>2. Sound(kz) /\ z = ChangePriority(kz, t, p)
    BY <1>4, <2>1
  <2>3. PrioChanged(kz, z, t, p)
    BY <1>2, <2>2, ChangePrioritySound
  <2> QED BY <2>1, <2>3
<1>6. PICK m \in Mutexes \cup {None} : m = k.y.pend[t]
  BY DEF UpdateType, MxType
<1>7. PICK x : x = UpdateOne(k, i)
  OBVIOUS
<1>8. CASE z.stat[t] # "suspend" \/ m = None
  <2>1. x = [k EXCEPT !.z = z, !.t = None]
    BY <1>1, <1>2, <1>4, <1>6, <1>7, <1>8 DEF UpdateOne
  <2>2. z.stat[t] # "suspend" \/ k.y.pend[t] = None
    BY <1>6, <1>8
  <2>3. k.t = t
    BY <1>1
  <2>4. Stepped(k, x, p)
    BY <1>5, <2>1, <2>2, <2>3, WalkEnds
  <2> QED BY <1>1, <1>3, <1>7, <2>4
<1>9. CASE z.stat[t] = "suspend" /\ m # None
  <2>1. m \in Mutexes /\ m \in WaitLists
    BY <1>9, InLists
  <2>2. InWait(k.z, t, m) /\ k.y.owner[m] \in Threads
    BY <1>6, <2>1 DEF Linked
  <2>3. PICK up \in Threads : up = k.y.owner[m]
    BY <2>2
  <2>4. PICK v : v = Unlink(z, t)
    OBVIOUS
  <2>5. PICK zq : zq = ipc_list_suspend(v, m, t, "PRIO")
    OBVIOUS
  <2>6. PICK y : y = [k.y EXCEPT !.prio[m] = FirstPrio(zq, m)]
    OBVIOUS
  <2>7. PICK b : b = thread_get_mutex_priority(y, up)
    OBVIOUS
  <2>8. x = [z |-> zq, y |-> y, t |-> IF b = zq.prio[up] THEN None ELSE up, p |-> b]
    <3>1. k.t = t /\ t # None /\ z = ChangePriority(k.z, t, k.p) /\ m = k.y.pend[t]
      BY <1>1, <1>2, <1>4, <1>6
    <3> QED BY <1>7, <1>9, <2>3, <2>4, <2>5, <2>6, <2>7, <3>1, UpdateOneIs
  <2>9. UpdateType(x) /\ Sound(x.z)
    BY <1>7, UpdateOneSound
  <2>10. Sound(zq) /\ MxType(y)
    <3>1. x.z = zq /\ x.y = y
      BY <2>8
    <3> QED BY <2>9, <3>1 DEF UpdateType
  <2>11. zq.prio = z.prio
    <3>1. PICK vp : vp = v.prio
      OBVIOUS
    <3>2. v.prio = z.prio /\ SoundBut(v, t) /\ v.stat = z.stat
      BY <1>2, <1>5, <2>4, UnlinkSound DEF PrioChanged
    <3>3. PutToWait(v, zq, t, m)
      BY <1>9, <2>1, <2>5, <3>2, SuspendSound
    <3> QED BY <3>2, <3>3 DEF PutToWait
  <2>12. k.t = t /\ k.y.pend[t] = m
    BY <1>1, <1>6
  <2>13. Stepped(k, x, p)
    BY <1>5, <2>1, <2>3, <2>4, <2>5, <2>6, <2>7, <2>8, <2>10, <2>11, <2>12, WalkGoesOn
  <2> QED BY <1>1, <1>3, <1>7, <2>13
<1> QED BY <1>6, <1>8, <1>9

\* The links do not change on the way.
LEMMA SameLinks ==
  ASSUME NEW z, NEW y, NEW k, SameButPrio(z, y, k), Linked(z, y)
  PROVE  Linked(k.z, k.y)
<1>1. PendWaits(z, y)
  BY DEF Linked, PendWaits
<1>2. \A t \in Threads : \A m \in Mutexes : InWait(k.z, t, m) <=> InWait(z, t, m)
  BY <1>1, InLists DEF SameButPrio
<1> QED BY <1>2 DEF Linked, SameButPrio

(* The chain of owners ends, also where it closes to a circle: no thread   *)
(* is raised twice, and there are as many levels as threads.               *)
LEMMA UpdateWalks ==
  ASSUME NEW z, Sound(z), NEW y, MxType(y), Linked(z, y), NEW t \in Threads, NEW p \in Prios,
         Walk([z |-> z, y |-> y, t |-> t, p |-> p], p)
  PROVE  LET x == thread_update_priority(z, y, t, p) IN Boosts(x.z, x.y)
<1>1. PICK c \in Nat : c = Cardinality(Threads)
  BY ThreadAssumption, FS_CardinalityType
<1>14. PICK n \in Nat : n = c + 1
  OBVIOUS
<1>2. PICK k : k = [z |-> z, y |-> y, t |-> t, p |-> p]
  OBVIOUS
<1>3. PICK x : x = thread_update_priority(z, y, t, p)
  OBVIOUS
<1>4. PICK g : UpdateFold(g, k, [i \in 1 .. n |-> i], n) /\ x = g[1 .. n]
  <2>1. x = FoldLeft(UpdateOne, k, [i \in 1 .. n |-> i])
    BY <1>1, <1>2, <1>3, <1>14 DEF thread_update_priority
  <2> QED BY <2>1, UpdateIsFold
<1> DEFINE P(a, I) == /\ UpdateType(a) /\ Sound(a.z) /\ Linked(a.z, a.y) /\ Walk(a, p)
                      /\ a.t # None => Cardinality(Below(a, p)) + Cardinality(I) <= c
           G == {I \in SUBSET (1 .. n) : P(g[I], I)}
<1>5. ASSUME NEW a PROVE /\ IsFiniteSet(Below(a, p)) /\ Cardinality(Below(a, p)) \in Nat
                         /\ Cardinality(Below(a, p)) <= c
  <2>1. Below(a, p) \in SUBSET Threads
    BY DEF Below
  <2> QED BY <1>1, <2>1, ThreadAssumption, FS_Subset, FS_CardinalityType
<1>6. ASSUME NEW I \in SUBSET (1 .. n) PROVE IsFiniteSet(I) /\ Cardinality(I) \in Nat
  <2>1. IsFiniteSet(1 .. n)
    BY FS_Interval
  <2> QED BY <2>1, FS_Subset, FS_CardinalityType
<1>7. {} \in G
  <2>1. g[{}] = k
    BY <1>4 DEF UpdateFold
  <2>2. UpdateType(k) /\ Sound(k.z) /\ Linked(k.z, k.y) /\ Walk(k, p)
    BY <1>2 DEF UpdateType
  <2>3. Cardinality(Below(k, p)) + Cardinality({}) <= c
    BY <1>1, <1>5, FS_EmptySet
  <2> QED BY <2>1, <2>2, <2>3
<1>8. ASSUME NEW I \in SUBSET (1 .. n), I # {}, I \ {Max(I)} \in G PROVE I \in G
  <2>1. PICK J : J = I \ {Max(I)} /\ J \in G
    BY <1>8
  <2>2. PICK i : g[I] = UpdateOne(g[J], i)
    BY <1>4, <1>8, <2>1 DEF UpdateFold
  <2>3. PICK a : a = g[J] /\ P(a, J)
    BY <2>1
  <2>4. PICK b : b = UpdateOne(a, i)
    OBVIOUS
  <2>5. UpdateType(b) /\ Sound(b.z) /\ Linked(b.z, b.y)
    <3>1. UpdateType(b) /\ Sound(b.z) /\ SameButPrio(a.z, a.y, b)
      BY <2>3, <2>4, UpdateOneSound
    <3>2. PICK az, ay : az = a.z /\ ay = a.y
      OBVIOUS
    <3>3. Linked(az, ay) /\ SameButPrio(az, ay, b)
      BY <2>3, <3>1, <3>2
    <3> QED BY <3>1, <3>3, SameLinks
  <2>6. CASE a.t = None
    <3>1. b = a
      BY <2>4, <2>6 DEF UpdateOne
    <3> QED BY <2>2, <2>3, <2>4, <2>6, <3>1
  <2>7. CASE a.t # None
    <3>1. a.t \in Below(a, p) /\ Walk(b, p) /\ Below(b, p) = Below(a, p) \ {a.t}
      BY <2>3, <2>4, <2>7, UpdateOneWalks DEF Stepped
    <3>2. Cardinality(Below(b, p)) = Cardinality(Below(a, p)) - 1
      BY <1>5, <3>1, FS_RemoveElement
    <3>3. Max(I) \in I
      BY <1>8, LastOf
    <3>4. Cardinality(J) = Cardinality(I) - 1
      BY <1>6, <2>1, <3>3, FS_RemoveElement
    <3>5. Cardinality(Below(a, p)) + Cardinality(J) <= c
      BY <2>3, <2>7
    <3>6. Cardinality(Below(b, p)) + Cardinality(I) <= c
      BY <1>5, <1>6, <3>2, <3>4, <3>5
    <3> QED BY <2>2, <2>3, <2>4, <2>5, <3>1, <3>6
  <2> QED BY <2>6, <2>7
<1> HIDE DEF G
<1>9. 1 .. n \in G
  BY <1>7, <1>8, Folded
<1>10. P(x, 1 .. n)
  BY <1>4, <1>9 DEF G
<1>11. x.t = None
  <2>1. Cardinality(1 .. n) = c + 1
    BY <1>14, FS_Interval
  <2> QED BY <1>5, <1>10, <2>1
<1>12. Walk(x, p) /\ None \notin Threads
  BY <1>10, MutexAssumption, InLists
<1>13. Boosts(x.z, x.y)
  BY <1>11, <1>12 DEF Walk, Boosts
<1> QED BY <1>3, <1>13

\* Same priorities, same lists.
LEMMA QuietBoosts ==
  ASSUME NEW z, NEW y, Boosts(z, y), NEW x, NEW v, x.prio = z.prio,
         \A m \in Mutexes : x.wait[m] = z.wait[m], v.prio = y.prio, v.taken = y.taken
  PROVE  Boosts(x, v)
  BY DEF Boosts, Level, InOrder, FirstPrio

\* Who waits for and who has a mutex, as walks over owners need it.
LEMMA LinkedNow == MutexInv => Linked(s, mx)
<1> SUFFICES ASSUME MutexInv, NEW t \in Threads, NEW m \in Mutexes
             PROVE  /\ InWait(s, t, m) <=> mx.pend[t] = m
                    /\ m \in mx.taken[t] <=> mx.owner[m] = t
                    /\ InWait(s, t, m) => mx.owner[m] \in Threads \ {t}
  BY DEF Linked
<1>1. Claimed(t, m) /\ Queued(t, m) /\ mx.owner[m] \in Threads \cup {None}
  BY DEF MutexInv, MxType
<1> QED BY <1>1 DEF Claimed, Queued

\* A timeout leaves the lists the thread is not in alone.
LEMMA TimeoutLeaves ==
  ASSUME NEW z, Sound(z), NEW t \in z.timer, NEW m \in WaitLists, ~InWait(z, t, m)
  PROVE  thread_timeout(z, t).wait[m] = z.wait[m]
<1>1. t \in AllThreads
  BY DEF Sound, SchedType
<1>2. PICK y : y = Unlink(z, t)
  OBVIOUS
<1>3. SoundBut(y, t) /\ y.wait[m] = z.wait[m]
  BY <1>1, <1>2, UnlinkSound
<1>4. PICK v : v = [y EXCEPT !.timer = @ \ {t}, !.err[t] = "ERROR"]
  OBVIOUS
<1>5. PICK x : x = rt_schedule_insert_thread(v, t)
  OBVIOUS
<1>6. v.wait = y.wait /\ v = [v EXCEPT !.wait = y.wait] /\ "wait" \in DOMAIN v
  BY <1>3, <1>4 DEF SoundBut, SchedType
<1>7. x.wait = v.wait
  <2>1. CASE t = v.cur
    <3>1. x = [v EXCEPT !.stat[t] = "running"]
      BY <1>5, <2>1 DEF rt_schedule_insert_thread
    <3> QED BY <1>6, <3>1
  <2>2. CASE t # v.cur
    <3>1. x = Insert(v, t)
      BY <1>5, <2>2 DEF rt_schedule_insert_thread
    <3> QED BY <1>6, <3>1 DEF Insert
  <2> QED BY <2>1, <2>2
<1>8. thread_timeout(z, t) = x
  BY <1>2, <1>4, <1>5 DEF thread_timeout
<1> QED BY <1>3, <1>6, <1>7, <1>8

\* Ticks, timeouts, calls of rt_schedule and sleeping change no priority and no list of a mutex.
LEMMA ThreadBoosts ==
  ASSUME Sound(s), MutexInv, Boosts(s, mx), ThreadStep, mx' = mx
  PROVE  Boosts(s', mx')
<1>1. ASSUME s'.prio = s.prio, \A m \in Mutexes : s'.wait[m] = s.wait[m] PROVE Boosts(s', mx')
  <2>1. mx'.prio = mx.prio /\ mx'.taken = mx.taken
    OBVIOUS
  <2> QED BY <1>1, <2>1, QuietBoosts
<1>2. CASE s' = rt_schedule([s EXCEPT !.yield = @ \cup {s.cur}])
  <2>1. PICK z : z = [s EXCEPT !.yield = s.yield \cup {s.cur}]
    OBVIOUS
  <2>2. s.yield \cup {s.cur} \in SUBSET AllThreads
    BY DEF Sound, SchedType
  <2>3. Sound(z) /\ z.wait = s.wait /\ z.prio = s.prio
    BY <2>1, <2>2, YieldSound
  <2>4. s'.wait = s.wait /\ s'.prio = s.prio
    BY <1>2, <2>1, <2>3, ScheduleSound
  <2> QED BY <1>1, <2>4
<1>3. ASSUME NEW t \in s.timer, s' = rt_schedule(thread_timeout(s, t)) PROVE Boosts(s', mx')
  <2>1. PICK z : z = thread_timeout(s, t)
    OBVIOUS
  <2>2. TimedOut(s, z, t)
    BY <2>1, TimeoutSound
  <2>3. Sound(z) /\ z.prio = s.prio
    BY <2>2 DEF TimedOut
  <2>4. s'.wait = z.wait /\ s'.prio = z.prio
    BY <1>3, <2>1, <2>3, ScheduleSound
  <2>5. ASSUME NEW m \in Mutexes PROVE z.wait[m] = s.wait[m]
    <3>1. ~InWait(s, t, m)
      <4>1. CASE t \in Threads
        BY <4>1 DEF MutexInv, Queued
      <4>2. CASE t \notin Threads
        <5>1. s.wait[m] \in Seq(Threads)
          BY InLists DEF Sound, SchedType
        <5> QED BY <4>2, <5>1 DEF InWait, Members
      <4> QED BY <4>1, <4>2
    <3> QED BY <2>1, <3>1, InLists, TimeoutLeaves
  <2> QED BY <1>1, <2>3, <2>4, <2>5
<1>4. ASSUME NEW t \in Threads, CallSchedule(t) PROVE Boosts(s', mx')
  <2>1. s'.wait = s.wait /\ s'.prio = s.prio
    BY <1>4, ScheduleSound DEF CallSchedule
  <2> QED BY <1>1, <2>1
<1>5. ASSUME NEW t \in Threads, Sleep(t) PROVE Boosts(s', mx')
  <2>1. s' = StartTimer(rt_thread_suspend([s EXCEPT !.err[t] = "ERROR"], t), t)
    BY <1>5 DEF Sleep
  <2>2. s'.wait = s.wait /\ s'.prio = s.prio
    BY <2>1 DEF StartTimer, rt_thread_suspend, Sound, SchedType
  <2> QED BY <1>1, <2>2
<1>6. ASSUME NEW t \in Threads, SleepOver(t) PROVE Boosts(s', mx')
  <2>1. s'.wait = s.wait /\ s'.prio = s.prio
    BY <1>6 DEF SleepOver, Sound, SchedType
  <2> QED BY <1>1, <2>1
<1> QED BY <1>2, <1>3, <1>4, <1>5, <1>6 DEF ThreadStep, Tick

\* The first to wait for a free mutex would have the lowest priority of all.
LEMMA TakeFreeBoosts ==
  ASSUME Sound(s), MutexInv, Boosts(s, mx), NEW t \in Threads, NEW m \in Mutexes,
         mx.owner[m] = None,
         mx' = [mx EXCEPT !.owner[m] = t, !.prio[m] = NoPrio, !.hold[m] = 1,
                          !.taken[t] = @ \cup {m}, !.CLAIMS[m][t] = @ + 1], s' = s
  PROVE  Boosts(s', mx')
<1>1. MxType(mx) /\ Linked(s, mx) /\ None \notin Threads
  BY LinkedNow, MutexAssumption, InLists DEF MutexInv
<1>2. s.wait[m] = <<>> /\ mx.prio[m] = NoPrio
  <2>1. PICK q \in Seq(Threads) : q = s.wait[m]
    BY InLists DEF Sound, SchedType
  <2>2. ASSUME q # <<>> PROVE FALSE
    <3>1. q[1] \in Threads /\ 1 \in DOMAIN q
      BY <2>2
    <3>2. InWait(s, q[1], m)
      BY <2>1, <3>1 DEF InWait, Members
    <3> QED BY <1>1, <3>1, <3>2 DEF Linked
  <2>3. mx.prio[m] = FirstPrio(s, m)
    BY DEF Boosts, InOrder
  <2> QED BY <2>1, <2>2, <2>3 DEF FirstPrio
<1>3. /\ mx'.prio = mx.prio /\ mx'.taken[t] = mx.taken[t] \cup {m}
      /\ \A u \in Threads \ {t} : mx'.taken[u] = mx.taken[u]
  BY <1>1, <1>2 DEF MxType
<1>4. ASSUME NEW u \in Threads PROVE Level(mx', u, s.prio[u])
  <2>1. Level(mx, u, s.prio[u])
    BY DEF Boosts
  <2>2. CASE u = t
    <3>1. s.prio[t] <= NoPrio
      <4>1. s.prio[t] <= InitPrio[t] /\ s.prio[t] \in Nat /\ InitPrio[t] \in Nat
            /\ InitPrio[t] < NoPrio /\ NoPrio \in Nat
        BY <1>1, <2>1, <2>2, InLists, ThreadPrio, PrioNat DEF Level
      <4> QED BY <4>1
    <3> QED BY <1>2, <1>3, <2>1, <2>2, <3>1 DEF Level
  <2>3. CASE u # t
    BY <1>3, <2>1, <2>3 DEF Level
  <2> QED BY <2>2, <2>3
<1>5. ASSUME NEW k \in Mutexes PROVE InOrder(s', mx', k)
  BY <1>3 DEF Boosts, InOrder, FirstPrio
<1> QED BY <1>4, <1>5 DEF Boosts

\* What the mutexes are when t starts to wait for m.
BlockedMx(y, t, m, q) ==
  /\ MxType(y) /\ y.owner = mx.owner /\ y.taken = mx.taken
  /\ y.prio[m] = q /\ \A k \in Mutexes \ {m} : y.prio[k] = mx.prio[k]
  /\ \A u \in Threads : y.pend[u] = IF u = t THEN m ELSE mx.pend[u]

\* It is what rt_mutex_take makes of them.
LEMMA BlockedIs ==
  ASSUME MxType(mx), NEW t \in Threads, NEW m \in Mutexes, NEW q \in Prios \cup {NoPrio},
         NEW y, y = [mx EXCEPT !.pend[t] = m, !.prio[m] = q]
  PROVE  BlockedMx(y, t, m, q)
<1> DEFINE pend == [mx.pend EXCEPT ![t] = m]
           prio == [mx.prio EXCEPT ![m] = q]
<1>1. y = [owner |-> mx.owner, hold |-> mx.hold, prio |-> prio, taken |-> mx.taken,
           pend |-> pend, CLAIMS |-> mx.CLAIMS]
  <2>1. y = [mx EXCEPT !.pend = pend, !.prio = prio]
    OBVIOUS
  <2> HIDE DEF pend, prio
  <2> QED BY <2>1 DEF MxType
<1>2. /\ pend \in [Threads -> Mutexes \cup {None}] /\ prio \in [Mutexes -> Prios \cup {NoPrio}]
      /\ \A u \in Threads : pend[u] = IF u = t THEN m ELSE mx.pend[u]
      /\ prio[m] = q /\ \A k \in Mutexes \ {m} : prio[k] = mx.prio[k]
  BY DEF MxType
<1> HIDE DEF pend, prio
<1>3. /\ y.owner = mx.owner /\ y.hold = mx.hold /\ y.prio = prio /\ y.taken = mx.taken
      /\ y.pend = pend /\ y.CLAIMS = mx.CLAIMS
  <2>1. PICK r : r = [owner |-> mx.owner, hold |-> mx.hold, prio |-> prio, taken |-> mx.taken,
                      pend |-> pend, CLAIMS |-> mx.CLAIMS]
    OBVIOUS
  <2>2. /\ r.owner = mx.owner /\ r.hold = mx.hold /\ r.prio = prio /\ r.taken = mx.taken
        /\ r.pend = pend /\ r.CLAIMS = mx.CLAIMS
    BY <2>1
  <2>3. y = r
    BY <1>1, <2>1
  <2> QED BY <2>2, <2>3
<1>4. MxType(y)
  BY <1>1, <1>2, <1>3 DEF MxType
<1> QED BY <1>2, <1>3, <1>4 DEF BlockedMx

\* The walk starts when a waiter is more urgent than the owner.
LEMMA BlockBoosts ==
  ASSUME Sound(s), MutexInv, Boosts(s, mx), NEW t \in Threads, NEW m \in Mutexes, InUser(t),
         mx.owner[m] \notin {t, None}, NEW z, NEW p, NEW raised, NEW y, NEW end,
         Blocking(t, m, z, p, raised, y, end), raised <=> p < mx.prio[m]
  PROVE  Boosts(s', mx')
<1>1. MxType(mx) /\ Linked(s, mx) /\ AllHis(t)
  BY UserOwns, LinkedNow DEF MutexInv
<1>2. t \in AllThreads /\ m \in WaitLists /\ None \notin Threads
  BY MutexAssumption, InLists
<1>3. SoundBut(s, t) /\ t = s.cur
  BY <1>1, <1>2, RunningLoose DEF AllHis
<1>4. z = ipc_list_suspend(s, m, t, "PRIO") /\ p = s.prio[t] /\ raised \in BOOLEAN
  BY DEF Blocking
<1>5. PutToWait(s, z, t, m)
  BY <1>2, <1>3, <1>4, SuspendSound
<1>6. /\ Sound(z) /\ z.prio = s.prio
      /\ \A u \in AllThreads : \A k \in WaitLists :
           InWait(z, u, k) <=> InWait(s, u, k) \/ (u = t /\ k = m)
  BY <1>5 DEF PutToWait
<1>7. p \in Prios /\ p \in Nat
  BY <1>2, <1>4, ThreadPrio
<1>8. PICK q \in Prios \cup {NoPrio} : q = IF raised THEN p ELSE mx.prio[m]
  BY <1>1, <1>7 DEF MxType
<1>9. BlockedMx(y, t, m, q)
  <2>1. y = [mx EXCEPT !.pend[t] = m, !.prio[m] = q]
    BY <1>8 DEF Blocking
  <2> QED BY <1>1, <2>1, BlockedIs
<1>10. MxType(y) /\ RaisedTo(y, mx, m, p)
  BY <1>4, <1>8, <1>9 DEF BlockedMx, RaisedTo, ButPrioOf
<1>11. Linked(z, y)
  <2> SUFFICES ASSUME NEW u \in Threads, NEW k \in Mutexes
               PROVE  /\ InWait(z, u, k) <=> y.pend[u] = k
                      /\ k \in y.taken[u] <=> y.owner[k] = u
                      /\ InWait(z, u, k) => y.owner[k] \in Threads \ {u}
    BY DEF Linked
  <2>1. /\ InWait(s, u, k) <=> mx.pend[u] = k
        /\ k \in mx.taken[u] <=> mx.owner[k] = u
        /\ InWait(s, u, k) => mx.owner[k] \in Threads \ {u}
    BY <1>1 DEF Linked
  <2>2. InWait(z, u, k) <=> InWait(s, u, k) \/ (u = t /\ k = m)
    BY <1>6, InLists
  <2>3. ~InWait(s, t, k)
    BY <1>1 DEF AllHis
  <2>4. mx.owner[m] \in Threads \ {t}
    BY <1>1 DEF MxType
  <2> QED BY <1>9, <2>1, <2>2, <2>3, <2>4 DEF BlockedMx
<1>12. /\ \A k \in WaitLists \ {m} : z.wait[k] = s.wait[k]
       /\ Rising(z.wait[m], s.prio) /\ Members(z.wait[m]) = Members(s.wait[m]) \cup {t}
  <2>1. ~InWait(s, t, m) /\ Rising(s.wait[m], s.prio)
    BY <1>1 DEF AllHis, Boosts, InOrder
  <2>2. SchedType(s) /\ Lists(s)
    BY DEF Sound
  <2> QED BY <1>4, <2>1, <2>2, QueuedInOrder
<1>13. ASSUME NEW k \in Mutexes PROVE InOrder(z, y, k)
  <2>1. CASE k = m
    <3>1. Rising(s.wait[m], s.prio) /\ mx.prio[m] = FirstPrio(s, m)
      BY DEF Boosts, InOrder
    <3>2. ~InWait(s, t, m)
      BY <1>1 DEF AllHis
    <3>3. FirstPrio(z, m) = IF z.prio[t] < FirstPrio(s, m) THEN z.prio[t] ELSE FirstPrio(s, m)
      <4>1. Rising(z.wait[m], z.prio) /\ \A u \in Members(s.wait[m]) \ {t} : z.prio[u] = s.prio[u]
        BY <1>6, <1>12
      <4>2. t \notin Members(s.wait[m])
        BY <3>2 DEF InWait
      <4> QED BY <1>6, <1>12, <3>1, <4>1, <4>2, FirstAfter
    <3> QED BY <1>4, <1>6, <1>10, <1>12, <2>1, <3>1, <3>3 DEF InOrder, RaisedTo
  <2>2. CASE k # m
    BY <1>6, <1>9, <1>12, <2>2, InLists DEF Boosts, InOrder, FirstPrio, BlockedMx
  <2> QED BY <2>1, <2>2
<1>14. PICK up \in Threads : up = mx.owner[m] /\ up # t
  BY <1>1 DEF MxType
<1>15. ButPrioOf(y, mx, m) /\ Level(mx, up, s.prio[up])
  BY <1>10 DEF RaisedTo, Boosts
<1>16. ASSUME NEW u \in Threads \ {up} PROVE Level(y, u, z.prio[u])
  <2>1. Level(mx, u, s.prio[u]) /\ mx.owner[m] # u
    BY <1>14 DEF Boosts
  <2>2. Level(y, u, s.prio[u])
    BY <1>1, <1>15, <2>1, OthersAsBefore
  <2> QED BY <1>6, <2>2
<1>17. PICK c \in Nat : c = s.prio[up]
  BY InLists, ThreadPrio
<1>18. m \in mx.taken[up]
  BY <1>1, <1>14 DEF Linked
<1>19. PICK a : a = thread_get_mutex_priority(y, up)
  OBVIOUS
<1>20. a = c \/ (a = p /\ p < c /\ Level(y, up, p))
  BY <1>1, <1>7, <1>10, <1>15, <1>17, <1>18, <1>19, OwnerIsNext
<1>21. CASE raised /\ p < c
  <2>1. Level(y, up, p)
    <3>1. y.prio[m] = p /\ p < mx.prio[m] /\ MxType(mx) /\ y.taken[up] = mx.taken[up]
      BY <1>1, <1>8, <1>9, <1>21 DEF BlockedMx
    <3>2. \A k \in mx.taken[up] \ {m} : y.prio[k] = mx.prio[k]
      BY <1>1, <1>9 DEF BlockedMx, MxType
    <3> QED BY <1>7, <1>15, <1>17, <1>18, <1>21, <3>1, <3>2, RaisedLevel
  <2>2. PICK k : k = [z |-> z, y |-> y, t |-> up, p |-> p]
    OBVIOUS
  <2>3. k.z = z /\ k.y = y /\ k.t = up /\ k.p = p
    BY <2>2
  <2>4. Walk(k, p)
    BY <1>6, <1>13, <1>16, <1>17, <1>21, <2>1, <2>3 DEF Walk
  <2>5. end = thread_update_priority(z, y, up, p)
    BY <1>14, <1>17, <1>21 DEF Blocking
  <2>6. Boosts(end.z, end.y)
    BY <1>6, <1>7, <1>10, <1>11, <2>2, <2>4, <2>5, UpdateWalks
  <2> QED BY <2>6 DEF Blocking
<1>22. CASE ~(raised /\ p < c)
  <2>1. end = [z |-> z, y |-> y]
    BY <1>14, <1>17, <1>22 DEF Blocking
  <2>2. Level(y, up, z.prio[up])
    <3>1. a = c
      <4>1. CASE ~raised
        <5>1. y.prio[m] = mx.prio[m]
          BY <1>8, <1>9, <4>1 DEF BlockedMx
        <5>2. y.taken[up] = mx.taken[up] /\ \A k \in mx.taken[up] : mx.prio[k] = y.prio[k]
          BY <1>1, <1>9, <5>1 DEF BlockedMx, MxType
        <5>3. Level(y, up, c)
          BY <1>15, <1>17, <5>2, SameLevel
        <5> QED BY <1>10, <1>17, <1>19, <5>3, LevelIs
      <4>2. CASE raised
        BY <1>20, <1>22, <4>2
      <4> QED BY <1>4, <4>1, <4>2
    <3> QED BY <1>6, <1>10, <1>17, <1>19, <3>1, LevelIs
  <2>3. Boosts(z, y)
    BY <1>13, <1>16, <2>2 DEF Boosts
  <2> QED BY <2>1, <2>3 DEF Blocking
<1> QED BY <1>21, <1>22

\* What the thread that gives up m runs at: what it should without m.
LEMMA DroppedLevel ==
  ASSUME Sound(s), MutexInv, Boosts(s, mx), NEW t \in Threads, NEW m \in Mutexes, mx.owner[m] = t,
         NEW y, y = [mx EXCEPT !.taken[t] = @ \ {m}],
         NEW z, z = IF s.prio[t] = mx.prio[m]
                    THEN ChangePriority(s, t, thread_get_mutex_priority(y, t)) ELSE s
  PROVE  /\ Level(y, t, z.prio[t]) /\ \A u \in AllThreads \ {t} : z.prio[u] = s.prio[u]
<1>1. MxType(mx) /\ t \in AllThreads
  BY InLists DEF MutexInv
<1>2. Less(y, t, m)
  BY <1>1, LessTaken
<1>3. MxType(y)
  BY <1>2 DEF Less
<1>4. PICK p \in Prios : p = thread_get_mutex_priority(y, t)
  BY <1>3, BasePrio
<1>5. CASE s.prio[t] = mx.prio[m]
  <2>1. z = ChangePriority(s, t, p)
    BY <1>4, <1>5
  <2>2. PrioChanged(s, z, t, p)
    BY <1>1, <2>1, ChangePrioritySound
  <2>3. z.prio[t] = p /\ \A u \in AllThreads \ {t} : z.prio[u] = s.prio[u]
    BY <1>1, <2>2 DEF PrioChanged, Sound, SchedType
  <2>4. Level(y, t, p)
    BY <1>3, <1>4, LevelIs
  <2> QED BY <2>3, <2>4
<1>6. CASE s.prio[t] # mx.prio[m]
  <2>1. y.taken[t] = mx.taken[t] \ {m} /\ y.prio = mx.prio
    BY <1>1, <1>2 DEF Less, MxType
  <2>2. Level(mx, t, s.prio[t])
    BY DEF Boosts
  <2>3. Level(y, t, s.prio[t])
    BY <1>6, <2>1, <2>2 DEF Level
  <2> QED BY <1>6, <2>3
<1> QED BY <1>5, <1>6

\* The last rt_mutex_release: the boost goes with the mutex, to the next owner.
LEMMA GiveUpBoosts ==
  ASSUME Sound(s), MutexInv, Boosts(s, mx), NEW t \in Threads, NEW m \in Mutexes, InUser(t),
         mx.owner[m] = t, GiveUp(t, m)
  PROVE  Boosts(s', mx')
<1>1. MxType(mx) /\ m \in WaitLists /\ AllHis(t) /\ Linked(s, mx) /\ None \notin Threads
  BY InLists, UserOwns, LinkedNow, MutexAssumption DEF MutexInv
<1>2. PICK y : y = [mx EXCEPT !.taken[t] = @ \ {m}]
  OBVIOUS
<1>3. PICK z : z = IF s.prio[t] = mx.prio[m]
                   THEN ChangePriority(s, t, thread_get_mutex_priority(y, t)) ELSE s
  OBVIOUS
<1>4. Sound(z) /\ z.wait = s.wait
  BY <1>1, <1>2, <1>3, Dropped
<1>5. Level(y, t, z.prio[t]) /\ \A u \in AllThreads \ {t} : z.prio[u] = s.prio[u]
  BY <1>2, <1>3, DroppedLevel
<1>6. Less(y, t, m)
  BY <1>1, <1>2, LessTaken
<1>7. /\ MxType(y) /\ y.prio = mx.prio /\ y.taken[t] = mx.taken[t] \ {m}
      /\ \A u \in Threads \ {t} : y.taken[u] = mx.taken[u]
      /\ \A u \in Threads : m \notin y.taken[u]
  <2>1. \A u \in Threads \ {t} : m \notin mx.taken[u]
    BY <1>1 DEF Linked
  <2> QED BY <1>1, <1>6, <2>1 DEF Less, MxType
<1>8. ASSUME NEW u \in Threads PROVE Level(y, u, z.prio[u])
  <2>1. CASE u = t
    BY <1>5, <2>1
  <2>2. CASE u # t
    BY <1>5, <1>7, <2>2, InLists DEF Boosts, Level
  <2> QED BY <2>1, <2>2
<1>9. ASSUME NEW k \in Mutexes
      PROVE  /\ InOrder(z, y, k) /\ FirstPrio(z, k) = FirstPrio(s, k)
             /\ \A u \in Members(z.wait[k]) : u \in Threads /\ u # t
  <2>1. ~InWait(s, t, k)
    BY <1>1 DEF AllHis
  <2>2. \A u \in Members(z.wait[k]) : u \in Threads /\ u # t
    <3>1. s.wait[k] \in Seq(Threads)
      BY InLists DEF Sound, SchedType
    <3>2. \A u \in Members(s.wait[k]) : u \in Threads
      BY <3>1 DEF Members
    <3> QED BY <1>4, <2>1, <3>2 DEF InWait
  <2>3. \A u \in Members(z.wait[k]) : z.prio[u] = s.prio[u]
    BY <1>5, <2>2, InLists
  <2>4. FirstPrio(z, k) = FirstPrio(s, k) /\ (Rising(s.wait[k], s.prio) => Rising(z.wait[k], z.prio))
    BY <1>4, <2>3, SameFirst
  <2>5. InOrder(s, mx, k)
    BY DEF Boosts
  <2> QED BY <1>7, <2>2, <2>4, <2>5 DEF InOrder
<1>10. CASE z.wait[m] = <<>>
  <2>1. /\ mx' = [y EXCEPT !.hold[m] = 0, !.owner[m] = None, !.prio[m] = NoPrio,
                           !.CLAIMS[m][t] = @ - 1]
        /\ s' = rt_schedule(z) \/ s' = z
    BY <1>2, <1>3, <1>10 DEF GiveUp
  <2>2. s'.wait = z.wait /\ s'.prio = z.prio
    BY <1>4, <2>1, ScheduleSound
  <2>3. y.prio[m] = NoPrio
    BY <1>9, <1>10 DEF InOrder, FirstPrio
  <2>4. mx'.prio = y.prio /\ mx'.taken = y.taken
    BY <1>7, <2>1, <2>3 DEF MxType
  <2>5. Boosts(z, y)
    BY <1>8, <1>9 DEF Boosts
  <2> QED BY <2>2, <2>4, <2>5, QuietBoosts
<1>11. CASE z.wait[m] # <<>>
  <2>1. PICK q \in Seq(Threads) : q = z.wait[m] /\ IsInjective(q)
    BY <1>1, <1>4 DEF Sound, SchedType, Lists
  <2>2. PICK u \in Threads : u = Head(z.wait[m]) /\ InWait(z, u, m) /\ u # t
    <3>1. q[1] = Head(q) /\ 1 \in DOMAIN q
      BY <1>11, <2>1
    <3>2. q[1] \in Members(q)
      BY <3>1 DEF Members
    <3> QED BY <1>9, <2>1, <3>1, <3>2 DEF InWait
  <2>3. PICK zu : zu = rt_thread_resume(z, u)
    OBVIOUS
  <2>4. z.stat[u] = "suspend" /\ u \in AllThreads
    BY <1>1, <1>4, <2>2, InLists DEF Sound, Placed
  <2>5. /\ Sound(zu) /\ zu.prio = z.prio
        /\ \A l \in WaitLists : ~InWait(z, u, l) => zu.wait[l] = z.wait[l]
        /\ \A l \in WaitLists : zu.wait[l] = RemoveFirst(z.wait[l], u)
    BY <1>4, <2>3, <2>4, ResumeSound
  <2>6. PICK first \in Prios \cup {NoPrio} : first = FirstPrio(zu, m)
    BY <2>5, FirstPrioType
  <2>7. /\ mx' = [y EXCEPT !.owner[m] = u, !.hold[m] = 1, !.taken[u] = @ \cup {m},
                           !.pend[u] = None, !.prio[m] = first, !.CLAIMS[m][t] = @ - 1]
        /\ s' = rt_schedule(zu)
    BY <1>2, <1>3, <1>11, <2>2, <2>3, <2>6 DEF GiveUp
  <2>8. s'.wait = zu.wait /\ s'.prio = z.prio
    BY <2>5, <2>7, ScheduleSound
  <2>9. /\ mx'.prio[m] = first /\ \A k \in Mutexes \ {m} : mx'.prio[k] = y.prio[k]
        /\ mx'.taken[u] = y.taken[u] \cup {m} /\ \A v \in Threads \ {u} : mx'.taken[v] = y.taken[v]
    BY <1>7, <2>7 DEF MxType
  <2>10. Rising(zu.wait[m], zu.prio)
    <3>1. Rising(q, z.prio)
      BY <1>9, <2>1 DEF InOrder
    <3> QED BY <1>1, <2>1, <2>5, <3>1, RemovedRises
  <2>11. z.prio[u] <= first
    <3>1. z.prio[u] = FirstPrio(z, m)
      BY <1>11, <2>2 DEF FirstPrio
    <3>2. CASE zu.wait[m] = <<>>
      <4>1. first = NoPrio /\ NoPrio \in Nat /\ z.prio[u] \in Prios
        BY <1>4, <2>4, <2>6, <3>2, ThreadPrio, MutexAssumption DEF FirstPrio
      <4>2. \A p \in Prios : p \in Nat /\ p <= NoPrio
        BY <4>1, MutexAssumption, ThreadAssumption DEF Prios
      <4> QED BY <4>1, <4>2
    <3>3. CASE zu.wait[m] # <<>>
      <4>1. PICK v \in Members(zu.wait[m]) : first = zu.prio[v]
        BY <2>5, <2>6, <2>10, <3>3, FirstIsLeast
      <4>2. v \in Members(z.wait[m])
        <5>1. Members(zu.wait[m]) = Members(q) \ {u}
          BY <1>1, <2>1, <2>5, RemovedFrom
        <5> QED BY <2>1, <4>1, <5>1
      <4>3. FirstPrio(z, m) <= z.prio[v]
        BY <1>4, <1>9, <4>2, FirstIsLeast DEF InOrder
      <4> QED BY <2>5, <3>1, <4>1, <4>3
    <3> QED BY <3>2, <3>3
  <2>12. ASSUME NEW v \in Threads PROVE Level(mx', v, s'.prio[v])
    <3>1. Level(y, v, z.prio[v]) /\ y.taken[v] \subseteq Mutexes \ {m}
      BY <1>7, <1>8 DEF MxType
    <3>2. CASE v = u
      <4>1. \A k \in y.taken[u] : mx'.prio[k] = y.prio[k]
        BY <2>9, <3>1, <3>2
      <4> QED BY <2>8, <2>9, <2>11, <3>1, <3>2, <4>1 DEF Level
    <3>3. CASE v # u
      BY <2>8, <2>9, <3>1, <3>3 DEF Level
    <3> QED BY <3>2, <3>3
  <2>13. ASSUME NEW k \in Mutexes PROVE InOrder(s', mx', k)
    <3>1. CASE k = m
      BY <2>5, <2>6, <2>8, <2>9, <2>10, <3>1 DEF InOrder, FirstPrio
    <3>2. CASE k # m
      <4>1. ~InWait(z, u, k)
        BY <1>1, <1>4, <2>2, <2>4, <3>2, InLists DEF Sound, Placed
      <4>2. s'.wait[k] = z.wait[k]
        BY <2>5, <2>8, <4>1, InLists
      <4> QED BY <1>9, <2>8, <2>9, <3>2, <4>2 DEF InOrder, FirstPrio
    <3> QED BY <3>1, <3>2
  <2> QED BY <2>12, <2>13 DEF Boosts
<1> QED BY <1>10, <1>11

\* Every mutex service.
LEMMA MutexBoosts ==
  ASSUME Sound(s), MutexInv, Boosts(s, mx), MutexStep
  PROVE  Boosts(s', mx')
<1>0. MxType(mx)
  BY DEF MutexInv
<1>1. ASSUME s' = s, mx'.prio = mx.prio, mx'.taken = mx.taken PROVE Boosts(s', mx')
  BY <1>1, QuietBoosts
<1>2. ASSUME NEW t \in Threads, NEW m \in Mutexes, rt_mutex_take(t, m) PROVE Boosts(s', mx')
  <2>1. InUser(t)
    BY <1>2 DEF rt_mutex_take
  <2>2. CASE mx.owner[m] = t
    <3>1. mx' = [mx EXCEPT !.hold[m] = @ + 1, !.CLAIMS[m][t] = @ + 1] /\ s' = s
      BY <1>2, <2>2, InLists, MutexAssumption DEF rt_mutex_take
    <3>2. mx'.prio = mx.prio /\ mx'.taken = mx.taken
      BY <1>0, <3>1 DEF MxType
    <3> QED BY <1>1, <3>1, <3>2
  <2>3. CASE mx.owner[m] = None
    <3>1. /\ mx' = [mx EXCEPT !.owner[m] = t, !.prio[m] = NoPrio, !.hold[m] = 1,
                              !.taken[t] = @ \cup {m}, !.CLAIMS[m][t] = @ + 1]
          /\ s' = s
      BY <1>2, <2>3, InLists, MutexAssumption DEF rt_mutex_take
    <3> QED BY <2>3, <3>1, TakeFreeBoosts
  <2>4. CASE mx.owner[m] \notin {t, None}
    <3>1. PICK z : z = ipc_list_suspend(s, m, t, "PRIO")
      OBVIOUS
    <3>2. PICK p : p = s.prio[t]
      OBVIOUS
    <3>3. PICK raised \in BOOLEAN : raised <=> p < mx.prio[m]
      OBVIOUS
    <3>4. PICK y : y = [mx EXCEPT !.pend[t] = m, !.prio[m] = IF raised THEN p ELSE @]
      OBVIOUS
    <3>5. PICK end : end = IF raised /\ p < s.prio[mx.owner[m]]
                           THEN thread_update_priority(z, y, mx.owner[m], p)
                           ELSE [z |-> z, y |-> y]
      OBVIOUS
    <3>6. y = [mx EXCEPT !.pend[t] = m, !.prio[m] = IF p < mx.prio[m] THEN p ELSE @]
      BY <3>3, <3>4
    <3>7. end = IF p < mx.prio[m] /\ p < s.prio[mx.owner[m]]
                THEN thread_update_priority(z, y, mx.owner[m], p)
                ELSE [z |-> z, y |-> y]
      BY <3>3, <3>5
    <3>8. /\ s' = end.z /\ mx' = end.y
          /\ th' = [th EXCEPT ![t] = [pc |-> "sched", op |-> "mutex_take", arg |-> m]]
      BY <1>2, <2>4, <3>1, <3>2, <3>6, <3>7, InLists, MutexAssumption DEF rt_mutex_take
    <3>9. Blocking(t, m, z, p, raised, y, end)
      BY <3>1, <3>2, <3>3, <3>4, <3>5, <3>8 DEF Blocking
    <3> QED BY <2>1, <2>4, <3>3, <3>9, BlockBoosts
  <2> QED BY <2>2, <2>3, <2>4
<1>3. ASSUME NEW t \in Threads, NEW m \in Mutexes, rt_mutex_release(t, m) PROVE Boosts(s', mx')
  <2>1. CASE mx' = [mx EXCEPT !.hold[m] = @ - 1, !.CLAIMS[m][t] = @ - 1] /\ s' = s
    <3>1. mx'.prio = mx.prio /\ mx'.taken = mx.taken
      BY <1>0, <2>1 DEF MxType
    <3> QED BY <1>1, <2>1, <3>1
  <2>2. CASE mx.hold[m] = 1 /\ GiveUp(t, m)
    BY <1>3, <2>2, GiveUpBoosts DEF rt_mutex_release
  <2> QED BY <1>3, <2>1, <2>2 DEF rt_mutex_release
<1>4. ASSUME NEW t \in Threads, mutex_taken(t) PROVE Boosts(s', mx')
  <2>1. mx'.prio = mx.prio /\ mx'.taken = mx.taken /\ s' = s
    BY <1>0, <1>4 DEF MxType, mutex_taken
  <2> QED BY <1>1, <2>1
<1> QED BY <1>2, <1>3, <1>4 DEF MutexStep

\* All threads start at their own priority.
LEMMA InitPriorities == ThreadInit => s.prio = InitPrio
<1> SUFFICES ASSUME ThreadInit PROVE s.prio = InitPrio
  OBVIOUS
<1>1. PICK z : /\ z = [cur |-> Idle,
                       stat |-> [t \in AllThreads |-> IF t = Idle THEN "running" ELSE "ready"],
                       prio |-> InitPrio,
                       ready |-> [p \in Prios |-> SetToSeq({t \in Threads : InitPrio[t] = p})],
                       wait |-> [l \in WaitLists |-> <<>>],
                       timer |-> {}, yield |-> {},
                       err |-> [t \in AllThreads |-> "EOK"]]
               /\ s = rt_schedule(z)
  BY DEF ThreadInit
<1>2. z.prio = InitPrio /\ "prio" \in DOMAIN z
  BY <1>1
<1> QED BY <1>1, <1>2 DEF rt_schedule, Unlink, Insert

\* KernelInv and the priorities.
BoostInv == KernelInv /\ (kind = "mutex" => Boosts(s, mx))

\* The system starts with no thread boosted and no one waiting.
LEMMA BoostInit == Init => BoostInv
<1> SUFFICES ASSUME Init PROVE Boosts(s, mx)
  BY KernelInit DEF BoostInv
<1>1. ThreadInit /\ mx = MutexObject
  BY DEF Init, IpcInit
<1>2. Sound(s) /\ \A l \in WaitLists : s.wait[l] = <<>>
  BY <1>1, InitSound
<1>3. s.prio = InitPrio
  BY <1>1, InitPriorities
<1>4. ASSUME NEW t \in Threads PROVE Level(mx, t, s.prio[t])
  <2>1. mx.taken[t] = {}
    BY <1>1 DEF MutexObject
  <2>2. InitPrio[t] \in Nat
    BY InLists, ThreadAssumption
  <2> QED BY <1>3, <2>1, <2>2 DEF Level
<1>5. ASSUME NEW m \in Mutexes PROVE InOrder(s, mx, m)
  <2>1. mx.prio[m] = NoPrio /\ s.wait[m] = <<>>
    BY <1>1, <1>2, InLists DEF MutexObject
  <2> QED BY <2>1 DEF InOrder, FirstPrio, Rising
<1> QED BY <1>4, <1>5 DEF Boosts

\* Every step of the kernel, whatever its kind, keeps the priorities.
LEMMA BoostNext ==
  ASSUME BoostInv, [Next]_kernelVars
  PROVE  BoostInv'
<1>1. KernelInv /\ KernelInv'
  BY KernelNext DEF BoostInv
<1>2. CASE kind \notin {"heap", "timer"} /\ IpcNext /\ UNCHANGED <<mx, h, w>>
  <2>1. kind' = kind
    BY <1>2 DEF IpcNext, IpcStep, ipcVars
  <2>2. ASSUME kind = "mutex" PROVE Boosts(s', mx')
    <3>1. ThreadStep
      BY <1>2, <2>2 DEF IpcNext, IpcStep
    <3> QED BY <1>1, <1>2, <2>2, <3>1, ThreadBoosts DEF KernelInv, BoostInv
  <2> QED BY <1>1, <2>1, <2>2 DEF BoostInv
<1>3. CASE kind = "mutex" /\ MutexStep /\ UNCHANGED <<ipcVars, h, w>>
  <2>1. Boosts(s', mx')
    BY <1>1, <1>3, MutexBoosts DEF KernelInv, BoostInv
  <2> QED BY <1>1, <2>1 DEF BoostInv
<1>4. CASE UNCHANGED <<s, th, ipcVars, mx>>
  BY <1>1, <1>4 DEF BoostInv, Boosts, Level, InOrder, FirstPrio, ipcVars
<1> QED BY <1>2, <1>3, <1>4 DEF Next, kernelVars, ipcVars

\* Over the waiters themselves: what Boosts says of mutexes, the property says of threads.
LEMMA BoostsInherit ==
  ASSUME Sound(s), MutexInv, Boosts(s, mx)
  PROVE  PriorityInherited
<1>1. MxType(mx) /\ Linked(s, mx)
  BY LinkedNow DEF MutexInv
<1>2. ASSUME NEW m \in Mutexes PROVE WaitersInOrder(m)
  <2>1. PICK q \in Seq(Threads) : q = s.wait[m]
    BY InLists DEF Sound, SchedType
  <2>2. mx.prio[m] = FirstPrio(s, m) /\ Rising(q, s.prio) /\ DOMAIN q = 1 .. Len(q)
    BY <2>1 DEF Boosts, InOrder
  <2> QED BY <2>1, <2>2 DEF WaitersInOrder, Rising
<1>3. ASSUME NEW t \in Threads
      PROVE  s.prio[t] = Lowest({InitPrio[t]} \cup {s.prio[u] : u \in WaitingFor(t)})
  <2>1. PICK c \in Nat : c = s.prio[t]
    BY InLists, ThreadPrio
  <2>2. Level(mx, t, c) /\ mx.taken[t] \subseteq Mutexes
    BY <1>1, <2>1 DEF Boosts, MxType
  <2>3. PICK W : W = WaitingFor(t)
    OBVIOUS
  <2> DEFINE S == {InitPrio[t]} \cup {s.prio[u] : u \in W}
  <2>4. ASSUME NEW m \in mx.taken[t]
        PROVE  /\ c <= FirstPrio(s, m) /\ FirstPrio(s, m) \in Nat
               /\ FirstPrio(s, m) = mx.prio[m] /\ Rising(s.wait[m], s.prio)
    <3>1. mx.prio[m] = FirstPrio(s, m) /\ Rising(s.wait[m], s.prio)
      BY <2>2 DEF Boosts, InOrder
    <3> QED BY <2>2, <3>1, FirstIsLeast DEF Level
  <2>5. ASSUME NEW v \in S PROVE c <= v /\ v \in Nat
    <3>1. CASE v = InitPrio[t]
      BY <2>2, <3>1, InLists, ThreadAssumption DEF Level
    <3>2. CASE \E u \in W : v = s.prio[u]
      <4>3. PICK u \in W : v = s.prio[u]
        BY <3>2
      <4>1. PICK m \in mx.taken[t] : u \in Members(s.wait[m])
        BY <2>3 DEF WaitingFor
      <4>2. FirstPrio(s, m) <= v /\ v \in Nat
        BY <2>2, <2>4, <4>1, <4>3, FirstIsLeast
      <4> QED BY <2>4, <4>1, <4>2
    <3> QED BY <3>1, <3>2
  <2>6. c \in S
    <3>1. CASE c = InitPrio[t]
      BY <3>1
    <3>2. CASE c # InitPrio[t]
      <4>1. PICK m \in mx.taken[t] : c = FirstPrio(s, m)
        BY <2>2, <2>4, <3>2 DEF Level
      <4>2. c # NoPrio
        <5>1. InitPrio[t] \in Nat /\ InitPrio[t] < NoPrio /\ NoPrio \in Nat
          BY InLists, ThreadAssumption, MutexAssumption
        <5> QED BY <2>2, <5>1 DEF Level
      <4>3. PICK u \in Members(s.wait[m]) : c = s.prio[u]
        BY <2>2, <2>4, <4>1, <4>2, FirstIsLeast
      <4>4. u \in W
        BY <2>3, <4>1, <4>3 DEF WaitingFor
      <4> QED BY <4>3, <4>4
    <3> QED BY <3>1, <3>2
  <2> HIDE DEF S
  <2>7. Lowest(S) \in S /\ \A v \in S : Lowest(S) <= v
    BY <2>5, <2>6 DEF Lowest
  <2>8. Lowest(S) <= c /\ c <= Lowest(S) /\ Lowest(S) \in Nat
    BY <2>5, <2>6, <2>7
  <2>9. c = Lowest(S)
    BY <2>8
  <2> QED BY <2>1, <2>3, <2>9 DEF S
<1> QED BY <1>2, <1>3 DEF PriorityInherited

\* ipc.c, _thread_update_priority, rt_mutex_take and rt_mutex_release: a thread
\* runs at the highest priority among its own and those of the threads that wait
\* for a mutex it has, also through other mutexes, and gives the boost up with the
\* mutex; and the waiters of a mutex are in the order of their priorities.
THEOREM NoPriorityInversion == Spec => [](kind = "mutex" => PriorityInherited)
<1>1. Init => BoostInv
  BY BoostInit
<1>2. BoostInv /\ [Next]_kernelVars => BoostInv'
  BY BoostNext
<1>3. BoostInv => (kind = "mutex" => PriorityInherited)
  BY BoostsInherit DEF BoostInv, KernelInv
<1> QED BY <1>1, <1>2, <1>3, PTL DEF Spec
=============================================================================
