---------------------------- MODULE RtIpcProofs ----------------------------
(***************************************************************************)
(* The objects of RtIpc keep what they promise: messages in order, nothing *)
(* lost or given twice, no lost wake-up; for every number of threads,      *)
(* blocks, messages and permits, every priority, every queueing discipline *)
(* and every interleaving.                                                 *)
(*                                                                         *)
(* The first part is about the threads of any object.  Freed says which    *)
(* threads leave their lists and with which error code; Awake(op) are the  *)
(* threads that were woken for op with success and have not looked again.  *)
(* Every service is, for the threads, one of a few kinds of step: After (a *)
(* thread goes on), Blocked (it starts to wait), Woke (the first of a list *)
(* is awake), Reset (all are) or Quiet (nothing happens to the object).    *)
(* Enough(op, l, n), "somebody waits in l only if n threads are awake", is *)
(* carried through each kind once.                                         *)
(*                                                                         *)
(* Then one part per object: its invariant, what each service does to its  *)
(* data, and which kind of step it is.  IpcInv is all of them.  A queue's  *)
(* two linked lists are sequences Q and F that exist; Chain, a recursive   *)
(* function, is shown to find them.                                        *)
(***************************************************************************)
EXTENDS RtThreadProofs

ASleep == {"sched", "woken"}
CopyOps == {"mq_send", "mq_urgent", "mq_recv"}
ThOk(z, x) ==
  /\ x = [t \in Threads |-> x[t]]
  /\ \A t \in Threads :
       /\ x[t] = [pc |-> x[t].pc, op |-> x[t].op, arg |-> x[t].arg]
       /\ x[t].pc \in {"user", "sched", "woken", "copy"}
       /\ x[t].pc = "user" => x[t].op = "none"
       /\ x[t].pc = "copy" => x[t].op \in CopyOps
       /\ z.stat[t] = "suspend" =>
            x[t].pc \in ASleep /\ (kind # "mp" => z.err[t] = "ERROR")
Awake(z, x, op) ==
  {t \in Threads : /\ x[t].op = op /\ x[t].pc \in ASleep
                   /\ z.stat[t] # "suspend" /\ z.err[t] = "EOK"}

\* The threads U come out of their lists, with error code e; nothing else.
Freed(z, y, U, e) ==
  /\ Sound(y)
  /\ \A u \in AllThreads :
       /\ y.err[u] = IF u \in U THEN e ELSE z.err[u]
       /\ y.stat[u] = "suspend" <=> z.stat[u] = "suspend" /\ u \notin U
       /\ \A l \in WaitLists : InWait(y, u, l) <=> InWait(z, u, l) /\ u \notin U

\* One after the other.
LEMMA FreedTwice ==
  ASSUME NEW z, NEW y, NEW x, NEW U, NEW V, NEW e, Freed(z, y, U, e), Freed(y, x, V, e)
  PROVE  Freed(z, x, U \cup V, e)
  BY DEF Freed

\* rt_schedule wakes nobody.
LEMMA ScheduleFrees ==
  ASSUME NEW z, Sound(z), NEW e
  PROVE  Freed(z, rt_schedule(z), {}, e)
<1>1. PICK x : x = rt_schedule(z)
  OBVIOUS
<1>2. /\ Sound(x) /\ x.wait = z.wait /\ x.err = z.err
      /\ \A u \in AllThreads : x.stat[u] = "suspend" <=> z.stat[u] = "suspend"
  BY <1>1, ScheduleSound
<1>3. Freed(z, x, {}, e)
  BY <1>2 DEF Freed, InWait
<1> QED BY <1>1, <1>3

\* A thread is resumed, if it is suspended, with error code e.
LEMMA ResumeFrees ==
  ASSUME NEW z, Sound(z), NEW t \in AllThreads, NEW e \in {"EOK", "ERROR"}
  PROVE  LET x == rt_thread_resume([z EXCEPT !.err[t] = e], t)
         IN  Freed(z, x, {t}, e)
<1>1. PICK y : y = [z EXCEPT !.err[t] = e]
  OBVIOUS
<1>2. /\ Sound(y) /\ y.stat = z.stat /\ y.wait = z.wait /\ y.err = [z.err EXCEPT ![t] = e]
  <2>1. Sound([z EXCEPT !.err[t] = e])
    BY ErrSound
  <2>2. y.stat = z.stat /\ y.wait = z.wait /\ y.err = [z.err EXCEPT ![t] = e]
    BY <1>1 DEF Sound, SchedType
  <2> QED BY <1>1, <2>1, <2>2
<1>3. PICK x : x = rt_thread_resume(y, t)
  OBVIOUS
<1>4. /\ Sound(x) /\ x.err = y.err
      /\ y.stat[t] # "suspend" => x = y
      /\ y.stat[t] = "suspend" =>
           /\ \A u \in AllThreads \ {t} : x.stat[u] = y.stat[u]
           /\ x.stat[t] # "suspend"
           /\ \A u \in AllThreads : \A l \in WaitLists :
                InWait(x, u, l) <=> InWait(y, u, l) /\ u # t
  BY <1>2, <1>3, ResumeSound
<1>5. \A u \in AllThreads : y.err[u] = IF u = t THEN e ELSE z.err[u]
  BY <1>2 DEF Sound, SchedType
<1>6. y.stat[t] # "suspend" => \A l \in WaitLists : ~InWait(y, t, l)
  BY <1>2 DEF Sound, Placed
<1>7. \A u \in AllThreads : \A l \in WaitLists : InWait(x, u, l) <=> InWait(z, u, l) /\ u # t
  BY <1>2, <1>4, <1>6 DEF InWait
<1>8. \A u \in AllThreads : x.stat[u] = "suspend" <=> z.stat[u] = "suspend" /\ u # t
  BY <1>2, <1>4
<1>9. Freed(z, x, {t}, e)
  BY <1>4, <1>5, <1>7, <1>8 DEF Freed
<1> QED BY <1>1, <1>3, <1>9

\* The first of a list is woken.
LEMMA FirstFrees ==
  ASSUME NEW z, Sound(z), NEW l \in WaitLists, z.wait[l] # <<>>
  PROVE  \E u \in Threads : /\ InWait(z, u, l) /\ z.stat[u] = "suspend"
                            /\ Freed(z, rt_schedule(ipc_list_resume(z, l)), {u}, "EOK")
<1>1. PICK q \in Seq(Threads) : q = z.wait[l]
  BY DEF Sound, SchedType
<1>2. PICK u \in Threads : u = Head(q) /\ InWait(z, u, l)
  BY <1>1 DEF InWait, Members
<1>3. u \in AllThreads
  BY DEF AllThreads
<1>4. PICK x : x = ipc_list_resume(z, l)
  OBVIOUS
<1>5. Freed(z, x, {u}, "EOK")
  <2>1. x = rt_thread_resume([z EXCEPT !.err[u] = "EOK"], u)
    BY <1>1, <1>2, <1>4 DEF ipc_list_resume
  <2> QED BY <1>3, <2>1, ResumeFrees
<1>6. Freed(x, rt_schedule(x), {}, "EOK")
  BY <1>5, ScheduleFrees DEF Freed
<1>7. Freed(z, rt_schedule(x), {u} \cup {}, "EOK")
  BY <1>5, <1>6, FreedTwice
<1>8. z.stat[u] = "suspend"
  BY <1>2, <1>3 DEF Sound, Placed
<1> QED BY <1>2, <1>4, <1>7, <1>8

\* A timeout frees its thread with an error.
LEMMA TimeoutFrees ==
  ASSUME NEW z, Sound(z), NEW t \in z.timer
  PROVE  /\ t \in AllThreads /\ z.stat[t] = "suspend"
         /\ Freed(z, rt_schedule(thread_timeout(z, t)), {t}, "ERROR")
<1>1. t \in AllThreads /\ z.stat[t] = "suspend" /\ z.err \in [AllThreads -> {"EOK", "ERROR"}]
  BY DEF Sound, SchedType, Placed
<1>2. PICK x : x = thread_timeout(z, t)
  OBVIOUS
<1>3. TimedOut(z, x, t)
  BY <1>2, TimeoutSound
<1>4. Freed(z, x, {t}, "ERROR")
  BY <1>1, <1>3 DEF TimedOut, Freed
<1>5. Freed(x, rt_schedule(x), {}, "ERROR")
  BY <1>4, ScheduleFrees DEF Freed
<1>6. Freed(z, rt_schedule(x), {t} \cup {}, "ERROR")
  BY <1>4, <1>5, FreedTwice
<1> QED BY <1>1, <1>2, <1>6

ThoseAt(q, I) == {q[i] : i \in I}

\* A whole list is woken, with an error.
LEMMA AllFreed ==
  ASSUME NEW z, Sound(z), NEW l \in WaitLists
  PROVE  Freed(z, ipc_list_resume_all(z, l), {u \in Threads : InWait(z, u, l)}, "ERROR")
<1>1. PICK q \in Seq(Threads) : q = z.wait[l]
  BY DEF Sound, SchedType
<1>2. PICK n \in Nat : n = Len(q)
  BY <1>1
<1>3. PICK g : ResumeFold(g, z, q, n) /\ ipc_list_resume_all(z, l) = g[1 .. n]
  BY <1>1, <1>2, ResumeAllIsFold
<1> DEFINE G == {I \in SUBSET (1 .. n) : Freed(z, g[I], ThoseAt(q, I), "ERROR")}
<1>4. {} \in G
  <2>1. g[{}] = z /\ ThoseAt(q, {}) = {}
    BY <1>3 DEF ResumeFold, ThoseAt
  <2>2. Freed(z, z, {}, "ERROR")
    <3> SUFFICES \A u \in AllThreads : \A k \in WaitLists : InWait(z, u, k) <=> InWait(z, u, k)
      BY DEF Freed
    <3> QED OBVIOUS
  <2>3. {} \in SUBSET (1 .. n)
    OBVIOUS
  <2> QED BY <2>1, <2>2, <2>3
<1>5. ASSUME NEW I \in SUBSET (1 .. n), I # {}, I \ {Max(I)} \in G PROVE I \in G
  <2>1. g[I] = ResumeStep(g[I \ {Max(I)}], q[Max(I)])
    BY <1>3, <1>5 DEF ResumeFold
  <2>2. PICK y : y = g[I \ {Max(I)}] /\ Freed(z, y, ThoseAt(q, I \ {Max(I)}), "ERROR")
    BY <1>5
  <2>3. PICK t \in AllThreads : t = q[Max(I)] /\ Max(I) \in I
    <3>1. Max(I) \in I /\ Max(I) \in 1 .. n
      BY <1>5, LastOf
    <3> QED BY <1>2, <3>1 DEF AllThreads
  <2>4. Freed(y, ResumeStep(y, t), {t}, "ERROR")
    <3>1. Sound(y)
      BY <2>2 DEF Freed
    <3>2. PICK x : x = ResumeStep(y, t)
      OBVIOUS
    <3>3. x = rt_thread_resume([y EXCEPT !.err[t] = "ERROR"], t)
      BY <3>2 DEF ResumeStep
    <3>4. Freed(y, x, {t}, "ERROR")
      BY <3>1, <3>3, ResumeFrees
    <3> QED BY <3>2, <3>4
  <2>5. Freed(z, ResumeStep(y, t), ThoseAt(q, I \ {Max(I)}) \cup {t}, "ERROR")
    BY <2>2, <2>4, FreedTwice
  <2>6. ThoseAt(q, I \ {Max(I)}) \cup {t} = ThoseAt(q, I)
    BY <2>3 DEF ThoseAt
  <2> QED BY <2>1, <2>2, <2>3, <2>5, <2>6
<1>6. 1 .. n \in G
  <2> HIDE DEF G
  <2> QED BY <1>4, <1>5, Folded
<1>7. ThoseAt(q, 1 .. n) = {u \in Threads : InWait(z, u, l)}
  BY <1>1, <1>2 DEF InWait, Members, ThoseAt
<1> QED BY <1>3, <1>6, <1>7

\* The idle thread is one more.
LEMMA ThreadsListed == Threads \subseteq AllThreads
  BY DEF AllThreads

\* Threads that are woken with success are awake for what they waited for.
LEMMA AwakeGained ==
  ASSUME NEW z, NEW y, NEW x, NEW U, ThOk(z, x), Freed(z, y, U, "EOK"),
         NEW op, \A u \in U : u \in Threads /\ x[u].op = op /\ z.stat[u] = "suspend"
  PROVE  /\ ThOk(y, x)
         /\ Awake(y, x, op) = Awake(z, x, op) \cup U /\ U \cap Awake(z, x, op) = {}
         /\ \A k : k # op => Awake(y, x, k) = Awake(z, x, k)
<1>1. \A u \in Threads : /\ y.err[u] = IF u \in U THEN "EOK" ELSE z.err[u]
                         /\ y.stat[u] = "suspend" <=> z.stat[u] = "suspend" /\ u \notin U
  BY ThreadsListed DEF Freed
<1>2. ThOk(y, x)
  BY <1>1 DEF ThOk
<1>3. \A u \in U : u \in Threads /\ x[u].pc \in ASleep
  BY DEF ThOk
<1>4. Awake(y, x, op) = Awake(z, x, op) \cup U /\ U \cap Awake(z, x, op) = {}
  BY <1>1, <1>3 DEF Awake
<1>5. ASSUME NEW k, k # op PROVE Awake(y, x, k) = Awake(z, x, k)
  BY <1>1, <1>3, <1>5 DEF Awake
<1> QED BY <1>2, <1>4, <1>5

\* Threads that are woken with an error are not.
LEMMA AwakeUnchanged ==
  ASSUME NEW z, NEW y, NEW x, NEW U, ThOk(z, x), Freed(z, y, U, "ERROR"),
         \A u \in U : z.stat[u] = "suspend"
  PROVE  /\ ThOk(y, x)
         /\ \A op : Awake(y, x, op) = Awake(z, x, op)
<1>1. \A u \in Threads : /\ y.err[u] = IF u \in U THEN "ERROR" ELSE z.err[u]
                         /\ y.stat[u] = "suspend" <=> z.stat[u] = "suspend" /\ u \notin U
  BY ThreadsListed DEF Freed
<1>2. ThOk(y, x)
  BY <1>1 DEF ThOk
<1>3. ASSUME NEW op PROVE Awake(y, x, op) = Awake(z, x, op)
  BY <1>1 DEF Awake
<1> QED BY <1>2, <1>3

-----------------------------------------------------------------------------
(* The calls of the running thread t. *)

Untouched(z) == \A u \in Threads : \A l \in WaitLists : InWait(s', u, l) <=> InWait(z, u, l)

\* t goes on, out of the call it was in, or into a copy.
After(z, t) ==
  /\ Sound(s') /\ ThOk(s', th') /\ Untouched(z)
  /\ \A u \in Threads \ {t} : th'[u] = th[u]
  /\ \A op : op # "none" => Awake(s', th', op) = Awake(z, th, op) \ {t}

\* A call that ends.
LEMMA ReturnAfter ==
  ASSUME NEW t \in Threads, NEW z, Sound(z), ThOk(z, th), Return(t, z), z.stat[t] # "suspend"
  PROVE  After(z, t)
<1>1. t \in AllThreads
  BY DEF AllThreads
<1>2. s' = [z EXCEPT !.err[t] = "EOK"]
  BY DEF Return
<1>3. Sound(s') /\ s'.stat = z.stat /\ s'.wait = z.wait /\ s'.err = [z.err EXCEPT ![t] = "EOK"]
  BY <1>1, <1>2, ErrSound, Zenon
<1>4. th' = [th EXCEPT ![t] = [pc |-> "user", op |-> "none", arg |-> "none"]]
  BY DEF Return, User
<1>5. z.err \in [AllThreads -> {"EOK", "ERROR"}] /\ Threads \subseteq AllThreads
  BY DEF Sound, SchedType, AllThreads
<1>6. \A u \in Threads \ {t} : th'[u] = th[u] /\ s'.err[u] = z.err[u]
  BY <1>3, <1>4, <1>5 DEF ThOk
<1>7. th'[t] = [pc |-> "user", op |-> "none", arg |-> "none"]
  BY <1>4 DEF ThOk
<1>8. th' = [u \in Threads |-> th'[u]]
  BY <1>4 DEF ThOk
<1>9. ThOk(s', th')
  BY <1>3, <1>6, <1>7, <1>8 DEF ThOk
<1>10. ASSUME NEW op, op # "none" PROVE Awake(s', th', op) = Awake(z, th, op) \ {t}
  BY <1>3, <1>6, <1>7, <1>10 DEF Awake
<1>11. Untouched(z)
  BY <1>3 DEF Untouched, InWait
<1> QED BY <1>3, <1>6, <1>9, <1>10, <1>11 DEF After

\* A call that neither waits nor copies.
LEMMA StaysAfter ==
  ASSUME NEW t \in Threads, NEW z, Sound(z), ThOk(z, th), th[t].pc = "user", s' = z, th' = th
  PROVE  After(z, t)
<1>1. ASSUME NEW op, op # "none" PROVE Awake(z, th, op) = Awake(z, th, op) \ {t}
  BY <1>1 DEF Awake, ThOk
<1>2. Untouched(z)
  <2> SUFFICES \A u \in Threads : \A l \in WaitLists : InWait(z, u, l) <=> InWait(z, u, l)
    BY DEF Untouched
  <2> QED OBVIOUS
<1> QED BY <1>1, <1>2 DEF After

\* A call that goes into a copy.
LEMMA CopyAfter ==
  ASSUME NEW t \in Threads, Sound(s), ThOk(s, th), s' = s, s.stat[t] # "suspend",
         NEW op \in CopyOps, NEW arg,
         th' = [th EXCEPT ![t] = [pc |-> "copy", op |-> op, arg |-> arg]]
  PROVE  After(s, t) /\ th'[t] = [pc |-> "copy", op |-> op, arg |-> arg]
<1>1. \A u \in Threads \ {t} : th'[u] = th[u]
  BY DEF ThOk
<1>2. th'[t] = [pc |-> "copy", op |-> op, arg |-> arg]
  BY DEF ThOk
<1>3. th' = [u \in Threads |-> th'[u]]
  BY DEF ThOk
<1>4. ThOk(s', th')
  BY <1>1, <1>2, <1>3 DEF ThOk
<1>5. ASSUME NEW k, k # "none" PROVE Awake(s', th', k) = Awake(s, th, k) \ {t}
  BY <1>1, <1>2, <1>5 DEF Awake, ASleep
<1>6. Untouched(s)
  BY DEF Untouched, InWait
<1> QED BY <1>1, <1>2, <1>4, <1>5, <1>6 DEF After

\* t starts to wait in list l.
Blocked(t, l, op, arg) ==
  /\ Sound(s') /\ ThOk(s', th')
  /\ \A u \in Threads : \A k \in WaitLists :
       InWait(s', u, k) <=> InWait(s, u, k) \/ (u = t /\ k = l)
  /\ \A u \in Threads \ {t} : th'[u] = th[u]
  /\ th'[t] = [pc |-> "sched", op |-> op, arg |-> arg]
  /\ \A k : k # "none" => Awake(s', th', k) = Awake(s, th, k) \ {t}

\* The scheduler's part of it, with error code e.
Waits(x, t, l, e) ==
  /\ Sound(x)
  /\ \A u \in Threads : \A k \in WaitLists : InWait(x, u, k) <=> InWait(s, u, k) \/ (u = t /\ k = l)
  /\ x.stat[t] = "suspend" /\ x.err[t] = e
  /\ \A u \in Threads \ {t} : x.stat[u] = s.stat[u] /\ x.err[u] = s.err[u]

\* With the record of the thread itself, the scheduler's part is all of it.
LEMMA WaitsBlocked ==
  ASSUME NEW t \in Threads, ThOk(s, th), NEW l, NEW op, NEW arg, NEW e, Waits(s', t, l, e),
         kind # "mp" => e = "ERROR",
         th' = [th EXCEPT ![t] = [pc |-> "sched", op |-> op, arg |-> arg]]
  PROVE  Blocked(t, l, op, arg)
<1>1. \A u \in Threads \ {t} : th'[u] = th[u]
  BY DEF ThOk
<1>2. th'[t] = [pc |-> "sched", op |-> op, arg |-> arg]
  BY DEF ThOk
<1>3. th' = [u \in Threads |-> th'[u]]
  BY DEF ThOk
<1>4. ThOk(s', th')
  BY <1>1, <1>2, <1>3 DEF ThOk, Waits, ASleep
<1>5. ASSUME NEW k, k # "none" PROVE Awake(s', th', k) = Awake(s, th, k) \ {t}
  BY <1>1, <1>2, <1>5 DEF Awake, Waits
<1> QED BY <1>1, <1>2, <1>4, <1>5 DEF Blocked, Waits

\* Block does that.
LEMMA BlockBlocks ==
  ASSUME Sound(s), ThOk(s, th), NEW t \in Threads, Runs(t), NEW l \in WaitLists, NEW flag,
         NEW op, NEW arg, Block(t, l, flag, op, arg)
  PROVE  Blocked(t, l, op, arg)
<1>1. t \in AllThreads /\ s.stat[t] = "running" /\ s.err \in [AllThreads -> {"EOK", "ERROR"}]
      /\ Threads \subseteq AllThreads /\ s.stat \in [AllThreads -> Stat]
  BY DEF AllThreads, Runs, Sound, SchedType
<1>2. PICK z : z = [s EXCEPT !.err[t] = "ERROR"]
  OBVIOUS
<1>3. Sound(z) /\ z.stat = s.stat /\ z.wait = s.wait /\ z.err = [s.err EXCEPT ![t] = "ERROR"]
  BY <1>1, <1>2, ErrSound, Zenon
<1>4. SoundBut(z, t) /\ t = z.cur
  BY <1>1, <1>3, RunningLoose
<1>5. PICK y : y = ipc_list_suspend(z, l, t, flag)
  OBVIOUS
<1>6. PutToWait(z, y, t, l)
  BY <1>4, <1>5, SuspendSound
<1>7. Sound(y) /\ y.stat = [s.stat EXCEPT ![t] = "suspend"] /\ y.err = z.err
  BY <1>3, <1>6 DEF PutToWait
<1>8. y.stat[t] = "suspend" /\ \A u \in Threads \ {t} : y.stat[u] = s.stat[u]
  BY <1>1, <1>7
<1>9. s' = StartTimer(y, t)
  BY <1>2, <1>5 DEF Block
<1>10. Sound(s') /\ s'.stat = y.stat /\ s'.wait = y.wait /\ s'.err = y.err
  BY <1>1, <1>7, <1>8, <1>9, TimerSound
<1>11. Waits(s', t, l, "ERROR")
  <2>1. s'.err[t] = "ERROR" /\ \A u \in Threads \ {t} : s'.err[u] = s.err[u]
    BY <1>1, <1>3, <1>7, <1>10
  <2>2. \A u \in Threads : \A k \in WaitLists :
          InWait(s', u, k) <=> InWait(s, u, k) \/ (u = t /\ k = l)
    BY <1>1, <1>3, <1>6, <1>10 DEF PutToWait, InWait
  <2> QED BY <1>8, <1>10, <2>1, <2>2 DEF Waits
<1>12. th' = [th EXCEPT ![t] = [pc |-> "sched", op |-> op, arg |-> arg]]
  BY DEF Block
<1> QED BY <1>11, <1>12, WaitsBlocked

\* So does the pool, which puts the thread in front of its list.
LEMMA MpBlocks ==
  ASSUME Sound(s), ThOk(s, th), NEW t \in Threads, Runs(t), kind = "mp",
         s' = StartTimer([rt_thread_suspend([s EXCEPT !.err[t] = "EOK"], t)
                            EXCEPT !.wait[recv] = <<t>> \o @], t),
         th' = [th EXCEPT ![t] = [pc |-> "sched", op |-> "mp_alloc", arg |-> "none"]]
  PROVE  Blocked(t, recv, "mp_alloc", "none")
<1>1. t \in AllThreads /\ s.stat[t] = "running" /\ s.err \in [AllThreads -> {"EOK", "ERROR"}]
      /\ Threads \subseteq AllThreads /\ s.stat \in [AllThreads -> Stat]
  BY DEF AllThreads, Runs, Sound, SchedType
<1>2. PICK z : z = [s EXCEPT !.err[t] = "EOK"]
  OBVIOUS
<1>3. Sound(z) /\ z.stat = s.stat /\ z.wait = s.wait /\ z.err = [s.err EXCEPT ![t] = "EOK"]
  BY <1>1, <1>2, ErrSound, Zenon
<1>4. s' = StartTimer([rt_thread_suspend(z, t) EXCEPT !.wait[recv] = <<t>> \o @], t)
  BY <1>2
<1>5. Stacked(z, s', t, recv)
  <2>1. z.stat[t] = "running" /\ recv \in WaitLists
    BY <1>1, <1>3, Lists2
  <2>2. Sound(z)
    BY <1>3
  <2>3. PICK l \in WaitLists : l = recv
    BY <2>1
  <2>4. s' = StartTimer([rt_thread_suspend(z, t) EXCEPT !.wait[l] = <<t>> \o @], t)
    BY <1>4, <2>3, Zenon
  <2>5. Stacked(z, s', t, l)
    BY <2>1, <2>2, <2>4, StackSound, Zenon
  <2> QED BY <2>3, <2>5
<1>6. Waits(s', t, recv, "EOK")
  <2>1. s'.err[t] = "EOK" /\ \A u \in Threads \ {t} : s'.err[u] = s.err[u]
    BY <1>1, <1>3, <1>5, ZenonT(60) DEF Stacked
  <2>2. s'.stat[t] = "suspend" /\ \A u \in Threads \ {t} : s'.stat[u] = s.stat[u]
    BY <1>1, <1>3, <1>5 DEF Stacked
  <2>3. \A u \in Threads : \A k \in WaitLists :
          InWait(s', u, k) <=> InWait(s, u, k) \/ (u = t /\ k = recv)
    BY <1>1, <1>3, <1>5 DEF Stacked, InWait
  <2> QED BY <1>5, <2>1, <2>2, <2>3 DEF Stacked, Waits
<1> QED BY <1>6, WaitsBlocked

-----------------------------------------------------------------------------
(* Steps that have nothing to do with the object: ticks, timeouts, calls of *)
(* rt_schedule and sleeping.                                                *)

QuietFor(u) ==
  /\ \A l \in WaitLists : InWait(s', u, l) => InWait(s, u, l)
  /\ th[u].pc = "copy" \/ th'[u].pc = "copy" => th'[u] = th[u]
  /\ \/ th'[u].op = th[u].op /\ th'[u].arg = th[u].arg
     \/ /\ th[u].op \in {"none", "sleep"} /\ th'[u].op \in {"none", "sleep"}
        /\ \A l \in WaitLists : ~InWait(s, u, l)
Quiet ==
  /\ Sound(s') /\ ThOk(s', th')
  /\ \A u \in Threads : QuietFor(u)
  /\ \A op : op \notin {"none", "sleep"} => Awake(s', th', op) = Awake(s, th, op)

\* Ticks, timeouts, rt_schedule and sleeping are quiet.
LEMMA StepQuiet ==
  ASSUME Sound(s), ThOk(s, th), ThreadStep
  PROVE  Quiet
<1>0. /\ Threads \subseteq AllThreads /\ s.err \in [AllThreads -> {"EOK", "ERROR"}]
      /\ s.stat \in [AllThreads -> Stat]
  BY DEF AllThreads, Sound, SchedType
<1>1. ASSUME NEW U, Freed(s, s', U, "ERROR"), \A u \in U : s.stat[u] = "suspend", th' = th
      PROVE  Quiet
  <2>1. ThOk(s', th) /\ \A op : Awake(s', th, op) = Awake(s, th, op)
    BY <1>1, AwakeUnchanged
  <2>2. \A u \in Threads : QuietFor(u)
    BY <1>0, <1>1 DEF Freed, QuietFor
  <2>3. Sound(s')
    BY <1>1 DEF Freed
  <2> QED BY <1>1, <2>1, <2>2, <2>3 DEF Quiet
<1>2. CASE Tick
  <2>1. CASE s' = rt_schedule([s EXCEPT !.yield = @ \cup {s.cur}])
    <3>1. PICK z : z = [s EXCEPT !.yield = s.yield \cup {s.cur}]
      OBVIOUS
    <3>2. s.yield \cup {s.cur} \in SUBSET AllThreads
      BY DEF Sound, SchedType
    <3>3. Sound(z) /\ z.stat = s.stat /\ z.wait = s.wait /\ z.err = s.err
      BY <3>1, <3>2, YieldSound
    <3>4. Freed(s, z, {}, "ERROR")
      BY <3>3 DEF Freed, InWait
    <3>5. Freed(z, s', {}, "ERROR")
      BY <2>1, <3>1, <3>3, ScheduleFrees
    <3>6. Freed(s, s', {} \cup {}, "ERROR")
      BY <3>4, <3>5, FreedTwice
    <3> QED BY <1>1, <1>2, <3>6 DEF Tick
  <2>2. CASE \E t \in s.timer : s' = rt_schedule(thread_timeout(s, t))
    <3>1. PICK t \in s.timer : s' = rt_schedule(thread_timeout(s, t))
      BY <2>2
    <3>2. s.stat[t] = "suspend" /\ Freed(s, s', {t}, "ERROR")
      BY <3>1, TimeoutFrees
    <3> QED BY <1>1, <1>2, <3>2 DEF Tick
  <2> QED BY <1>2, <2>1, <2>2 DEF Tick
<1>3. ASSUME NEW t \in Threads, CallSchedule(t) PROVE Quiet
  <2>1. Freed(s, s', {}, "ERROR") /\ th' = [th EXCEPT ![t].pc = "woken"] /\ th[t].pc = "sched"
    BY <1>3, ScheduleFrees DEF CallSchedule
  <2>2. ThOk(s', th) /\ \A op : Awake(s', th, op) = Awake(s, th, op)
    BY <2>1, AwakeUnchanged
  <2>3. PICK f : f = th[t]
    OBVIOUS
  <2>4. f = [pc |-> f.pc, op |-> f.op, arg |-> f.arg] /\ f.pc = "sched"
    BY <2>1, <2>3 DEF ThOk
  <2>5. th' = [th EXCEPT ![t] = [f EXCEPT !.pc = "woken"]]
    BY <2>1, <2>3
  <2>6. th'[t] = [pc |-> "woken", op |-> f.op, arg |-> f.arg] /\ th' = [u \in Threads |-> th'[u]]
    BY <2>4, <2>5 DEF ThOk
  <2>7. \A u \in Threads \ {t} : th'[u] = th[u]
    BY <2>5 DEF ThOk
  <2>8. ThOk(s', th')
    BY <2>2, <2>3, <2>4, <2>6, <2>7 DEF ThOk, ASleep
  <2>9. ASSUME NEW op PROVE Awake(s', th', op) = Awake(s', th, op)
    BY <2>3, <2>4, <2>6, <2>7 DEF Awake, ASleep
  <2>10. \A u \in Threads : \A l \in WaitLists : InWait(s', u, l) => InWait(s, u, l)
    BY <1>0, <2>1 DEF Freed
  <2>11. \A u \in Threads : /\ th'[u].op = th[u].op /\ th'[u].arg = th[u].arg
                            /\ th[u].pc = "copy" \/ th'[u].pc = "copy" => th'[u] = th[u]
    BY <2>3, <2>4, <2>6, <2>7
  <2>12. \A u \in Threads : QuietFor(u)
    BY <2>10, <2>11 DEF QuietFor
  <2>13. Sound(s')
    BY <2>1 DEF Freed
  <2>14. \A op : Awake(s', th', op) = Awake(s, th, op)
    BY <2>2, <2>9
  <2> QED BY <2>8, <2>12, <2>13, <2>14 DEF Quiet
<1>4. ASSUME NEW t \in Threads, Sleep(t) PROVE Quiet
  <2>1. PICK z : z = [s EXCEPT !.err[t] = "ERROR"]
    OBVIOUS
  <2>2. Sound(z) /\ z.stat = s.stat /\ z.wait = s.wait /\ z.err = [s.err EXCEPT ![t] = "ERROR"]
    BY <1>0, <2>1, ErrSound, Zenon
  <2>3. z.stat[t] = "running" /\ th[t].pc = "user" /\ s.stat[t] = "running"
    BY <1>4, <2>2 DEF Sleep, InUser, Runs
  <2>4. s' = StartTimer(rt_thread_suspend(z, t), t)
    BY <1>4, <2>1, Zenon DEF Sleep
  <2>15. /\ Sound(s') /\ s'.wait = z.wait /\ s'.stat = [z.stat EXCEPT ![t] = "suspend"]
         /\ s'.err = z.err
    <3>1. Sound(z)
      BY <2>2
    <3>2. z.stat[t] = "running"
      BY <2>3
    <3> QED BY <2>4, <3>1, <3>2, SleepSound, Zenon
  <2>5. /\ Sound(s') /\ s'.wait = s.wait /\ s'.stat = [s.stat EXCEPT ![t] = "suspend"]
        /\ s'.err = [s.err EXCEPT ![t] = "ERROR"]
    BY <2>2, <2>15
  <2>6. th' = [th EXCEPT ![t] = [pc |-> "sched", op |-> "sleep", arg |-> "none"]]
    <3>1. th' = [th EXCEPT ![t] = [User EXCEPT !.pc = "sched", !.op = "sleep"]]
      BY <1>4, Zenon DEF Sleep
    <3>2. [User EXCEPT !.pc = "sched", !.op = "sleep"] =
            [pc |-> "sched", op |-> "sleep", arg |-> "none"]
      <4>1. PICK r : r = [User EXCEPT !.pc = "sched", !.op = "sleep"]
        OBVIOUS
      <4>2. r = [pc |-> "sched", op |-> "sleep", arg |-> "none"]
        BY <4>1 DEF User
      <4> QED BY <4>1, <4>2
    <3> QED BY <3>1, <3>2, Zenon
  <2>7. th'[t] = [pc |-> "sched", op |-> "sleep", arg |-> "none"]
          /\ th' = [u \in Threads |-> th'[u]]
    BY <2>6 DEF ThOk
  <2>8. \A u \in Threads \ {t} : /\ th'[u] = th[u]
                                 /\ s'.err[u] = s.err[u] /\ s'.stat[u] = s.stat[u]
    BY <1>0, <2>5, <2>6 DEF ThOk
  <2>9. s'.err[t] = "ERROR" /\ s'.stat[t] = "suspend"
    BY <1>0, <2>5
  <2>10. ThOk(s', th')
    BY <2>7, <2>8, <2>9 DEF ThOk, ASleep
  <2>11. th[t].op = "none"
    BY <2>3 DEF ThOk
  <2>12. ASSUME NEW op, op \notin {"none", "sleep"} PROVE Awake(s', th', op) = Awake(s, th, op)
    BY <2>7, <2>8, <2>11, <2>12 DEF Awake
  <2>13. \A l \in WaitLists : ~InWait(s, t, l)
    BY <1>0, <2>3 DEF Sound, Placed
  <2>14. ASSUME NEW u \in Threads PROVE QuietFor(u)
    <3>1. CASE u = t
      BY <2>3, <2>5, <2>7, <2>11, <2>13, <3>1 DEF QuietFor, InWait
    <3>2. CASE u # t
      BY <2>5, <2>8, <3>2 DEF QuietFor, InWait
    <3> QED BY <3>1, <3>2
  <2> QED BY <2>5, <2>10, <2>12, <2>14 DEF Quiet
<1>5. ASSUME NEW t \in Threads, SleepOver(t) PROVE Quiet
  <2>1. s' = [s EXCEPT !.err[t] = "EOK"] /\ th[t].op = "sleep" /\ th[t].pc = "woken"
        /\ s.stat[t] = "running"
    BY <1>5 DEF SleepOver, Woken, Runs
  <2>2. Sound(s') /\ s'.stat = s.stat /\ s'.wait = s.wait /\ s'.err = [s.err EXCEPT ![t] = "EOK"]
    BY <1>0, <2>1, ErrSound, ZenonT(60)
  <2>3. th' = [th EXCEPT ![t] = [pc |-> "user", op |-> "none", arg |-> "none"]]
    BY <1>5 DEF SleepOver, User
  <2>4. th'[t] = [pc |-> "user", op |-> "none", arg |-> "none"] /\ th' = [u \in Threads |-> th'[u]]
    BY <2>3 DEF ThOk
  <2>5. \A u \in Threads \ {t} : th'[u] = th[u] /\ s'.err[u] = s.err[u]
    BY <1>0, <2>2, <2>3 DEF ThOk
  <2>6. ThOk(s', th')
    BY <2>1, <2>2, <2>4, <2>5 DEF ThOk
  <2>7. ASSUME NEW op, op \notin {"none", "sleep"} PROVE Awake(s', th', op) = Awake(s, th, op)
    BY <2>1, <2>2, <2>4, <2>5, <2>7 DEF Awake
  <2>8. \A l \in WaitLists : ~InWait(s, t, l)
    BY <1>0, <2>1 DEF Sound, Placed
  <2>9. ASSUME NEW u \in Threads PROVE QuietFor(u)
    <3>1. CASE u = t
      BY <2>1, <2>2, <2>4, <2>8, <3>1 DEF QuietFor, InWait
    <3>2. CASE u # t
      BY <2>2, <2>5, <3>2 DEF QuietFor, InWait
    <3> QED BY <3>1, <3>2
  <2> QED BY <2>2, <2>6, <2>7, <2>9 DEF Quiet
<1> QED BY <1>2, <1>3, <1>4, <1>5 DEF ThreadStep

-----------------------------------------------------------------------------
(* Who waits for what, and how many are awake. *)

Queued(z, x, op, l) == \A t \in Threads : InWait(z, t, l) => x[t].op = op

\* Somebody waits.
LEMMA WaitingMeans ==
  ASSUME NEW z, Sound(z), NEW l \in WaitLists
  PROVE  z.wait[l] # <<>> <=> \E u \in Threads : InWait(z, u, l)
<1>1. PICK q \in Seq(Threads) : q = z.wait[l]
  BY DEF Sound, SchedType
<1>2. q # <<>> => q[1] \in Threads /\ q[1] \in Members(q)
  BY <1>1 DEF Members
<1> QED BY <1>1, <1>2 DEF InWait, Members

\* The first waiter of l, if there is one, is awake for what it waited for.
Woke(z, op, l) ==
  /\ Sound(z) /\ ThOk(z, th)
  /\ \A k : k # op => Awake(z, th, k) = Awake(s, th, k)
  /\ \A v \in Threads : z.stat[v] = "suspend" => s.stat[v] = "suspend"
  /\ \/ /\ Waiting(l)
        /\ \E u \in Threads :
             /\ InWait(s, u, l) /\ u \notin Awake(s, th, op)
             /\ Awake(z, th, op) = Awake(s, th, op) \cup {u}
             /\ \A v \in AllThreads : \A k \in WaitLists :
                  InWait(z, v, k) <=> InWait(s, v, k) /\ v # u
     \/ ~Waiting(l) /\ z = s

\* That is what Wake does.
LEMMA WakeWakes ==
  ASSUME Sound(s), ThOk(s, th), NEW op, NEW l \in WaitLists, Queued(s, th, op, l)
  PROVE  Woke(Wake(l), op, l)
<1>1. PICK z : z = Wake(l)
  OBVIOUS
<1>2. CASE ~Waiting(l)
  BY <1>1, <1>2 DEF Woke, Wake
<1>3. CASE Waiting(l)
  <2>1. z = rt_schedule(ipc_list_resume(s, l)) /\ s.wait[l] # <<>>
    BY <1>1, <1>3 DEF Wake, Waiting
  <2>2. PICK u \in Threads : InWait(s, u, l) /\ s.stat[u] = "suspend" /\ Freed(s, z, {u}, "EOK")
    BY <2>1, FirstFrees
  <2>3. th[u].op = op
    BY <2>2 DEF Queued
  <2>4. /\ ThOk(z, th)
        /\ Awake(z, th, op) = Awake(s, th, op) \cup {u} /\ {u} \cap Awake(s, th, op) = {}
        /\ \A k : k # op => Awake(z, th, k) = Awake(s, th, k)
    BY <2>2, <2>3, AwakeGained
  <2>5. \A v \in AllThreads : \A k \in WaitLists : InWait(z, v, k) <=> InWait(s, v, k) /\ v # u
    BY <2>2 DEF Freed
  <2>6. \A v \in Threads : z.stat[v] = "suspend" => s.stat[v] = "suspend"
    BY <2>2, ThreadsListed DEF Freed
  <2> QED BY <1>1, <1>3, <2>2, <2>4, <2>5, <2>6 DEF Woke, Freed
<1> QED BY <1>1, <1>2, <1>3

\* What keeps the callers' promises: no new waiter, and none whose call changed.
Shrinks ==
  \A u \in Threads : \A l \in WaitLists :
    InWait(s', u, l) => InWait(s, u, l) /\ th'[u].op = th[u].op /\ th'[u].arg = th[u].arg

\* They can be counted.
LEMMA AwakeFinite ==
  ASSUME NEW z, NEW x, NEW op
  PROVE  IsFiniteSet(Awake(z, x, op)) /\ Cardinality(Awake(z, x, op)) \in Nat
<1>1. Awake(z, x, op) \subseteq Threads
  BY DEF Awake
<1> QED BY <1>1, ThreadAssumption, FS_Subset, FS_CardinalityType

\* A reset: nobody waits any more, and nobody has got anything.
Reset(l) ==
  /\ Sound(s') /\ ThOk(s', th') /\ Shrinks
  /\ \A u \in Threads : ~InWait(s', u, l)
  /\ \A op : Awake(s', th', op) = Awake(s, th, op)

\* A reset of an object with one list.
LEMMA ResetOne ==
  ASSUME Sound(s), ThOk(s, th), NEW l \in WaitLists,
         s' = rt_schedule(ipc_list_resume_all(s, l)), th' = th
  PROVE  Reset(l)
<1> DEFINE U == {u \in Threads : InWait(s, u, l)}
<1>1. PICK z : z = ipc_list_resume_all(s, l) /\ Freed(s, z, U, "ERROR")
  BY AllFreed
<1>2. \A u \in U : s.stat[u] = "suspend"
  BY DEF Sound, Placed, AllThreads
<1> HIDE DEF U
<1>3. Freed(z, s', {}, "ERROR")
  BY <1>1, ScheduleFrees DEF Freed
<1>4. Freed(s, s', U \cup {}, "ERROR")
  BY <1>1, <1>3, FreedTwice
<1>5. Freed(s, s', U, "ERROR")
  BY <1>4
<1>6. ThOk(s', th) /\ \A op : Awake(s', th, op) = Awake(s, th, op)
  BY <1>2, <1>5, AwakeUnchanged
<1>7. \A u \in Threads : \A k \in WaitLists : InWait(s', u, k) <=> InWait(s, u, k) /\ u \notin U
  BY <1>5, ThreadsListed DEF Freed
<1>8. Shrinks /\ \A u \in Threads : ~InWait(s', u, l)
  BY <1>7 DEF Shrinks, U
<1> QED BY <1>5, <1>6, <1>8 DEF Freed, Reset

\* A reset of an object with two lists.
LEMMA ResetTwo ==
  ASSUME Sound(s), ThOk(s, th),
         s' = rt_schedule(ipc_list_resume_all(ipc_list_resume_all(s, recv), send)), th' = th
  PROVE  Reset(recv) /\ Reset(send)
<1> DEFINE U == {u \in Threads : InWait(s, u, recv)}
<1>1. PICK z : z = ipc_list_resume_all(s, recv) /\ Freed(s, z, U, "ERROR")
  BY AllFreed, Lists2
<1> DEFINE V == {u \in Threads : InWait(z, u, send)}
<1>2. PICK y : y = ipc_list_resume_all(z, send) /\ Freed(z, y, V, "ERROR")
  BY <1>1, AllFreed, Lists2 DEF Freed
<1>3. \A u \in U \cup V : s.stat[u] = "suspend" /\ u \in Threads
  <2>1. \A u \in U : s.stat[u] = "suspend"
    BY Lists2 DEF Sound, Placed, AllThreads
  <2>2. \A u \in V : InWait(s, u, send)
    BY <1>1, Lists2, ThreadsListed DEF Freed
  <2>3. \A u \in V : s.stat[u] = "suspend"
    BY <2>2, Lists2 DEF Sound, Placed, AllThreads
  <2> QED BY <2>1, <2>3
<1>4. \A u \in Threads : InWait(s, u, recv) => u \in U
  OBVIOUS
<1>5. \A u \in Threads : InWait(s, u, send) => u \in U \cup V
  BY <1>1, Lists2, ThreadsListed DEF Freed
<1> HIDE DEF U, V
<1>6. Freed(y, s', {}, "ERROR")
  BY <1>1, <1>2, ScheduleFrees DEF Freed
<1>7. Freed(s, y, U \cup V, "ERROR")
  BY <1>1, <1>2, FreedTwice
<1>8. Freed(s, s', (U \cup V) \cup {}, "ERROR")
  BY <1>6, <1>7, FreedTwice
<1>9. Freed(s, s', U \cup V, "ERROR")
  BY <1>8
<1>10. ThOk(s', th) /\ \A op : Awake(s', th, op) = Awake(s, th, op)
  BY <1>3, <1>9, AwakeUnchanged
<1>11. \A u \in Threads : \A k \in WaitLists :
         InWait(s', u, k) <=> InWait(s, u, k) /\ u \notin U \cup V
  BY <1>9, ThreadsListed DEF Freed
<1>12. Shrinks
  BY <1>11 DEF Shrinks
<1>13. \A u \in Threads : ~InWait(s', u, recv) /\ ~InWait(s', u, send)
  BY <1>4, <1>5, <1>11, Lists2
<1> QED BY <1>9, <1>10, <1>12, <1>13 DEF Freed, Reset

\* As many threads are awake for what list l waits for as there is to be had.
Enough(z, x, op, l, n) == z.wait[l] # <<>> => n <= Cardinality(Awake(z, x, op))

\* Of nothing there is always enough.
LEMMA EnoughOfNothing ==
  ASSUME NEW z, NEW x, NEW op, NEW l
  PROVE  Enough(z, x, op, l, 0)
  BY AwakeFinite DEF Enough

\* The running thread is in no list.
LEMMA Runner ==
  ASSUME Sound(s), NEW t \in Threads, Runs(t)
  PROVE  s.stat[t] = "running" /\ \A l \in WaitLists : ~InWait(s, t, l)
  BY ThreadsListed DEF Runs, Sound, Placed

\* Quiet steps leave a list of waiters in order.
LEMMA QuietQueue ==
  ASSUME Sound(s), Quiet, NEW op, op \notin {"none", "sleep"}, NEW l \in WaitLists,
         Queued(s, th, op, l)
  PROVE  /\ Queued(s', th', op, l)
         /\ \A n : Enough(s, th, op, l, n) => Enough(s', th', op, l, n)
<1>1. \A u \in Threads : InWait(s', u, l) => InWait(s, u, l) /\ th'[u].op = th[u].op
  BY DEF Quiet, QuietFor
<1>2. Sound(s') /\ Awake(s', th', op) = Awake(s, th, op)
  BY DEF Quiet
<1>3. s'.wait[l] # <<>> => s.wait[l] # <<>>
  BY <1>1, <1>2, WaitingMeans
<1> QED BY <1>1, <1>2, <1>3 DEF Queued, Enough

\* One more waits in the list.
LEMMA BlockedQueue ==
  ASSUME Sound(s), NEW t \in Threads, Runs(t), NEW l \in WaitLists, NEW op, op # "none", NEW arg,
         Blocked(t, l, op, arg), Queued(s, th, op, l)
  PROVE  Queued(s', th', op, l)
  BY DEF Blocked, Queued

\* The other list does not notice.
LEMMA BlockedOther ==
  ASSUME Sound(s), NEW t \in Threads, Runs(t), NEW k \in WaitLists, NEW b, NEW arg,
         Blocked(t, k, b, arg),
         NEW l \in WaitLists, NEW op, op # "none", l # k, t \notin Awake(s, th, op),
         Queued(s, th, op, l)
  PROVE  /\ Queued(s', th', op, l)
         /\ \A n : Enough(s, th, op, l, n) => Enough(s', th', op, l, n)
<1>1. \A u \in Threads : InWait(s', u, l) <=> InWait(s, u, l)
  BY DEF Blocked
<1>2. ~InWait(s, t, l)
  BY Runner
<1>3. Queued(s', th', op, l)
  BY <1>1, <1>2 DEF Blocked, Queued
<1>4. Awake(s', th', op) = Awake(s, th, op)
  <2>1. Awake(s', th', op) = Awake(s, th, op) \ {t}
    BY DEF Blocked
  <2> QED BY <2>1
<1>5. s'.wait[l] # <<>> => s.wait[l] # <<>>
  BY <1>1, WaitingMeans DEF Blocked
<1> QED BY <1>3, <1>4, <1>5 DEF Enough

\* One thread less.
LEMMA OneLess ==
  ASSUME NEW z, NEW x, NEW op, NEW A, A = Awake(z, x, op), NEW t
  PROVE  /\ IsFiniteSet(A \ {t}) /\ Cardinality(A \ {t}) \in Nat /\ Cardinality(A) \in Nat
         /\ Cardinality(A) - 1 <= Cardinality(A \ {t})
<1>1. IsFiniteSet(A) /\ Cardinality(A) \in Nat
  BY AwakeFinite
<1>2. IsFiniteSet(A \ {t}) /\ Cardinality(A \ {t}) \in Nat
  BY <1>1, FS_RemoveElement, FS_CardinalityType
<1>3. Cardinality(A \ {t}) = IF t \in A THEN Cardinality(A) - 1 ELSE Cardinality(A)
  BY <1>1, FS_RemoveElement
<1> QED BY <1>1, <1>2, <1>3

\* t takes one thing, or nothing.
LEMMA TakenQueue ==
  ASSUME Sound(s), NEW t \in Threads, Runs(t), After(s, t),
         NEW op, op # "none", NEW l \in WaitLists, Queued(s, th, op, l)
  PROVE  /\ Queued(s', th', op, l)
         /\ \A n \in Int : Enough(s, th, op, l, n) => Enough(s', th', op, l, n - 1)
         /\ t \notin Awake(s, th, op) => \A n \in Int :
              Enough(s, th, op, l, n) => Enough(s', th', op, l, n)
<1>1. \A u \in Threads : InWait(s', u, l) <=> InWait(s, u, l)
  BY DEF After, Untouched
<1>2. ~InWait(s, t, l)
  BY Runner
<1>3. Queued(s', th', op, l)
  BY <1>1, <1>2 DEF After, Queued
<1>4. PICK A : A = Awake(s, th, op)
  OBVIOUS
<1>5. Awake(s', th', op) = A \ {t}
  BY <1>4 DEF After
<1>6. Cardinality(A) \in Nat /\ Cardinality(A \ {t}) \in Nat
        /\ Cardinality(A) - 1 <= Cardinality(A \ {t})
  BY <1>4, OneLess
<1>7. s'.wait[l] # <<>> => s.wait[l] # <<>>
  BY <1>1, WaitingMeans DEF After
<1>8. t \notin Awake(s, th, op) => A \ {t} = A
  BY <1>4
<1>9. ASSUME NEW n \in Int, Enough(s, th, op, l, n) PROVE Enough(s', th', op, l, n - 1)
  <2> SUFFICES ASSUME s'.wait[l] # <<>> PROVE n - 1 <= Cardinality(Awake(s', th', op))
    BY DEF Enough
  <2>1. n <= Cardinality(A)
    BY <1>4, <1>7, <1>9 DEF Enough
  <2>2. PICK c \in Nat, d \in Nat : c = Cardinality(A) /\ d = Cardinality(A \ {t}) /\ c - 1 <= d
    BY <1>6
  <2>3. n - 1 <= d
    BY <2>1, <2>2
  <2> QED BY <1>5, <2>2, <2>3
<1>10. ASSUME NEW n \in Int, Enough(s, th, op, l, n), t \notin Awake(s, th, op)
      PROVE  Enough(s', th', op, l, n)
  BY <1>4, <1>5, <1>7, <1>8, <1>10 DEF Enough
<1> QED BY <1>3, <1>9, <1>10

\* t gives one thing, which wakes the first waiter of l.
LEMMA GivenQueue ==
  ASSUME Sound(s), NEW t \in Threads, Runs(t), NEW z, After(z, t),
         NEW op, op # "none", NEW l \in WaitLists, Queued(s, th, op, l), Woke(z, op, l),
         t \notin Awake(s, th, op)
  PROVE  /\ Queued(s', th', op, l)
         /\ \A n \in Int : Enough(s, th, op, l, n) => Enough(s', th', op, l, n + 1)
<1>1. \A u \in Threads : InWait(s', u, l) <=> InWait(z, u, l)
  BY DEF After, Untouched
<1>2. ~InWait(s, t, l)
  BY Runner
<1>3. \A u \in Threads : InWait(z, u, l) => InWait(s, u, l)
  BY ThreadsListed DEF Woke
<1>4. Queued(s', th', op, l)
  BY <1>1, <1>2, <1>3 DEF After, Queued
<1>5. PICK A : A = Awake(s, th, op)
  OBVIOUS
<1>6. t \notin A /\ IsFiniteSet(A) /\ Cardinality(A) \in Nat
  <2>1. t \notin A
    BY <1>5
  <2> QED BY <1>5, <2>1, AwakeFinite
<1>7. s'.wait[l] # <<>> => z.wait[l] # <<>> /\ s.wait[l] # <<>>
  BY <1>1, <1>3, WaitingMeans DEF After, Woke
<1>8. CASE ~Waiting(l)
  BY <1>4, <1>7, <1>8 DEF Enough, Waiting
<1>9. CASE Waiting(l)
  <2>1. PICK u \in Threads : /\ InWait(s, u, l) /\ u \notin A
                             /\ Awake(z, th, op) = A \cup {u}
    BY <1>5, <1>9 DEF Woke
  <2>2. Awake(s', th', op) = (A \cup {u}) \ {t}
    BY <2>1 DEF After
  <2>3. (A \cup {u}) \ {t} = A \cup {u}
    BY <1>2, <1>6, <2>1
  <2>4. Cardinality(A \cup {u}) = Cardinality(A) + 1
    BY <1>6, <2>1, FS_AddElement
  <2>5. Cardinality(Awake(s', th', op)) = Cardinality(A) + 1
    BY <2>2, <2>3, <2>4
  <2>6. ASSUME NEW n \in Int, Enough(s, th, op, l, n) PROVE Enough(s', th', op, l, n + 1)
    <3> SUFFICES ASSUME s'.wait[l] # <<>> PROVE n + 1 <= Cardinality(Awake(s', th', op))
      BY DEF Enough
    <3>1. n <= Cardinality(A)
      BY <1>5, <1>7, <2>6 DEF Enough
    <3> QED BY <1>6, <2>5, <3>1
  <2> QED BY <1>4, <2>6
<1> QED BY <1>8, <1>9

\* Meanwhile those who wait for something else are as before, but for t.
LEMMA GivenOther ==
  ASSUME Sound(s), NEW t \in Threads, Runs(t), NEW z, After(z, t),
         NEW b, NEW k \in WaitLists, Woke(z, b, k),
         NEW op, op # "none", NEW l \in WaitLists, l # k, op # b, Queued(s, th, op, l)
  PROVE  /\ Queued(s', th', op, l)
         /\ \A n \in Int : Enough(s, th, op, l, n) => Enough(s', th', op, l, n - 1)
         /\ t \notin Awake(s, th, op) => \A n \in Int :
              Enough(s, th, op, l, n) => Enough(s', th', op, l, n)
<1>1. \A u \in Threads : InWait(s', u, l) <=> InWait(z, u, l)
  BY DEF After, Untouched
<1>2. ~InWait(s, t, l)
  BY Runner
<1>3. \A u \in Threads : InWait(z, u, l) => InWait(s, u, l)
  BY ThreadsListed DEF Woke
<1>4. Queued(s', th', op, l)
  BY <1>1, <1>2, <1>3 DEF After, Queued
<1>5. PICK A : A = Awake(s, th, op)
  OBVIOUS
<1>6. Awake(s', th', op) = A \ {t}
  BY <1>5 DEF After, Woke
<1>7. Cardinality(A) \in Nat /\ Cardinality(A \ {t}) \in Nat
        /\ Cardinality(A) - 1 <= Cardinality(A \ {t})
  BY <1>5, OneLess
<1>8. s'.wait[l] # <<>> => s.wait[l] # <<>>
  BY <1>1, <1>3, WaitingMeans DEF After, Woke
<1>9. t \notin Awake(s, th, op) => A \ {t} = A
  BY <1>5
<1>10. ASSUME NEW n \in Int, Enough(s, th, op, l, n) PROVE Enough(s', th', op, l, n - 1)
  <2> SUFFICES ASSUME s'.wait[l] # <<>> PROVE n - 1 <= Cardinality(Awake(s', th', op))
    BY DEF Enough
  <2>1. n <= Cardinality(A)
    BY <1>5, <1>8, <1>10 DEF Enough
  <2>2. PICK c \in Nat, d \in Nat : c = Cardinality(A) /\ d = Cardinality(A \ {t}) /\ c - 1 <= d
    BY <1>7
  <2>3. n - 1 <= d
    BY <2>1, <2>2
  <2> QED BY <1>6, <2>2, <2>3
<1>11. ASSUME NEW n \in Int, Enough(s, th, op, l, n), t \notin Awake(s, th, op)
      PROVE  Enough(s', th', op, l, n)
  BY <1>5, <1>6, <1>8, <1>9, <1>11 DEF Enough
<1> QED BY <1>4, <1>10, <1>11

\* After a reset nobody waits.
LEMMA ResetQueue ==
  ASSUME NEW op, NEW l \in WaitLists, Reset(l)
  PROVE  Queued(s', th', op, l) /\ \A n : Enough(s', th', op, l, n)
<1>1. s'.wait[l] = <<>>
  BY WaitingMeans DEF Reset
<1> QED BY <1>1 DEF Reset, Queued, Enough

\* A thread that looks at the object is in no other call.
LEMMA LooksOp ==
  ASSUME ThOk(s, th), NEW t \in Threads, NEW op, NEW arg, Looks(t, op, arg)
  PROVE  /\ Runs(t) /\ th[t].op \in {"none", op}
         /\ \A k : k \notin {"none", op} => t \notin Awake(s, th, k)
<1>1. Runs(t) /\ th[t].op \in {"none", op}
  BY DEF Looks, InUser, Woken, ThOk
<1> QED BY <1>1 DEF Awake

\* A thread outside any call is awake for nothing.
LEMMA UserOp ==
  ASSUME ThOk(s, th), NEW t \in Threads, InUser(t)
  PROVE  /\ Runs(t) /\ th[t].pc = "user" /\ th[t].op = "none"
         /\ \A k : k # "none" => t \notin Awake(s, th, k)
<1>1. Runs(t) /\ th[t].pc = "user" /\ th[t].op = "none"
  BY DEF InUser, ThOk
<1> QED BY <1>1 DEF Awake

\* A call that fails changes nothing for the others.
LEMMA FailsAfter ==
  ASSUME Sound(s), ThOk(s, th), NEW t \in Threads, NEW op, Fails(t, op)
  PROVE  /\ Runs(t) /\ After(s, t) /\ UNCHANGED ipcVars
         /\ \A k : t \notin Awake(s, th, k)
<1>1. Runs(t) /\ s.err[t] = "ERROR" /\ Return(t, s) /\ UNCHANGED ipcVars
  BY DEF Fails, Woken
<1>2. s.stat[t] # "suspend"
  BY <1>1 DEF Runs
<1>3. After(s, t)
  BY <1>1, <1>2, ReturnAfter
<1> QED BY <1>1, <1>3 DEF Awake

\* A call wakes the first of l and ends.
LEMMA WakeReturns ==
  ASSUME Sound(s), ThOk(s, th), NEW t \in Threads, Runs(t), NEW l \in WaitLists,
         NEW op, Queued(s, th, op, l), Return(t, Wake(l))
  PROVE  Woke(Wake(l), op, l) /\ After(Wake(l), t)
<1>1. PICK z : z = Wake(l)
  OBVIOUS
<1>2. Woke(z, op, l)
  BY <1>1, WakeWakes
<1>3. z.stat[t] # "suspend" /\ Sound(z) /\ ThOk(z, th)
  BY <1>2 DEF Woke, Runs
<1>4. After(z, t)
  BY <1>1, <1>3, ReturnAfter
<1> QED BY <1>1, <1>2, <1>4

\* A call that neither waited nor copied wakes the first of l.
LEMMA WakeStays ==
  ASSUME Sound(s), ThOk(s, th), NEW t \in Threads, InUser(t), NEW l \in WaitLists,
         NEW op, Queued(s, th, op, l), s' = Wake(l), th' = th
  PROVE  Woke(Wake(l), op, l) /\ After(Wake(l), t)
<1>1. PICK z : z = Wake(l)
  OBVIOUS
<1>2. Woke(z, op, l)
  BY <1>1, WakeWakes
<1>3. Sound(z) /\ ThOk(z, th) /\ th[t].pc = "user"
  BY <1>2 DEF Woke, InUser
<1>4. After(z, t)
  BY <1>1, <1>3, StaysAfter
<1> QED BY <1>1, <1>2, <1>4

-----------------------------------------------------------------------------
(* The mailbox. *)

Places == 0 .. MbSize - 1

MbType ==
  /\ o = [pool |-> o.pool, in |-> o.in, out |-> o.out, entry |-> o.entry, FIFO |-> o.FIFO]
  /\ o.pool \in [Places -> Msgs \cup {Nil}]
  /\ o.in \in Places /\ o.out \in Places /\ o.entry \in 0 .. MbSize
  /\ o.FIFO \in Seq(Msgs) /\ Len(o.FIFO) = o.entry

MbInv == MbType /\ RingHoldsFifo

(* What the three services do to the ring, apart from waiting. *)

Put(msg) ==
  o' = [o EXCEPT !.pool[o.in] = msg, !.in = MbNext(@), !.entry = @ + 1,
                 !.FIFO = Append(@, msg)]
PutFirst(msg) ==
  o' = [o EXCEPT !.pool[MbPrev(o.out)] = msg, !.out = MbPrev(@), !.entry = @ + 1,
                 !.FIFO = <<msg>> \o @]
Get ==
  o' = [o EXCEPT !.pool[o.out] = Nil, !.out = MbNext(@), !.entry = @ - 1,
                 !.FIFO = Tail(@)]

\* rt_mb_send.
LEMMA PutKeeps ==
  ASSUME MbInv, NEW msg \in Msgs, Put(msg), o.entry < MbSize
  PROVE  MbInv'
<1> USE IpcAssumption
<1>1. /\ o'.pool = [o.pool EXCEPT ![o.in] = msg] /\ o'.in = MbNext(o.in) /\ o'.out = o.out
      /\ o'.entry = o.entry + 1 /\ o'.FIFO = Append(o.FIFO, msg)
      /\ o' = [pool |-> o'.pool, in |-> o'.in, out |-> o'.out, entry |-> o'.entry,
               FIFO |-> o'.FIFO]
  BY DEF MbInv, MbType, Put
<1>2. MbType'
  BY <1>1 DEF MbInv, MbType, MbNext, Places
<1>3. o.in = Wrapped(o.out + o.entry) /\ o'.in = Wrapped(o'.out + o'.entry)
  BY <1>1, SMTT(40) DEF MbInv, MbType, MbNext, Places, RingHoldsFifo, Wrapped
<1>4. ASSUME NEW i \in 1 .. o.entry + 1
      PROVE  o'.FIFO[i] = o'.pool[Wrapped(o'.out + i - 1)]
  <2>1. CASE i = o.entry + 1
    <3>1. Wrapped(o'.out + i - 1) = o.in /\ o'.pool[o.in] = msg
      BY <1>1, <1>3, <2>1 DEF MbInv, MbType, Places
    <3>2. o'.FIFO[i] = msg
      BY <1>1, <2>1 DEF MbInv, MbType
    <3> QED BY <3>1, <3>2
  <2>2. CASE i # o.entry + 1
    <3>1. i \in 1 .. o.entry /\ i - 1 < o.entry
      BY <2>2 DEF MbInv, MbType
    <3>2. Wrapped(o.out + i - 1) # o.in /\ Wrapped(o.out + i - 1) \in Places
      BY <1>3, <3>1, SMTT(40) DEF MbInv, MbType, Places, Wrapped
    <3>3. o'.FIFO[i] = o.FIFO[i]
      BY <1>1, <3>1 DEF MbInv, MbType
    <3>4. o.FIFO[i] = o.pool[Wrapped(o.out + i - 1)]
      BY <3>1 DEF MbInv, RingHoldsFifo
    <3> QED BY <1>1, <3>2, <3>3, <3>4 DEF MbInv, MbType
  <2> QED BY <2>1, <2>2
<1>5. o'.FIFO = [i \in 1 .. o'.entry |-> o'.pool[Wrapped(o'.out + i - 1)]]
  <2>1. o'.FIFO \in Seq(Msgs) /\ Len(o'.FIFO) = o'.entry
    BY <1>2 DEF MbType
  <2>2. o'.FIFO = [i \in 1 .. o'.entry |-> o'.FIFO[i]]
    BY <2>1
  <2> QED BY <1>1, <1>4, <2>2
<1> QED BY <1>2, <1>3, <1>5 DEF MbInv, RingHoldsFifo

\* rt_mb_urgent.
LEMMA PutFirstKeeps ==
  ASSUME MbInv, NEW msg \in Msgs, PutFirst(msg), o.entry < MbSize
  PROVE  MbInv'
<1> USE IpcAssumption
<1>1. /\ o'.pool = [o.pool EXCEPT ![MbPrev(o.out)] = msg] /\ o'.out = MbPrev(o.out)
      /\ o'.in = o.in /\ o'.entry = o.entry + 1 /\ o'.FIFO = <<msg>> \o o.FIFO
      /\ o' = [pool |-> o'.pool, in |-> o'.in, out |-> o'.out, entry |-> o'.entry,
               FIFO |-> o'.FIFO]
  BY DEF MbInv, MbType, PutFirst
<1>2. MbType'
  <2>1. MbPrev(o.out) \in Places
    BY DEF MbInv, MbType, MbPrev, Places
  <2>2. o'.FIFO \in Seq(Msgs) /\ Len(o'.FIFO) = o.entry + 1
    BY <1>1 DEF MbInv, MbType
  <2>3. o'.pool \in [Places -> Msgs \cup {Nil}]
    BY <1>1, <2>1 DEF MbInv, MbType
  <2>4. o'.in \in Places /\ o'.out \in Places
    BY <1>1, <2>1 DEF MbInv, MbType
  <2>5. o'.entry \in 0 .. MbSize /\ Len(o'.FIFO) = o'.entry
    BY <1>1, <2>2 DEF MbInv, MbType
  <2> QED BY <1>1, <2>2, <2>3, <2>4, <2>5 DEF MbType
<1>3. o'.in = Wrapped(o'.out + o'.entry)
  <2>1. /\ o.out \in Nat /\ o.out < MbSize /\ MbSize \in Nat /\ o.entry \in Nat
        /\ o'.out = IF o.out > 0 THEN o.out - 1 ELSE MbSize - 1
        /\ o.in = Wrapped(o.out + o.entry) /\ o'.in = o.in /\ o'.entry = o.entry + 1
    BY <1>1 DEF MbInv, MbType, MbPrev, Places, RingHoldsFifo
  <2>2. CASE o.out > 0
    BY <2>1, <2>2 DEF Wrapped
  <2>3. CASE o.out = 0
    BY <2>1, <2>3 DEF Wrapped
  <2> QED BY <2>1, <2>2, <2>3
<1>4. ASSUME NEW i \in 1 .. o.entry + 1
      PROVE  o'.FIFO[i] = o'.pool[Wrapped(o'.out + i - 1)]
  <2>1. CASE i = 1
    <3>1. Wrapped(o'.out + i - 1) = o'.out /\ o'.pool[o'.out] = msg
      BY <1>1, <1>2, <2>1 DEF MbInv, MbType, Places, Wrapped
    <3>2. o'.FIFO[i] = msg
      BY <1>1, <2>1 DEF MbInv, MbType
    <3> QED BY <3>1, <3>2
  <2>2. CASE i # 1
    <3>1. i - 1 \in 1 .. o.entry /\ o.entry \in Nat /\ i \in Nat /\ i > 1
      BY <2>2 DEF MbInv, MbType
    <3>2. /\ Wrapped(o'.out + i - 1) = Wrapped(o.out + (i - 1) - 1)
          /\ Wrapped(o'.out + i - 1) # o'.out /\ Wrapped(o'.out + i - 1) \in Places
      <4>1. /\ o.out \in Nat /\ o.out < MbSize /\ MbSize \in Nat
            /\ o'.out = IF o.out > 0 THEN o.out - 1 ELSE MbSize - 1
        BY <1>1 DEF MbInv, MbType, Places, MbPrev
      <4>2. i <= MbSize
        BY <3>1, <4>1 DEF MbInv, MbType
      <4>3. CASE o.out > 0
        BY <3>1, <4>1, <4>2, <4>3 DEF Wrapped, Places
      <4>4. CASE o.out = 0
        BY <3>1, <4>1, <4>2, <4>4 DEF Wrapped, Places
      <4> QED BY <4>1, <4>3, <4>4
    <3>3. o'.FIFO[i] = o.FIFO[i - 1]
      <4>1. o.FIFO \in Seq(Msgs) /\ Len(o.FIFO) = o.entry
        BY DEF MbInv, MbType
      <4>2. (<<msg>> \o o.FIFO)[i] = o.FIFO[i - 1]
        BY <3>1, <4>1
      <4> QED BY <1>1, <4>2
    <3>4. o.FIFO[i - 1] = o.pool[Wrapped(o.out + (i - 1) - 1)]
      BY <3>1 DEF MbInv, RingHoldsFifo
    <3> QED BY <1>1, <3>2, <3>3, <3>4 DEF MbInv, MbType
  <2> QED BY <2>1, <2>2
<1>5. o'.FIFO = [i \in 1 .. o'.entry |-> o'.pool[Wrapped(o'.out + i - 1)]]
  <2>1. o'.FIFO \in Seq(Msgs) /\ Len(o'.FIFO) = o'.entry
    BY <1>2 DEF MbType
  <2>2. o'.FIFO = [i \in 1 .. o'.entry |-> o'.FIFO[i]]
    BY <2>1
  <2> QED BY <1>1, <1>4, <2>2
<1> QED BY <1>2, <1>3, <1>5 DEF MbInv, RingHoldsFifo

\* rt_mb_recv.
LEMMA GetKeeps ==
  ASSUME MbInv, Get, o.entry > 0
  PROVE  MbInv'
<1> USE IpcAssumption
<1>1. /\ o'.pool = [o.pool EXCEPT ![o.out] = Nil] /\ o'.out = MbNext(o.out)
      /\ o'.in = o.in /\ o'.entry = o.entry - 1 /\ o'.FIFO = Tail(o.FIFO)
      /\ o' = [pool |-> o'.pool, in |-> o'.in, out |-> o'.out, entry |-> o'.entry,
               FIFO |-> o'.FIFO]
  BY DEF MbInv, MbType, Get
<1>2. o.FIFO # <<>>
  BY DEF MbInv, MbType
<1>3. MbType'
  BY <1>1, <1>2 DEF MbInv, MbType, MbNext, Places
<1>4. o'.in = Wrapped(o'.out + o'.entry)
  BY <1>1, SMTT(40) DEF MbInv, MbType, MbNext, Places, RingHoldsFifo, Wrapped
<1>5. ASSUME NEW i \in 1 .. o.entry - 1
      PROVE  o'.FIFO[i] = o'.pool[Wrapped(o'.out + i - 1)]
  <2>1. i + 1 \in 1 .. o.entry
    BY DEF MbInv, MbType
  <2>2. /\ Wrapped(o'.out + i - 1) = Wrapped(o.out + (i + 1) - 1)
        /\ Wrapped(o'.out + i - 1) # o.out /\ Wrapped(o'.out + i - 1) \in Places
    <3>1. /\ o.out \in Nat /\ o.out < MbSize /\ MbSize \in Nat /\ o.entry \in Nat
          /\ o.entry <= MbSize /\ o'.out = IF o.out + 1 >= MbSize THEN 0 ELSE o.out + 1
      BY <1>1 DEF MbInv, MbType, Places, MbNext
    <3>2. i \in Nat /\ i >= 1 /\ i < MbSize
      BY <2>1, <3>1
    <3>3. CASE o.out + 1 >= MbSize
      BY <3>1, <3>2, <3>3 DEF Wrapped, Places
    <3>4. CASE o.out + 1 < MbSize
      BY <3>1, <3>2, <3>4 DEF Wrapped, Places
    <3> QED BY <3>1, <3>3, <3>4
  <2>3. o'.FIFO[i] = o.FIFO[i + 1]
    BY <1>1, <1>2, <2>1 DEF MbInv, MbType
  <2>4. o.FIFO[i + 1] = o.pool[Wrapped(o.out + (i + 1) - 1)]
    BY <2>1 DEF MbInv, RingHoldsFifo
  <2> QED BY <1>1, <2>2, <2>3, <2>4 DEF MbInv, MbType
<1>6. o'.FIFO = [i \in 1 .. o'.entry |-> o'.pool[Wrapped(o'.out + i - 1)]]
  <2>1. o'.FIFO \in Seq(Msgs) /\ Len(o'.FIFO) = o'.entry
    BY <1>3 DEF MbType
  <2>2. o'.FIFO = [i \in 1 .. o'.entry |-> o'.FIFO[i]]
    BY <2>1
  <2> QED BY <1>1, <1>5, <2>2
<1> QED BY <1>3, <1>4, <1>6 DEF MbInv, RingHoldsFifo

\* rt_mb_init and the reset.
LEMMA EmptyKeeps ==
  /\ o = MbObject => MbInv
  /\ o' = MbObject => MbInv'
<1>1. MbSize \in Nat \ {0}
  BY IpcAssumption DEF IpcAssumption
<1>2. ASSUME o = MbObject
      PROVE  MbInv
  <2>1. MbType
    BY <1>1, <1>2 DEF MbType, MbObject, Places
  <2>2. RingHoldsFifo
    BY <1>1, <1>2 DEF MbObject, RingHoldsFifo, Wrapped
  <2> QED BY <2>1, <2>2 DEF MbInv
<1>3. ASSUME o' = MbObject
      PROVE  MbInv'
  <2>1. MbType'
    BY <1>1, <1>3 DEF MbType, MbObject, Places
  <2>2. RingHoldsFifo'
    BY <1>1, <1>3 DEF MbObject, RingHoldsFifo, Wrapped
  <2> QED BY <2>1, <2>2 DEF MbInv
<1> QED BY <1>2, <1>3

\* The count of messages moves by one.
LEMMA EntryMoves ==
  ASSUME MbInv
  PROVE  /\ \A msg : Put(msg) \/ PutFirst(msg) => o'.entry = o.entry + 1
         /\ Get => o'.entry = o.entry - 1
<1>1. ASSUME NEW msg, Put(msg) PROVE o'.entry = o.entry + 1
  BY <1>1 DEF MbInv, MbType, Put
<1>2. ASSUME NEW msg, PutFirst(msg) PROVE o'.entry = o.entry + 1
  BY <1>2 DEF MbInv, MbType, PutFirst
<1>3. ASSUME Get PROVE o'.entry = o.entry - 1
  BY <1>3 DEF MbInv, MbType, Get
<1> QED BY <1>1, <1>2, <1>3

(* Who waits for it. *)

MbQueues(z, x, n) ==
  /\ Sound(z) /\ ThOk(z, x)
  /\ Queued(z, x, "mb_recv", recv) /\ Queued(z, x, "mb_send", send)
  /\ Enough(z, x, "mb_recv", recv, n) /\ Enough(z, x, "mb_send", send, MbSize - n)

MbFacts ==
  /\ Sound(s) /\ ThOk(s, th) /\ recv \in WaitLists /\ send \in WaitLists /\ recv # send
  /\ Queued(s, th, "mb_recv", recv) /\ Queued(s, th, "mb_send", send)
  /\ Enough(s, th, "mb_recv", recv, o.entry) /\ Enough(s, th, "mb_send", send, MbSize - o.entry)
  /\ MbSize \in Int /\ o.entry \in Int /\ MbInv

\* Something was put in, and its first receiver woken.
LEMMA PutQueues ==
  ASSUME MbFacts, NEW t \in Threads, Runs(t), t \notin Awake(s, th, "mb_recv"),
         NEW z, After(z, t), Woke(z, "mb_recv", recv), o'.entry = o.entry + 1
  PROVE  MbQueues(s', th', o'.entry)
<1>1. Queued(s', th', "mb_recv", recv) /\ Enough(s', th', "mb_recv", recv, o.entry + 1)
  BY GivenQueue DEF MbFacts
<1>2. Queued(s', th', "mb_send", send) /\ Enough(s', th', "mb_send", send, (MbSize - o.entry) - 1)
  BY GivenOther DEF MbFacts
<1>3. (MbSize - o.entry) - 1 = MbSize - o'.entry
  BY DEF MbFacts
<1> QED BY <1>1, <1>2, <1>3 DEF MbQueues, After

\* rt_mb_send: something was put in, or the sender waits, or gives up.
LEMMA SendQueues ==
  ASSUME MbFacts, NEW t \in Threads, NEW msg \in Msgs, rt_mb_send(t, msg)
  PROVE  MbQueues(s', th', o'.entry) /\ MbInv'
<1> USE DEF MbFacts
<1>1. Runs(t) /\ t \notin Awake(s, th, "mb_recv")
  BY LooksOp DEF rt_mb_send
<1>2. CASE o.entry < MbSize /\ Put(msg) /\ Return(t, Wake(recv))
  <2>1. Woke(Wake(recv), "mb_recv", recv) /\ After(Wake(recv), t)
    BY <1>1, <1>2, WakeReturns
  <2>2. o'.entry = o.entry + 1 /\ MbInv'
    BY <1>2, EntryMoves, PutKeeps
  <2> HIDE DEF MbFacts
  <2> QED BY <1>1, <2>1, <2>2, PutQueues
<1>3. CASE o.entry = MbSize /\ o' = o
  <2>1. MbSize - o'.entry = 0 /\ MbInv'
    BY <1>3, SMTT(40) DEF MbInv, MbType, RingHoldsFifo
  <2>2. Enough(s', th', "mb_send", send, 0)
    BY EnoughOfNothing
  <2>3. CASE Block(t, send, Flag, "mb_send", msg)
    <3>1. Blocked(t, send, "mb_send", msg)
      BY <1>1, <2>3, BlockBlocks
    <3>2. Queued(s', th', "mb_send", send)
      BY <1>1, <3>1, BlockedQueue
    <3>3. Queued(s', th', "mb_recv", recv) /\ Enough(s', th', "mb_recv", recv, o.entry)
      BY <1>1, <3>1, BlockedOther
    <3> QED BY <1>3, <2>1, <2>2, <3>1, <3>2, <3>3 DEF MbQueues, Blocked
  <2>4. CASE Return(t, s)
    <3>1. After(s, t)
      BY <1>1, <2>4, ReturnAfter DEF Runs
    <3>2. Queued(s', th', "mb_send", send)
      BY <1>1, <3>1, TakenQueue
    <3>3. Queued(s', th', "mb_recv", recv) /\ Enough(s', th', "mb_recv", recv, o.entry)
      BY <1>1, <3>1, TakenQueue
    <3> QED BY <1>3, <2>1, <2>2, <3>1, <3>2, <3>3 DEF MbQueues, After
  <2> QED BY <1>3, <2>3, <2>4 DEF rt_mb_send
<1> QED BY <1>2, <1>3 DEF rt_mb_send, Put

\* rt_mb_urgent never waits.
LEMMA UrgentQueues ==
  ASSUME MbFacts, NEW t \in Threads, NEW msg \in Msgs, rt_mb_urgent(t, msg)
  PROVE  MbQueues(s', th', o'.entry) /\ MbInv'
<1>1. Runs(t) /\ t \notin Awake(s, th, "mb_recv")
  BY UserOp DEF rt_mb_urgent, MbFacts
<1>2. Woke(Wake(recv), "mb_recv", recv) /\ After(Wake(recv), t)
  BY WakeStays DEF rt_mb_urgent, MbFacts
<1>3. PutFirst(msg) /\ o.entry < MbSize
  BY DEF rt_mb_urgent, PutFirst
<1>4. o'.entry = o.entry + 1 /\ MbInv'
  BY <1>3, EntryMoves, PutFirstKeeps DEF MbFacts
<1> QED BY <1>1, <1>2, <1>4, PutQueues

\* rt_mb_recv: something was taken out, or the receiver waits, or gives up.
LEMMA RecvQueues ==
  ASSUME MbFacts, NEW t \in Threads, rt_mb_recv(t)
  PROVE  MbQueues(s', th', o'.entry) /\ MbInv'
<1> USE DEF MbFacts
<1>1. Runs(t) /\ t \notin Awake(s, th, "mb_send")
  BY LooksOp DEF rt_mb_recv
<1>2. CASE o.entry > 0 /\ Get /\ Return(t, Wake(send))
  <2>1. Woke(Wake(send), "mb_send", send) /\ After(Wake(send), t)
    BY <1>1, <1>2, WakeReturns
  <2>2. o'.entry = o.entry - 1 /\ MbInv'
    BY <1>2, EntryMoves, GetKeeps
  <2>3. Queued(s', th', "mb_send", send) /\ Enough(s', th', "mb_send", send, (MbSize - o.entry) + 1)
    BY <1>1, <2>1, GivenQueue
  <2>4. Queued(s', th', "mb_recv", recv) /\ Enough(s', th', "mb_recv", recv, o.entry - 1)
    BY <1>1, <2>1, GivenOther
  <2>5. (MbSize - o.entry) + 1 = MbSize - o'.entry
    BY <2>2
  <2> QED BY <2>1, <2>2, <2>3, <2>4, <2>5 DEF MbQueues, After
<1>3. CASE o.entry = 0 /\ o' = o
  <2>1. MbInv'
    BY <1>3 DEF MbInv, MbType, RingHoldsFifo
  <2>2. Enough(s', th', "mb_recv", recv, 0)
    BY EnoughOfNothing
  <2>3. CASE Block(t, recv, Flag, "mb_recv", "none")
    <3>1. Blocked(t, recv, "mb_recv", "none")
      BY <1>1, <2>3, BlockBlocks
    <3>2. Queued(s', th', "mb_recv", recv)
      BY <1>1, <3>1, BlockedQueue
    <3>3. Queued(s', th', "mb_send", send) /\ Enough(s', th', "mb_send", send, MbSize - o.entry)
      BY <1>1, <3>1, BlockedOther
    <3> QED BY <1>3, <2>1, <2>2, <3>1, <3>2, <3>3 DEF MbQueues, Blocked
  <2>4. CASE Return(t, s)
    <3>1. After(s, t)
      BY <1>1, <2>4, ReturnAfter DEF Runs
    <3>2. Queued(s', th', "mb_recv", recv)
      BY <1>1, <3>1, TakenQueue
    <3>3. Queued(s', th', "mb_send", send) /\ Enough(s', th', "mb_send", send, MbSize - o.entry)
      BY <1>1, <3>1, TakenQueue
    <3> QED BY <1>3, <2>1, <2>2, <3>1, <3>2, <3>3 DEF MbQueues, After
  <2> QED BY <1>3, <2>3, <2>4 DEF rt_mb_recv
<1> QED BY <1>2, <1>3 DEF rt_mb_recv, Get

\* Whoever only leaves its call leaves the waiters what they had.
LEMMA MbFailQueues ==
  ASSUME MbFacts, NEW t \in Threads, NEW op, Fails(t, op)
  PROVE  MbQueues(s', th', o'.entry) /\ MbInv'
<1> USE DEF MbFacts
<1>1. /\ Runs(t) /\ After(s, t) /\ o' = o
      /\ t \notin Awake(s, th, "mb_recv") /\ t \notin Awake(s, th, "mb_send")
  BY FailsAfter DEF ipcVars
<1>2. Queued(s', th', "mb_send", send) /\ Enough(s', th', "mb_send", send, MbSize - o.entry)
  BY <1>1, TakenQueue
<1>3. Queued(s', th', "mb_recv", recv) /\ Enough(s', th', "mb_recv", recv, o.entry)
  BY <1>1, TakenQueue
<1> QED BY <1>1, <1>2, <1>3 DEF MbQueues, After, MbInv, MbType, RingHoldsFifo

\* A reset leaves nobody waiting.
LEMMA MbResetQueues ==
  ASSUME MbFacts, NEW t \in Threads, rt_mb_control(t)
  PROVE  MbQueues(s', th', o'.entry) /\ MbInv'
<1>1. Reset(recv) /\ Reset(send)
  BY ResetTwo DEF rt_mb_control, MbFacts
<1>2. /\ Queued(s', th', "mb_recv", recv) /\ Enough(s', th', "mb_recv", recv, o'.entry)
      /\ Queued(s', th', "mb_send", send) /\ Enough(s', th', "mb_send", send, MbSize - o'.entry)
  BY <1>1, ResetQueue DEF MbFacts
<1>3. MbInv'
  BY EmptyKeeps DEF rt_mb_control
<1> QED BY <1>1, <1>2, <1>3 DEF MbQueues, Reset

\* Every service of the mailbox.
LEMMA MbQueuesStep ==
  ASSUME MbQueues(s, th, o.entry), MbInv, NEW t \in Threads, MbStep(t)
  PROVE  MbQueues(s', th', o'.entry) /\ MbInv'
<1>1. MbFacts
  BY Lists2, IpcAssumption DEF MbQueues, MbFacts, recv, send, MbInv, MbType
<1> QED BY <1>1, SendQueues, UrgentQueues, RecvQueues, MbFailQueues, MbResetQueues DEF MbStep

\* A list without duplicates has as many elements as members.
LEMMA LengthIsSize ==
  ASSUME NEW S, NEW q \in Seq(S), IsInjective(q)
  PROVE  IsFiniteSet(Members(q)) /\ Cardinality(Members(q)) = Len(q)
<1>1. PICK n \in Nat : n = Len(q) /\ DOMAIN q = 1 .. n
  OBVIOUS
<1>2. q \in Bijection(1 .. n, Members(q))
  <2>1. q \in [1 .. n -> Members(q)]
    BY <1>1 DEF Members
  <2>2. q \in Injection(1 .. n, Members(q))
    BY <2>1 DEF Injection
  <2>3. \A m \in Members(q) : \E i \in 1 .. n : q[i] = m
    BY <1>1 DEF Members
  <2>4. q \in Surjection(1 .. n, Members(q))
    BY <2>1, <2>3 DEF Surjection
  <2> QED BY <2>2, <2>4 DEF Bijection
<1>3. ExistsBijection(1 .. n, Members(q))
  BY <1>2 DEF ExistsBijection
<1>4. PICK D : D = 1 .. n
  OBVIOUS
<1>5. IsFiniteSet(D) /\ Cardinality(D) = n
  <2>0. n \in Nat /\ 1 \in Int /\ n \in Int
    OBVIOUS
  <2>1. IsFiniteSet(1 .. n) /\ Cardinality(1 .. n) = IF 1 > n THEN 0 ELSE n - 1 + 1
    BY <2>0, FS_Interval, Zenon
  <2> QED BY <1>4, <2>0, <2>1
<1>6. PICK M : M = Members(q)
  OBVIOUS
<1>7. ExistsBijection(D, M)
  BY <1>3, <1>4, <1>6, Zenon
<1>8. Cardinality(M) = Cardinality(D) /\ IsFiniteSet(M)
  BY <1>5, <1>7, FS_Bijection
<1> QED BY <1>1, <1>5, <1>6, <1>8

\* All but the first.
LEMMA TailTakes ==
  ASSUME NEW S, NEW q \in Seq(S), q # <<>>, IsInjective(q)
  PROVE  /\ Head(q) \in Members(q) /\ Tail(q) \in Seq(S) /\ Len(Tail(q)) = Len(q) - 1
         /\ IsInjective(Tail(q)) /\ Members(Tail(q)) = Members(q) \ {Head(q)}
<1>1. PICK n \in Nat : n = Len(q) /\ n > 0 /\ DOMAIN q = 1 .. n
  OBVIOUS
<1>2. PICK r \in Seq(S) : r = Tail(q) /\ Len(r) = n - 1 /\ \A i \in 1 .. n - 1 : r[i] = q[i + 1]
  <2>1. /\ Tail(q) \in Seq(S) /\ Len(Tail(q)) = Len(q) - 1
        /\ \A i \in 1 .. Len(Tail(q)) : Tail(q)[i] = q[i + 1]
    BY HeadTailProperties
  <2> QED BY <1>1, <2>1
<1>3. Head(q) = q[1]
  OBVIOUS
<1>4. \A i, j \in 1 .. n : q[i] = q[j] => i = j
  BY <1>1 DEF IsInjective
<1>5. \A i \in 1 .. n - 1 : i + 1 \in 1 .. n /\ i + 1 # 1
  BY <1>1
<1>6. IsInjective(r)
  <2>1. DOMAIN r = 1 .. n - 1
    BY <1>2
  <2> SUFFICES ASSUME NEW i \in 1 .. n - 1, NEW j \in 1 .. n - 1, r[i] = r[j] PROVE i = j
    BY <2>1 DEF IsInjective
  <2>2. i + 1 = j + 1
    BY <1>2, <1>4, <1>5
  <2> QED BY <2>2
<1>7. Members(r) = Members(q) \ {Head(q)}
  <2>1. ASSUME NEW x \in Members(r) PROVE x \in Members(q) \ {Head(q)}
    <3>1. PICK i \in 1 .. n - 1 : r[i] = x
      <4>1. \E i \in 1 .. Len(r) : r[i] = x
        BY <2>1, Indexed
      <4> QED BY <1>2, <4>1
    <3>2. x = q[i + 1] /\ i + 1 \in 1 .. n /\ i + 1 # 1 /\ 1 \in 1 .. n
      BY <1>1, <1>2, <1>5, <3>1
    <3>3. x # q[1] /\ x \in Members(q)
      BY <1>1, <1>4, <3>2 DEF Members
    <3> QED BY <1>3, <3>3
  <2>2. ASSUME NEW x \in Members(q) \ {Head(q)} PROVE x \in Members(r)
    <3>1. PICK i \in 1 .. n : q[i] = x
      BY <1>1 DEF Members
    <3>2. i - 1 \in 1 .. n - 1
      BY <1>1, <1>3, <2>2, <3>1
    <3>3. r[i - 1] = x
      BY <1>2, <3>1, <3>2
    <3> QED BY <1>2, <3>2, <3>3, Indexed
  <2> QED BY <2>1, <2>2
<1>8. Head(q) \in Members(q)
  BY <1>1, <1>3 DEF Members
<1> QED BY <1>1, <1>2, <1>6, <1>7, <1>8

-----------------------------------------------------------------------------
(* The memory pool. *)

MpType ==
  /\ o = [list |-> o.list, count |-> o.count, HAS |-> o.HAS]
  /\ o.list \in Seq(Blocks) /\ o.count = Len(o.list) /\ o.HAS \in [Threads -> SUBSET Blocks]
  /\ IsInjective(o.list)
MpInv ==
  /\ MpType
  /\ \A t \in Threads : o.HAS[t] \cap Members(o.list) = {}
  /\ \A t, u \in Threads : t # u => o.HAS[t] \cap o.HAS[u] = {}
  /\ \A b \in Blocks : b \in Members(o.list) \/ \E t \in Threads : b \in o.HAS[t]

\* A block is taken from the list.
LEMMA AllocKeeps ==
  ASSUME MpInv, NEW t \in Threads, o.count > 0,
         o' = [o EXCEPT !.count = @ - 1, !.list = Tail(@), !.HAS[t] = @ \cup {Head(o.list)}]
  PROVE  MpInv' /\ o'.count = o.count - 1
<1>1. /\ o'.count = o.count - 1 /\ o'.list = Tail(o.list)
      /\ o'.HAS = [o.HAS EXCEPT ![t] = @ \cup {Head(o.list)}]
      /\ o' = [list |-> o'.list, count |-> o'.count, HAS |-> o'.HAS]
  BY DEF MpInv, MpType
<1>2. PICK b \in Blocks : b = Head(o.list) /\ o.list # <<>>
  BY DEF MpInv, MpType
<1>3. /\ b \in Members(o.list) /\ o'.list \in Seq(Blocks) /\ Len(o'.list) = Len(o.list) - 1
      /\ IsInjective(o'.list) /\ Members(o'.list) = Members(o.list) \ {b}
  BY <1>1, <1>2, TailTakes DEF MpInv, MpType
<1>4. /\ o'.HAS \in [Threads -> SUBSET Blocks]
      /\ \A u \in Threads : o'.HAS[u] = IF u = t THEN o.HAS[t] \cup {b} ELSE o.HAS[u]
  BY <1>1, <1>2 DEF MpInv, MpType
<1>5. MpType'
  BY <1>1, <1>3, <1>4 DEF MpInv, MpType
<1>6. \A u \in Threads : b \notin o.HAS[u]
  BY <1>3 DEF MpInv
<1>7. \A u \in Threads : o'.HAS[u] \cap Members(o'.list) = {}
  BY <1>3, <1>4 DEF MpInv
<1>8. \A u, v \in Threads : u # v => o'.HAS[u] \cap o'.HAS[v] = {}
  BY <1>4, <1>6 DEF MpInv
<1>9. ASSUME NEW c \in Blocks PROVE c \in Members(o'.list) \/ \E u \in Threads : c \in o'.HAS[u]
  BY <1>3, <1>4 DEF MpInv
<1> QED BY <1>1, <1>5, <1>7, <1>8, <1>9 DEF MpInv

\* A block goes back to the list.
LEMMA FreeKeeps ==
  ASSUME MpInv, NEW t \in Threads, NEW b \in Blocks, b \in o.HAS[t],
         o' = [o EXCEPT !.count = @ + 1, !.list = <<b>> \o @, !.HAS[t] = @ \ {b}]
  PROVE  MpInv' /\ o'.count = o.count + 1
<1>1. /\ o'.count = o.count + 1 /\ o'.list = <<b>> \o o.list
      /\ o'.HAS = [o.HAS EXCEPT ![t] = @ \ {b}]
      /\ o' = [list |-> o'.list, count |-> o'.count, HAS |-> o'.HAS]
  BY DEF MpInv, MpType
<1>2. b \notin Members(o.list)
  BY DEF MpInv
<1>3. AddsTo(<<b>> \o o.list, Blocks, o.list, b)
  BY <1>2, Added DEF MpInv, MpType
<1>4. /\ o'.list \in Seq(Blocks) /\ IsInjective(o'.list)
      /\ Members(o'.list) = Members(o.list) \cup {b}
  BY <1>1, <1>3 DEF AddsTo
<1>5. Len(o'.list) = Len(o.list) + 1
  BY <1>1 DEF MpInv, MpType
<1>6. /\ o'.HAS \in [Threads -> SUBSET Blocks]
      /\ \A u \in Threads : o'.HAS[u] = IF u = t THEN o.HAS[t] \ {b} ELSE o.HAS[u]
  BY <1>1 DEF MpInv, MpType
<1>7. MpType'
  BY <1>1, <1>4, <1>5, <1>6 DEF MpInv, MpType
<1>8. \A u \in Threads : b \notin o'.HAS[u]
  BY <1>6 DEF MpInv
<1>9. \A u \in Threads : o'.HAS[u] \cap Members(o'.list) = {}
  BY <1>4, <1>6, <1>8 DEF MpInv
<1>10. \A u, v \in Threads : u # v => o'.HAS[u] \cap o'.HAS[v] = {}
  BY <1>6 DEF MpInv
<1>11. ASSUME NEW c \in Blocks PROVE c \in Members(o'.list) \/ \E u \in Threads : c \in o'.HAS[u]
  BY <1>4, <1>6 DEF MpInv
<1> QED BY <1>1, <1>7, <1>9, <1>10, <1>11 DEF MpInv

\* A new pool.
LEMMA PoolStart ==
  ASSUME o = MpObject PROVE MpInv
<1>1. PICK q : q = SetToSeq(Blocks)
  OBVIOUS
<1>2. q \in Seq(Blocks) /\ IsInjective(q) /\ Members(q) = Blocks
  BY <1>1, SetListed, IpcAssumption
<1>3. Cardinality(Blocks) = Len(q)
  BY <1>2, LengthIsSize
<1>4. o = [list |-> q, count |-> Cardinality(Blocks), HAS |-> [t \in Threads |-> {}]]
  BY <1>1 DEF MpObject
<1>5. \A t \in Threads : o.HAS[t] = {}
  BY <1>4
<1> QED BY <1>2, <1>3, <1>4, <1>5 DEF MpInv, MpType

\* Each block is in one place.
LEMMA PoolKeeps ==
  ASSUME MpInv
  PROVE  /\ o.count = Len(o.list)
         /\ \A b \in Blocks :
              Cardinality({i \in DOMAIN o.list : o.list[i] = b})
                + Cardinality({t \in Threads : b \in o.HAS[t]}) = 1
<1>1. ASSUME NEW b \in Blocks
      PROVE  Cardinality({i \in DOMAIN o.list : o.list[i] = b})
                + Cardinality({t \in Threads : b \in o.HAS[t]}) = 1
  <2>1. PICK I : I = {i \in DOMAIN o.list : o.list[i] = b}
    OBVIOUS
  <2>2. PICK T : T = {t \in Threads : b \in o.HAS[t]}
    OBVIOUS
  <2>3. CASE b \in Members(o.list)
    <3>1. T = {}
      BY <2>2, <2>3 DEF MpInv
    <3>2. PICK i \in DOMAIN o.list : o.list[i] = b
      BY <2>3 DEF Members
    <3>3. I = {i}
      BY <2>1, <3>2 DEF MpInv, MpType, IsInjective
    <3>4. Cardinality(I) = 1 /\ Cardinality(T) = 0
      BY <3>1, <3>3, FS_Singleton, FS_EmptySet
    <3> QED BY <2>1, <2>2, <3>4
  <2>4. CASE b \notin Members(o.list)
    <3>1. I = {}
      BY <2>1, <2>4 DEF Members
    <3>2. PICK t \in Threads : b \in o.HAS[t]
      BY <2>4 DEF MpInv
    <3>3. T = {t}
      BY <2>2, <3>2 DEF MpInv
    <3>4. Cardinality(I) = 0 /\ Cardinality(T) = 1
      BY <3>1, <3>3, FS_Singleton, FS_EmptySet
    <3> QED BY <2>1, <2>2, <3>4
  <2> QED BY <2>3, <2>4
<1> QED BY <1>1 DEF MpInv, MpType

MpQueues(z, x, n) ==
  /\ Sound(z) /\ ThOk(z, x)
  /\ Queued(z, x, "mp_alloc", recv) /\ Enough(z, x, "mp_alloc", recv, n)

\* Every service of the pool.
LEMMA MpQueuesStep ==
  ASSUME MpQueues(s, th, o.count), MpInv, kind = "mp", NEW t \in Threads, MpStep(t)
  PROVE  MpQueues(s', th', o'.count) /\ MpInv'
<1>0. /\ Sound(s) /\ ThOk(s, th) /\ recv \in WaitLists /\ o.count \in Int
      /\ Queued(s, th, "mp_alloc", recv) /\ Enough(s, th, "mp_alloc", recv, o.count)
  BY Lists2 DEF MpQueues, MpInv, MpType
<1>1. ASSUME After(s, t), Runs(t), o'.count = o.count - 1
      PROVE  MpQueues(s', th', o'.count)
  <2>1. Queued(s', th', "mp_alloc", recv) /\ Enough(s', th', "mp_alloc", recv, o.count - 1)
    BY <1>0, <1>1, TakenQueue
  <2> QED BY <1>1, <2>1 DEF MpQueues, After
<1>2. ASSUME o' = o PROVE MpInv'
  BY <1>2 DEF MpInv, MpType
<1>3. CASE rt_mp_alloc(t)
  <2>1. Runs(t)
    BY <1>0, <1>3, LooksOp DEF rt_mp_alloc
  <2>2. CASE o.count > 0 /\ Return(t, s)
    <3>1. o' = [o EXCEPT !.count = @ - 1, !.list = Tail(@), !.HAS[t] = @ \cup {Head(o.list)}]
      BY <1>0, <1>3, <2>2 DEF rt_mp_alloc
    <3>2. MpInv' /\ o'.count = o.count - 1
      BY <2>2, <3>1, AllocKeeps
    <3>3. After(s, t)
      BY <1>0, <2>1, <2>2, ReturnAfter DEF Runs
    <3> QED BY <1>1, <2>1, <3>2, <3>3
  <2>3. CASE o.count = 0 /\ o' = o
    <3>1. MpInv' /\ o'.count = 0
      BY <1>2, <2>3
    <3>2. Enough(s', th', "mp_alloc", recv, 0)
      BY EnoughOfNothing
    <3>3. CASE Return(t, s)
      <4>1. After(s, t)
        BY <1>0, <2>1, <3>3, ReturnAfter DEF Runs
      <4>2. Queued(s', th', "mp_alloc", recv)
        BY <1>0, <2>1, <4>1, TakenQueue
      <4> QED BY <3>1, <3>2, <4>1, <4>2 DEF MpQueues, After
    <3>4. CASE ~Return(t, s)
      <4>1. Blocked(t, recv, "mp_alloc", "none")
        BY <1>0, <1>3, <2>1, <2>3, <3>4, MpBlocks DEF rt_mp_alloc
      <4>2. Queued(s', th', "mp_alloc", recv)
        BY <1>0, <2>1, <4>1, BlockedQueue
      <4> QED BY <3>1, <3>2, <4>1, <4>2 DEF MpQueues, Blocked
    <3> QED BY <3>3, <3>4
  <2> QED BY <1>0, <1>3, <2>2, <2>3 DEF rt_mp_alloc
<1>4. CASE Fails(t, "mp_alloc")
  <2>1. Runs(t) /\ After(s, t) /\ o' = o /\ t \notin Awake(s, th, "mp_alloc")
    BY <1>0, <1>4, FailsAfter DEF ipcVars
  <2>2. Queued(s', th', "mp_alloc", recv) /\ Enough(s', th', "mp_alloc", recv, o.count)
    BY <1>0, <2>1, TakenQueue
  <2> QED BY <1>2, <2>1, <2>2 DEF MpQueues, After
<1>5. ASSUME NEW b \in Blocks, rt_mp_free(t, b) PROVE MpQueues(s', th', o'.count) /\ MpInv'
  <2>1. /\ InUser(t) /\ b \in o.HAS[t] /\ s' = Wake(recv) /\ th' = th
        /\ o' = [o EXCEPT !.count = @ + 1, !.list = <<b>> \o @, !.HAS[t] = @ \ {b}]
    BY <1>5 DEF rt_mp_free
  <2>2. MpInv' /\ o'.count = o.count + 1
    BY <2>1, FreeKeeps
  <2>3. Runs(t) /\ t \notin Awake(s, th, "mp_alloc")
    BY <1>0, <2>1, UserOp
  <2>4. Woke(Wake(recv), "mp_alloc", recv) /\ After(Wake(recv), t)
    BY <1>0, <2>1, WakeStays
  <2>5. Queued(s', th', "mp_alloc", recv) /\ Enough(s', th', "mp_alloc", recv, o.count + 1)
    BY <1>0, <2>3, <2>4, GivenQueue
  <2> QED BY <2>2, <2>4, <2>5 DEF MpQueues, After
<1> QED BY <1>3, <1>4, <1>5 DEF MpStep

-----------------------------------------------------------------------------
(* The event set. *)

\* A smaller set satisfies nobody whom the larger one does not.
LEMMA SatisfiedShrinks ==
  ASSUME NEW e, NEW A, NEW B, A \subseteq B, ~Satisfied(e, B)
  PROVE  ~Satisfied(e, A)
<1>1. CASE e.all
  BY <1>1 DEF Satisfied
<1>2. CASE ~e.all
  BY <1>2 DEF Satisfied
<1> QED BY <1>1, <1>2

\* In the walk along the list the threads U have been woken so far.
Walked(a, U) ==
  /\ a = [s |-> a.s, th |-> a.th, set |-> a.set]
  /\ Freed(s, a.s, U, "EOK") /\ ThOk(a.s, a.th)
  /\ \A u \in Threads \ U : a.th[u] = th[u]
Passed(a, U, X) == \A u \in X \ U : ~Satisfied(th[u].arg, a.set)

\* A waiter who is satisfied is woken, and the set only shrinks.
LEMMA OfferWakes ==
  ASSUME NEW a, NEW U, Walked(a, U), NEW t \in Threads, t \notin U,
         Satisfied(a.th[t].arg, a.set)
  PROVE  Walked(EventOffer(a, t), U \cup {t}) /\ EventOffer(a, t).set \subseteq a.set
<1>1. PICK b : b = EventOffer(a, t)
  OBVIOUS
<1>2. PICK e : e = a.th[t].arg
  OBVIOUS
<1>3. PICK got : got = IF e.all THEN e.set ELSE e.set \cap a.set
  OBVIOUS
<1>4. PICK y : y = rt_thread_resume([a.s EXCEPT !.err[t] = "EOK"], t)
  OBVIOUS
<1>5. PICK f : f = [a.th EXCEPT ![t].arg.set = got]
  OBVIOUS
<1>6. PICK S : S = IF e.clear THEN a.set \ got ELSE a.set
  OBVIOUS
<1>7. b = [s |-> y, th |-> f, set |-> S]
  <2>1. b = [s |-> rt_thread_resume([a.s EXCEPT !.err[t] = "EOK"], t),
             th |-> [a.th EXCEPT ![t].arg.set = got],
             set |-> IF e.clear THEN a.set \ got ELSE a.set]
    BY <1>1, <1>2, <1>3, Zenon DEF EventOffer
  <2> QED BY <1>4, <1>5, <1>6, <2>1, Zenon
<1>8. S \subseteq a.set
  BY <1>6
<1>9. t \in AllThreads
  BY DEF AllThreads
<1>10. Sound(a.s)
  BY DEF Walked, Freed
<1>11. Freed(a.s, y, {t}, "EOK")
  BY <1>4, <1>9, <1>10, ResumeFrees
<1>12. Freed(s, y, U \cup {t}, "EOK")
  BY <1>11, FreedTwice DEF Walked
<1>13. PICK r : r = [e EXCEPT !.set = got]
  OBVIOUS
<1>14. /\ f = [u \in Threads |-> f[u]] /\ f[t] = [pc |-> a.th[t].pc, op |-> a.th[t].op, arg |-> r]
       /\ \A u \in Threads \ {t} : f[u] = a.th[u]
  <2>1. a.th = [u \in Threads |-> a.th[u]]
        /\ a.th[t] = [pc |-> a.th[t].pc, op |-> a.th[t].op, arg |-> e]
    BY <1>2 DEF Walked, ThOk
  <2>2. f = [a.th EXCEPT ![t] = [a.th[t] EXCEPT !.arg = [a.th[t].arg EXCEPT !.set = got]]]
    BY <1>5, Zenon
  <2>3. f = [a.th EXCEPT ![t] = [a.th[t] EXCEPT !.arg = r]]
    BY <1>2, <1>13, <2>2, Zenon
  <2>4. PICK v : v = [a.th[t] EXCEPT !.arg = r]
    OBVIOUS
  <2>5. v = [pc |-> a.th[t].pc, op |-> a.th[t].op, arg |-> r]
    BY <2>1, <2>4
  <2>6. f = [a.th EXCEPT ![t] = v]
    BY <2>3, <2>4, Zenon
  <2> QED BY <2>1, <2>5, <2>6
<1>15. ThOk(y, f)
  <2>1. ThOk(a.s, a.th)
    BY DEF Walked
  <2>2. \A u \in Threads : /\ y.err[u] = IF u = t THEN "EOK" ELSE a.s.err[u]
                           /\ y.stat[u] = "suspend" <=> a.s.stat[u] = "suspend" /\ u # t
    BY <1>11, ThreadsListed DEF Freed
  <2>3. ASSUME NEW u \in Threads, u # t
        PROVE  /\ f[u] = [pc |-> f[u].pc, op |-> f[u].op, arg |-> f[u].arg]
               /\ f[u].pc \in {"user", "sched", "woken", "copy"}
               /\ f[u].pc = "user" => f[u].op = "none"
               /\ f[u].pc = "copy" => f[u].op \in CopyOps
               /\ y.stat[u] = "suspend" => f[u].pc \in ASleep /\ (kind # "mp" => y.err[u] = "ERROR")
    <3>1. f[u] = a.th[u]
      BY <1>14, <2>3
    <3> QED BY <2>1, <2>2, <2>3, <3>1 DEF ThOk
  <2>4. /\ f[t] = [pc |-> f[t].pc, op |-> f[t].op, arg |-> f[t].arg]
        /\ f[t].pc \in {"user", "sched", "woken", "copy"}
        /\ f[t].pc = "user" => f[t].op = "none"
        /\ f[t].pc = "copy" => f[t].op \in CopyOps
        /\ y.stat[t] # "suspend"
    <3>1. f[t].pc = a.th[t].pc /\ f[t].op = a.th[t].op /\ f[t].arg = r
      BY <1>14
    <3> QED BY <1>14, <2>1, <2>2, <3>1 DEF ThOk
  <2> QED BY <1>14, <2>3, <2>4 DEF ThOk
<1>16. \A u \in Threads \ (U \cup {t}) : f[u] = th[u]
  BY <1>14 DEF Walked
<1>17. b.s = y /\ b.th = f /\ b.set = S
  BY <1>7
<1>18. Walked(b, U \cup {t})
  BY <1>7, <1>12, <1>15, <1>16, <1>17 DEF Walked
<1> QED BY <1>1, <1>8, <1>17, <1>18

\* The whole walk.
LEMMA SendWalks ==
  ASSUME Sound(s), ThOk(s, th), NEW S,
         NEW end, end = FoldLeft(EventOffer, [s |-> s, th |-> th, set |-> S], s.wait[recv])
  PROVE  \E U \in SUBSET {u \in Threads : InWait(s, u, recv)} :
           Walked(end, U) /\ Passed(end, U, {u \in Threads : InWait(s, u, recv)})
<1>1. PICK q \in Seq(Threads) : q = s.wait[recv] /\ IsInjective(q)
  BY Lists2 DEF Sound, SchedType, Lists
<1>2. PICK n \in Nat : n = Len(q)
  BY <1>1
<1>3. PICK a : a = [s |-> s, th |-> th, set |-> S]
  OBVIOUS
<1>4. PICK g : EventFold(g, a, q, n) /\ FoldLeft(EventOffer, a, q) = g[1 .. n]
  BY <1>1, <1>2, EventIsFold
<1> DEFINE Good(I) == \E U \in SUBSET ThoseAt(q, I) :
             Walked(g[I], U) /\ Passed(g[I], U, ThoseAt(q, I))
           G == {I \in SUBSET (1 .. n) : Good(I)}
<1>5. {} \in G
  <2>1. g[{}] = a /\ ThoseAt(q, {}) = {}
    BY <1>4 DEF EventFold, ThoseAt
  <2>2. a.s = s /\ a.th = th
    BY <1>3
  <2>3. Freed(s, s, {}, "EOK")
    <3> SUFFICES \A u \in AllThreads : \A k \in WaitLists : InWait(s, u, k) <=> InWait(s, u, k)
      BY DEF Freed
    <3> QED OBVIOUS
  <2>4. Walked(a, {})
    BY <1>3, <2>2, <2>3 DEF Walked
  <2>5. Passed(a, {}, {})
    BY DEF Passed
  <2> QED BY <2>1, <2>4, <2>5
<1>6. ASSUME NEW I \in SUBSET (1 .. n), I # {}, I \ {Max(I)} \in G PROVE I \in G
  <2>1. PICK y : y = g[I \ {Max(I)}]
    OBVIOUS
  <2>2. PICK X : X = ThoseAt(q, I \ {Max(I)})
    OBVIOUS
  <2>3. PICK U \in SUBSET X : Walked(y, U) /\ Passed(y, U, X)
    BY <1>6, <2>1, <2>2
  <2>4. PICK t \in Threads : t = q[Max(I)] /\ Max(I) \in I
    <3>1. Max(I) \in I /\ Max(I) \in 1 .. n
      BY <1>6, LastOf
    <3> QED BY <1>2, <3>1
  <2>5. t \notin X /\ X \cup {t} = ThoseAt(q, I)
    <3>1. t \notin X
      <4>1. PICK m \in 1 .. n : m = Max(I)
        BY <2>4
      <4>2. \A i, j \in 1 .. n : q[i] = q[j] => i = j
        BY <1>1, <1>2, Indexed
      <4>3. \A i \in I \ {m} : i \in 1 .. n /\ q[i] # q[m]
        BY <4>2
      <4>4. X = ThoseAt(q, I \ {m}) /\ t = q[m]
        BY <2>2, <2>4, <4>1
      <4> QED BY <4>3, <4>4 DEF ThoseAt
    <3>2. X \cup {t} = ThoseAt(q, I)
      BY <2>2, <2>4 DEF ThoseAt
    <3> QED BY <3>1, <3>2
  <2>6. PICK b : b = g[I] /\ b = EventOffer(y, t)
    BY <1>4, <1>6, <2>1, <2>4 DEF EventFold
  <2>7. y.th[t] = th[t]
    BY <2>3, <2>5 DEF Walked
  <2>8. CASE Satisfied(y.th[t].arg, y.set)
    <3>1. Walked(b, U \cup {t}) /\ b.set \subseteq y.set
      BY <2>3, <2>5, <2>6, <2>8, OfferWakes
    <3>2. Passed(b, U \cup {t}, X \cup {t})
      <4>1. ASSUME NEW u \in (X \cup {t}) \ (U \cup {t}) PROVE ~Satisfied(th[u].arg, b.set)
        <5>1. ~Satisfied(th[u].arg, y.set)
          BY <2>3, <4>1 DEF Passed
        <5> QED BY <3>1, <5>1, SatisfiedShrinks
      <4> QED BY <4>1 DEF Passed
    <3>3. U \cup {t} \in SUBSET ThoseAt(q, I)
      BY <2>5
    <3>4. Walked(g[I], U \cup {t}) /\ Passed(g[I], U \cup {t}, ThoseAt(q, I))
      BY <2>5, <2>6, <3>1, <3>2
    <3> QED BY <3>3, <3>4
  <2>9. CASE ~Satisfied(y.th[t].arg, y.set)
    <3>1. b = y
      BY <2>6, <2>9, Zenon DEF EventOffer
    <3>2. Passed(b, U, X \cup {t})
      BY <2>3, <2>7, <2>9, <3>1 DEF Passed
    <3>3. U \in SUBSET ThoseAt(q, I)
      BY <2>5
    <3>4. Walked(g[I], U) /\ Passed(g[I], U, ThoseAt(q, I))
      BY <2>3, <2>5, <2>6, <3>1, <3>2
    <3> QED BY <3>3, <3>4
  <2> QED BY <2>8, <2>9
<1>7. 1 .. n \in G
  <2> HIDE DEF G
  <2> QED BY <1>5, <1>6, Folded
<1>8. ThoseAt(q, 1 .. n) = {u \in Threads : InWait(s, u, recv)}
  BY <1>1, <1>2 DEF InWait, Members, ThoseAt
<1>9. end = g[1 .. n]
  BY <1>1, <1>3, <1>4
<1> QED BY <1>7, <1>8, <1>9

\* No waiter could go on.
Unserved(z, x, S) == \A u \in Threads : InWait(z, u, recv) => ~Satisfied(x[u].arg, S)
EventWaits(z, x, S) == Sound(z) /\ ThOk(z, x) /\ Unserved(z, x, S)

\* rt_event_send leaves nobody waiting who could go on.
LEMMA SendServes ==
  ASSUME EventWaits(s, th, o.set), o = [set |-> o.set],
         NEW t \in Threads, NEW set, rt_event_send(t, set)
  PROVE  EventWaits(s', th', o'.set) /\ o' = [set |-> o'.set]
<1>1. PICK end : /\ end = FoldLeft(EventOffer, [s |-> s, th |-> th, set |-> o.set \cup set],
                                   s.wait[recv])
                 /\ s' = IF end.s = s THEN s ELSE rt_schedule(end.s)
                 /\ th' = end.th
                 /\ o' = [o EXCEPT !.set = end.set]
  BY Zenon DEF rt_event_send
<1>2. Sound(s) /\ ThOk(s, th)
  BY DEF EventWaits
<1>3. PICK U \in SUBSET {u \in Threads : InWait(s, u, recv)} :
             Walked(end, U) /\ Passed(end, U, {u \in Threads : InWait(s, u, recv)})
  BY <1>1, <1>2, SendWalks
<1>4. Sound(end.s) /\ Freed(s, end.s, U, "EOK") /\ ThOk(end.s, th')
  BY <1>1, <1>3 DEF Walked, Freed
<1>5. Freed(end.s, rt_schedule(end.s), {}, "EOK")
  BY <1>4, ScheduleFrees
<1>6. PICK x : x = rt_schedule(end.s)
  OBVIOUS
<1>7. /\ Sound(s')
      /\ \A u \in Threads : /\ s'.err[u] = end.s.err[u]
                            /\ s'.stat[u] = "suspend" <=> end.s.stat[u] = "suspend"
                            /\ InWait(s', u, recv) <=> InWait(end.s, u, recv)
  <2>1. CASE end.s = s
    BY <1>1, <1>2, <2>1
  <2>2. CASE end.s # s
    <3>1. s' = x /\ Freed(end.s, x, {}, "EOK")
      BY <1>1, <1>5, <1>6, <2>2
    <3> QED BY <3>1, Lists2, ThreadsListed DEF Freed
  <2> QED BY <2>1, <2>2
<1>8. ThOk(s', th')
  BY <1>4, <1>7 DEF ThOk
<1>9. ASSUME NEW u \in Threads, InWait(s', u, recv) PROVE ~Satisfied(th'[u].arg, end.set)
  <2>1. InWait(s, u, recv) /\ u \notin U
    BY <1>4, <1>7, <1>9, Lists2, ThreadsListed DEF Freed
  <2>2. th'[u] = th[u]
    BY <1>1, <1>3, <2>1 DEF Walked
  <2> QED BY <1>3, <2>1, <2>2 DEF Passed
<1>10. o'.set = end.set /\ o' = [set |-> o'.set]
  BY <1>1
<1> QED BY <1>7, <1>8, <1>9, <1>10 DEF EventWaits, Unserved

\* A call that takes flags away and ends.
LEMMA AfterServes ==
  ASSUME EventWaits(s, th, o.set), NEW t \in Threads, Runs(t), After(s, t), NEW S, S \subseteq o.set
  PROVE  EventWaits(s', th', S)
<1>1. ASSUME NEW u \in Threads, InWait(s', u, recv) PROVE ~Satisfied(th'[u].arg, S)
  <2>1. InWait(s, u, recv)
    BY <1>1, Lists2 DEF After, Untouched
  <2>2. u # t
    BY <2>1, Runner, Lists2 DEF EventWaits
  <2>3. th'[u] = th[u] /\ ~Satisfied(th[u].arg, o.set)
    BY <2>1, <2>2 DEF After, EventWaits, Unserved
  <2> QED BY <2>3, SatisfiedShrinks
<1> QED BY <1>1 DEF EventWaits, Unserved, After

\* Every service of the event set.
LEMMA EventServes ==
  ASSUME EventWaits(s, th, o.set), o = [set |-> o.set], NEW t \in Threads, EventStep(t)
  PROVE  EventWaits(s', th', o'.set) /\ o' = [set |-> o'.set]
<1>0. Sound(s) /\ ThOk(s, th) /\ recv \in WaitLists
  BY Lists2 DEF EventWaits
<1>1. ASSUME NEW e, rt_event_recv(t, e) PROVE EventWaits(s', th', o'.set) /\ o' = [set |-> o'.set]
  <2>1. InUser(t) /\ Runs(t) /\ th[t].pc = "user"
    BY <1>1 DEF rt_event_recv, InUser
  <2>2. CASE o' = [o EXCEPT !.set = @ \ e.set] /\ UNCHANGED <<s, th>>
    <3>1. After(s, t)
      BY <1>0, <2>1, <2>2, StaysAfter
    <3>2. o'.set = o.set \ e.set /\ o' = [set |-> o'.set]
      BY <2>2
    <3>3. o'.set \subseteq o.set
      BY <3>2
    <3> QED BY <2>1, <3>1, <3>2, <3>3, AfterServes
  <2>3. CASE ~Satisfied(e, o.set) /\ Block(t, recv, Flag, "event_recv", e) /\ UNCHANGED o
    <3>1. Blocked(t, recv, "event_recv", e)
      BY <1>0, <2>1, <2>3, BlockBlocks
    <3>2. ASSUME NEW u \in Threads, InWait(s', u, recv) PROVE ~Satisfied(th'[u].arg, o.set)
      <4>1. CASE u = t
        BY <2>3, <3>1, <4>1 DEF Blocked
      <4>2. CASE u # t
        BY <1>0, <3>1, <3>2, <4>2 DEF Blocked, EventWaits, Unserved
      <4> QED BY <4>1, <4>2
    <3> QED BY <2>3, <3>1, <3>2 DEF EventWaits, Unserved, Blocked
  <2> QED BY <1>1, <2>2, <2>3 DEF rt_event_recv
<1>2. CASE event_recved(t)
  <2>1. Runs(t) /\ Return(t, s) /\ o' = o
    BY <1>2 DEF event_recved, Woken
  <2>2. After(s, t)
    BY <1>0, <2>1, ReturnAfter DEF Runs
  <2> QED BY <2>1, <2>2, AfterServes
<1>3. CASE Fails(t, "event_recv")
  <2>1. Runs(t) /\ After(s, t) /\ o' = o
    BY <1>0, <1>3, FailsAfter DEF ipcVars
  <2> QED BY <2>1, AfterServes
<1>4. CASE rt_event_control(t)
  <2>1. Reset(recv) /\ o' = [set |-> o'.set]
    BY <1>0, <1>4, ResetOne DEF rt_event_control
  <2> QED BY <2>1 DEF Reset, EventWaits, Unserved
<1>5. ASSUME NEW set, rt_event_send(t, set) PROVE EventWaits(s', th', o'.set)
               /\ o' = [set |-> o'.set]
  BY <1>5, SendServes
<1> QED BY <1>1, <1>2, <1>3, <1>4, <1>5 DEF EventStep

\* A quiet step brings no flags and no waiters.
LEMMA QuietServes ==
  ASSUME EventWaits(s, th, o.set), Quiet
  PROVE  EventWaits(s', th', o.set)
  BY Lists2 DEF Quiet, QuietFor, EventWaits, Unserved

-----------------------------------------------------------------------------
(* Sums over the threads. *)

Total(f) == MapThenSumSet(LAMBDA t : f[t], Threads)

\* MapThenSumSet is that function at the whole set.
LEMMA TotalIsFold ==
  ASSUME NEW f
  PROVE  \E g : SumFold(g, f, Threads, SUBSET Threads) /\ Total(f) = g[Threads]
<1> DEFINE g == CHOOSE g : g = [I \in SUBSET Threads |->
                                  IF I = {} THEN 0
                                   ELSE f[CHOOSE x \in I : TRUE] + g[I \ {CHOOSE x \in I : TRUE}]]
<1>1. Total(f) = g[Threads]
  BY Zenon DEF Total, MapThenSumSet, MapThenFoldSet
<1>2. SumFold(g, f, Threads, SUBSET Threads)
  <2>1. PICK e : SumFold(e, f, Threads, SUBSET Threads)
    BY SumFoldExists, ThreadAssumption
  <2>2. e = [I \in SUBSET Threads |->
               IF I = {} THEN 0 ELSE f[CHOOSE x \in I : TRUE] + e[I \ {CHOOSE x \in I : TRUE}]]
    BY <2>1, Zenon DEF SumFold, AnyOf
  <2>3. g = [I \in SUBSET Threads |->
               IF I = {} THEN 0
                                   ELSE f[CHOOSE x \in I : TRUE] + g[I \ {CHOOSE x \in I : TRUE}]]
    BY <2>2, Zenon
  <2> QED BY <2>3, Zenon DEF SumFold, AnyOf
<1> HIDE DEF g
<1> QED BY <1>1, <1>2

\* A change of one number changes the sum by as much.
LEMMA TotalMoves ==
  ASSUME NEW f \in [Threads -> Int], NEW e \in [Threads -> Int], NEW t \in Threads, NEW d \in Int,
         e[t] = f[t] + d, \A u \in Threads \ {t} : e[u] = f[u]
  PROVE  Total(f) \in Int /\ Total(e) = Total(f) + d
<1>1. PICK g : SumFold(g, f, Threads, SUBSET Threads) /\ Total(f) = g[Threads]
  BY TotalIsFold
<1>2. PICK x : SumFold(x, e, Threads, SUBSET Threads) /\ Total(e) = x[Threads]
  BY TotalIsFold
<1> DEFINE G == {I \in SUBSET Threads : /\ g[I] \in Int
                                       /\ x[I] = g[I] + (IF t \in I THEN d ELSE 0)}
<1>3. {} \in G
  <2>1. g[{}] = 0 /\ x[{}] = 0
    BY <1>1, <1>2 DEF SumFold
  <2> QED BY <2>1
<1>4. ASSUME NEW I \in SUBSET Threads, I # {}, I \ {AnyOf(I)} \in G PROVE I \in G
  <2>1. PICK v \in Threads : v = AnyOf(I) /\ v \in I
    BY <1>4, OneOut, ThreadAssumption
  <2>2. g[I] = f[v] + g[I \ {v}] /\ x[I] = e[v] + x[I \ {v}]
    BY <1>1, <1>2, <1>4, <2>1 DEF SumFold
  <2>3. g[I \ {v}] \in Int /\ x[I \ {v}] = g[I \ {v}] + (IF t \in I \ {v} THEN d ELSE 0)
    BY <1>4, <2>1
  <2>4. PICK a \in Int, b \in Int, c \in Int : a = f[v] /\ b = e[v] /\ c = g[I \ {v}]
    BY <2>3
  <2>5. CASE v = t
    <3>1. b = a + d /\ x[I \ {v}] = c
      BY <2>3, <2>4, <2>5
    <3>2. g[I] = a + c /\ x[I] = b + c /\ t \in I
      BY <2>1, <2>2, <2>4, <2>5, <3>1
    <3> QED BY <2>4, <3>1, <3>2
  <2>6. CASE v # t
    <3>1. b = a /\ (t \in I \ {v} <=> t \in I)
      BY <2>4, <2>6
    <3> QED BY <2>1, <2>2, <2>3, <2>4, <3>1
  <2> QED BY <2>5, <2>6
<1>5. Threads \in G
  <2> HIDE DEF G
  <2> QED BY <1>3, <1>4, SetsUp, ThreadAssumption
<1> QED BY <1>1, <1>2, <1>5

\* Nothing adds up to nothing.
LEMMA TotalZero ==
  ASSUME NEW f, \A u \in Threads : f[u] = 0
  PROVE  Total(f) = 0
<1>1. PICK g : SumFold(g, f, Threads, SUBSET Threads) /\ Total(f) = g[Threads]
  BY TotalIsFold
<1> DEFINE G == {I \in SUBSET Threads : g[I] = 0}
<1>3. {} \in G
  BY <1>1 DEF SumFold
<1>4. ASSUME NEW I \in SUBSET Threads, I # {}, I \ {AnyOf(I)} \in G PROVE I \in G
  <2>1. PICK v \in Threads : v = AnyOf(I) /\ v \in I
    BY <1>4, OneOut, ThreadAssumption
  <2>2. g[I] = f[v] + g[I \ {v}]
    BY <1>1, <1>4, <2>1 DEF SumFold
  <2> QED BY <1>4, <2>1, <2>2
<1>5. Threads \in G
  <2> HIDE DEF G
  <2> QED BY <1>3, <1>4, SetsUp, ThreadAssumption
<1> QED BY <1>1, <1>5

-----------------------------------------------------------------------------
(* The semaphore. *)

SemType ==
  /\ o = [value |-> o.value, TOTAL |-> o.TOTAL, HELD |-> o.HELD]
  /\ o.value \in Nat /\ o.TOTAL \in Int /\ o.HELD \in [Threads -> Nat]

\* Permits are in the count, in hands or on the way to a thread that was woken.
Makes(a, b, c, d) == a + b + c = d
SemWaits(z, x, value, held, total) ==
  /\ Sound(z) /\ ThOk(z, x) /\ Queued(z, x, "sem_take", recv)
  /\ z.wait[recv] # <<>> => value = 0
  /\ Makes(value, Total(held), Cardinality(Awake(z, x, "sem_take")), total)

SemInv == SemType /\ SemWaits(s, th, o.value, o.HELD, o.TOTAL)

SemThen == SemType' /\ SemWaits(s', th', o'.value, o'.HELD, o'.TOTAL)

\* The threads that were given a permit are those awake for one.
LEMMA GrantedAwake ==
  ASSUME ThOk(s, th), kind = "sem"
  PROVE  Granted = Awake(s, th, "sem_take")
           /\ InHands = Total(o.HELD) + Cardinality(Awake(s, th, "sem_take"))
<1>1. \A t \in Threads : th[t].op = "sem_take" => th[t].pc \in ASleep
  BY DEF ThOk, CopyOps, ASleep
<1>2. \A t \in Threads : s.err[t] = "EOK" => s.stat[t] # "suspend"
  BY DEF ThOk
<1>3. Granted = Awake(s, th, "sem_take")
  BY <1>1, <1>2 DEF Granted, Awake
<1>4. InHands = Total(o.HELD) + Cardinality(Granted)
  BY Zenon DEF InHands, Total
<1> QED BY <1>3, <1>4

\* When one thread has more, so have all together.
LEMMA HeldMoves ==
  ASSUME SemType, NEW t \in Threads, NEW d \in Int, NEW e \in [Threads -> Int],
         e[t] = o.HELD[t] + d,
         \A u \in Threads \ {t} : e[u] = o.HELD[u]
  PROVE  Total(o.HELD) \in Int /\ Total(e) = Total(o.HELD) + d
<1>1. PICK f : f = o.HELD /\ f \in [Threads -> Int]
  BY DEF SemType
<1>2. e[t] = f[t] + d /\ \A u \in Threads \ {t} : e[u] = f[u]
  BY <1>1
<1>3. Total(f) \in Int /\ Total(e) = Total(f) + d
  BY <1>1, <1>2, TotalMoves
<1> QED BY <1>1, <1>3

\* The permits in hands are a number.
LEMMA TotalInt ==
  ASSUME SemType, Threads # {} PROVE Total(o.HELD) \in Int
<1>1. PICK t \in Threads : TRUE
  OBVIOUS
<1>2. o.HELD \in [Threads -> Int] /\ o.HELD[t] = o.HELD[t] + 0
  BY DEF SemType
<1> QED BY <1>2, HeldMoves

\* The parts of the invariant after a step.
LEMMA SemBack ==
  ASSUME SemType', Sound(s'), ThOk(s', th'), Queued(s', th', "sem_take", recv),
         s'.wait[recv] # <<>> => o'.value = 0,
         o'.value + Total(o'.HELD) + Cardinality(Awake(s', th', "sem_take")) = o'.TOTAL
  PROVE  SemThen
<1>1. Makes(o'.value, Total(o'.HELD), Cardinality(Awake(s', th', "sem_take")), o'.TOTAL)
  BY DEF Makes
<1>2. SemWaits(s', th', o'.value, o'.HELD, o'.TOTAL)
  BY <1>1 DEF SemWaits
<1> QED BY <1>2 DEF SemThen

\* Two of those parts.
LEMMA AfterSound ==
  ASSUME NEW z, NEW t, After(z, t)
  PROVE  Sound(s') /\ ThOk(s', th')
  BY DEF After

\* Every service of the semaphore.
LEMMA SemServes ==
  ASSUME SemInv, kind = "sem", NEW t \in Threads, SemStep(t)
  PROVE  SemThen
<1>0. /\ Sound(s) /\ ThOk(s, th) /\ recv \in WaitLists /\ Queued(s, th, "sem_take", recv)
      /\ o.value \in Nat /\ o.TOTAL \in Int
      /\ s.wait[recv] # <<>> => o.value = 0
  BY Lists2 DEF SemInv, SemType, SemWaits
<1>1. PICK A : A = Awake(s, th, "sem_take")
  OBVIOUS
<1>2. PICK a \in Nat, n \in Int : a = Cardinality(A) /\ n = Total(o.HELD) /\ IsFiniteSet(A)
  BY <1>1, AwakeFinite, TotalInt DEF SemInv
<1>3. o.value + n + a = o.TOTAL
  BY <1>1, <1>2 DEF SemInv, SemWaits, Makes
<1>4. ASSUME After(s, t), Runs(t) PROVE /\ Queued(s', th', "sem_take", recv)
                                        /\ s'.wait[recv] # <<>> => s.wait[recv] # <<>>
                                        /\ Awake(s', th', "sem_take") = A \ {t}
  <2>1. Queued(s', th', "sem_take", recv)
    BY <1>0, <1>4, TakenQueue
  <2>2. \A u \in Threads : InWait(s', u, recv) <=> InWait(s, u, recv)
    BY <1>0, <1>4 DEF After, Untouched
  <2>3. s'.wait[recv] # <<>> => s.wait[recv] # <<>>
    BY <1>0, <1>4, <2>2, WaitingMeans DEF After
  <2> QED BY <1>1, <1>4, <2>1, <2>3 DEF After
<1>5. CASE rt_sem_take(t)
  <2>1. Runs(t) /\ th[t].pc = "user" /\ t \notin A
    BY <1>0, <1>1, <1>5, UserOp DEF rt_sem_take
  <2>2. CASE o.value > 0 /\ o' = [o EXCEPT !.value = @ - 1, !.HELD[t] = @ + 1]
               /\ UNCHANGED <<s, th>>
    <3>1. After(s, t)
      BY <1>0, <2>1, <2>2, StaysAfter
    <3>2. /\ o'.value = o.value - 1 /\ o'.TOTAL = o.TOTAL /\ o'.HELD = [o.HELD EXCEPT ![t] = @ + 1]
          /\ o' = [value |-> o'.value, TOTAL |-> o'.TOTAL, HELD |-> o'.HELD]
      BY <2>2 DEF SemInv, SemType
    <3>3. SemType'
      BY <1>0, <2>2, <3>2 DEF SemInv, SemType
    <3>4. Total(o'.HELD) = n + 1
      <4>1. /\ o'.HELD \in [Threads -> Int] /\ o'.HELD[t] = o.HELD[t] + 1
            /\ \A u \in Threads \ {t} : o'.HELD[u] = o.HELD[u]
        BY <3>2 DEF SemInv, SemType
      <4> QED BY <1>2, <4>1, HeldMoves DEF SemInv
    <3>5. A \ {t} = A
      BY <2>1
    <3>6. Cardinality(Awake(s', th', "sem_take")) = a
      BY <1>2, <1>4, <2>1, <3>1, <3>5
    <3>7. s'.wait[recv] = <<>>
      BY <1>0, <1>4, <2>1, <2>2, <3>1
    <3>8. o'.value + Total(o'.HELD) + Cardinality(Awake(s', th', "sem_take")) = o'.TOTAL
      BY <1>0, <1>2, <1>3, <3>2, <3>4, <3>6
    <3>9. Queued(s', th', "sem_take", recv)
      BY <1>4, <2>1, <3>1
    <3> QED BY <3>1, <3>3, <3>7, <3>8, <3>9, AfterSound, SemBack
  <2>3. CASE o.value = 0 /\ Block(t, recv, Flag, "sem_take", "none") /\ UNCHANGED o
    <3>1. Blocked(t, recv, "sem_take", "none")
      BY <1>0, <2>1, <2>3, BlockBlocks
    <3>2. Queued(s', th', "sem_take", recv)
      BY <1>0, <2>1, <3>1, BlockedQueue
    <3>3. Awake(s', th', "sem_take") = A
      BY <1>1, <2>1, <3>1 DEF Blocked
    <3>4. SemType'
      BY <2>3 DEF SemInv, SemType
    <3>5. o'.value = 0 /\ o'.HELD = o.HELD /\ o'.TOTAL = o.TOTAL
      BY <2>3
    <3>6. o'.value + Total(o'.HELD) + Cardinality(Awake(s', th', "sem_take")) = o'.TOTAL
      BY <1>2, <1>3, <2>3, <3>3, <3>5
    <3>7. Sound(s') /\ ThOk(s', th')
      BY <3>1 DEF Blocked
    <3> QED BY <3>2, <3>4, <3>5, <3>6, <3>7, SemBack
  <2> QED BY <1>5, <2>2, <2>3 DEF rt_sem_take
<1>6. CASE sem_taken(t)
  <2>1. /\ Runs(t) /\ t \in A /\ Return(t, s)
        /\ o' = [o EXCEPT !.HELD[t] = @ + 1]
    BY <1>1, <1>6 DEF sem_taken, Woken, Runs, Awake, ASleep
  <2>2. After(s, t)
    BY <1>0, <2>1, ReturnAfter DEF Runs
  <2>3. /\ o'.value = o.value /\ o'.TOTAL = o.TOTAL /\ o'.HELD = [o.HELD EXCEPT ![t] = @ + 1]
        /\ o' = [value |-> o'.value, TOTAL |-> o'.TOTAL, HELD |-> o'.HELD]
    BY <2>1 DEF SemInv, SemType
  <2>4. SemType'
    BY <1>0, <2>3 DEF SemInv, SemType
  <2>5. Total(o'.HELD) = n + 1
    <3>1. /\ o'.HELD \in [Threads -> Int] /\ o'.HELD[t] = o.HELD[t] + 1
          /\ \A u \in Threads \ {t} : o'.HELD[u] = o.HELD[u]
      BY <2>3 DEF SemInv, SemType
    <3> QED BY <1>2, <3>1, HeldMoves DEF SemInv
  <2>6. Cardinality(Awake(s', th', "sem_take")) = a - 1
    BY <1>2, <1>4, <2>1, <2>2, FS_RemoveElement
  <2>7. o'.value + Total(o'.HELD) + Cardinality(Awake(s', th', "sem_take")) = o'.TOTAL
    BY <1>0, <1>2, <1>3, <2>3, <2>5, <2>6
  <2>8. s'.wait[recv] # <<>> => o'.value = 0
    BY <1>0, <1>4, <2>1, <2>2, <2>3
  <2>9. Queued(s', th', "sem_take", recv)
    BY <1>4, <2>1, <2>2
  <2> QED BY <2>2, <2>4, <2>7, <2>8, <2>9, AfterSound, SemBack
<1>7. CASE Fails(t, "sem_take")
  <2>1. Runs(t) /\ After(s, t) /\ o' = o /\ t \notin A
    BY <1>0, <1>1, <1>7, FailsAfter DEF ipcVars
  <2>2. Awake(s', th', "sem_take") = A
    BY <1>4, <2>1
  <2>3. SemType'
    BY <2>1 DEF SemInv, SemType
  <2>4. Queued(s', th', "sem_take", recv) /\ (s'.wait[recv] # <<>> => o'.value = 0)
    BY <1>0, <1>4, <2>1
  <2>5. o'.value + Total(o'.HELD) + Cardinality(Awake(s', th', "sem_take")) = o'.TOTAL
    BY <1>2, <1>3, <2>1, <2>2
  <2> QED BY <2>1, <2>3, <2>4, <2>5, AfterSound, SemBack
<1>8. CASE rt_sem_release(t)
  <2>1. /\ InUser(t) /\ Runs(t) /\ th[t].pc = "user" /\ t \notin A
        /\ o.HELD[t] > 0 /\ s' = Wake(recv) /\ th' = th
        /\ o' = [o EXCEPT !.HELD[t] = @ - 1, !.value = IF Waiting(recv) THEN @ ELSE @ + 1]
    BY <1>0, <1>1, <1>8, UserOp DEF rt_sem_release
  <2>2. PICK z : z = Wake(recv) /\ Woke(z, "sem_take", recv) /\ After(z, t)
    BY <1>0, <2>1, WakeStays
  <2>3. /\ o'.value = (IF Waiting(recv) THEN o.value ELSE o.value + 1) /\ o'.TOTAL = o.TOTAL
        /\ o'.HELD = [o.HELD EXCEPT ![t] = @ - 1]
        /\ o' = [value |-> o'.value, TOTAL |-> o'.TOTAL, HELD |-> o'.HELD]
    BY <2>1 DEF SemInv, SemType
  <2>4. SemType'
    <3>1. o'.HELD \in [Threads -> Nat]
      BY <2>1, <2>3 DEF SemInv, SemType
    <3> QED BY <1>0, <2>3, <3>1 DEF SemType
  <2>5. Total(o'.HELD) = n - 1
    <3>1. /\ o'.HELD \in [Threads -> Int] /\ o'.HELD[t] = o.HELD[t] + -1
          /\ \A u \in Threads \ {t} : o'.HELD[u] = o.HELD[u]
      BY <2>3 DEF SemInv, SemType
    <3>2. Total(o'.HELD) = Total(o.HELD) + -1
      BY <3>1, HeldMoves DEF SemInv
    <3> QED BY <1>2, <3>2
  <2>6. Queued(s', th', "sem_take", recv)
    BY <1>0, <1>1, <2>1, <2>2, GivenQueue
  <2>7. Awake(s', th', "sem_take") = Awake(z, th, "sem_take") \ {t}
    BY <2>2 DEF After
  <2>8. CASE ~Waiting(recv)
    <3>1. Awake(s', th', "sem_take") = A /\ s'.wait[recv] = <<>>
      BY <1>1, <2>1, <2>2, <2>7, <2>8 DEF Woke, Waiting
    <3>2. o'.value + Total(o'.HELD) + Cardinality(Awake(s', th', "sem_take")) = o'.TOTAL
      BY <1>0, <1>2, <1>3, <2>3, <2>5, <2>8, <3>1
    <3> QED BY <2>2, <2>4, <2>6, <3>1, <3>2, AfterSound, SemBack
  <2>9. CASE Waiting(recv)
    <3>1. PICK u \in Threads : /\ InWait(s, u, recv) /\ u \notin A
                               /\ Awake(z, th, "sem_take") = A \cup {u}
      BY <1>1, <2>2, <2>9 DEF Woke
    <3>2. u # t
      BY <1>0, <2>1, <3>1, Runner
    <3>3. Awake(s', th', "sem_take") = A \cup {u}
      BY <2>1, <2>7, <3>1, <3>2
    <3>4. Cardinality(A \cup {u}) = a + 1
      BY <1>2, <3>1, FS_AddElement
    <3>5. Cardinality(Awake(s', th', "sem_take")) = a + 1 /\ o'.value = o.value
      BY <2>3, <2>9, <3>3, <3>4
    <3>6. o'.value + Total(o'.HELD) + Cardinality(Awake(s', th', "sem_take")) = o'.TOTAL
      <4>1. PICK v \in Nat : v = o.value
        BY <1>0
      <4>2. o'.value = v /\ v + n + a = o'.TOTAL
        BY <1>3, <2>3, <3>5, <4>1
      <4> QED BY <1>2, <2>5, <3>5, <4>2
    <3>7. o'.value = 0
      BY <1>0, <2>9, <3>5 DEF Waiting
    <3> QED BY <2>2, <2>4, <2>6, <3>6, <3>7, AfterSound, SemBack
  <2> QED BY <2>8, <2>9
<1>9. CASE rt_sem_control(t)
  <2>1. /\ s' = rt_schedule(ipc_list_resume_all(s, recv)) /\ th' = th
        /\ o' = [o EXCEPT !.value = Permits, !.TOTAL = Permits + InHands]
    BY <1>9 DEF rt_sem_control
  <2>2. Reset(recv)
    BY <1>0, <2>1, ResetOne
  <2>3. InHands = n + a
    BY <1>0, <1>1, <1>2, GrantedAwake
  <2>4. /\ o'.value = Permits /\ o'.TOTAL = Permits + (n + a) /\ o'.HELD = o.HELD
        /\ o' = [value |-> o'.value, TOTAL |-> o'.TOTAL, HELD |-> o'.HELD]
    BY <2>1, <2>3 DEF SemInv, SemType
  <2>5. SemType'
    BY <1>2, <2>4, IpcAssumption DEF SemInv, SemType
  <2>6. Queued(s', th', "sem_take", recv) /\ s'.wait[recv] = <<>>
    <3>1. \A u \in Threads : ~InWait(s', u, recv)
      BY <2>2 DEF Reset
    <3> QED BY <1>0, <2>2, <3>1, WaitingMeans DEF Reset, Queued
  <2>7. Awake(s', th', "sem_take") = A
    BY <1>1, <2>2 DEF Reset
  <2>8. o'.value + Total(o'.HELD) + Cardinality(Awake(s', th', "sem_take")) = o'.TOTAL
    BY <1>2, <2>4, <2>7, IpcAssumption
  <2>9. Sound(s') /\ ThOk(s', th')
    BY <2>2 DEF Reset
  <2> QED BY <2>5, <2>6, <2>8, <2>9, SemBack
<1> QED BY <1>5, <1>6, <1>7, <1>8, <1>9 DEF SemStep

\* A quiet step moves no permits.
LEMMA QuietSem ==
  ASSUME SemInv, Quiet, o' = o
  PROVE  SemThen
<1>1. Queued(s', th', "sem_take", recv)
  BY Lists2, QuietQueue DEF SemInv, SemWaits
<1>2. Sound(s') /\ ThOk(s', th') /\ Awake(s', th', "sem_take") = Awake(s, th, "sem_take")
  BY DEF Quiet
<1>3. \A u \in Threads : InWait(s', u, recv) => InWait(s, u, recv)
  BY Lists2 DEF Quiet, QuietFor
<1>4. s'.wait[recv] # <<>> => s.wait[recv] # <<>>
  BY <1>2, <1>3, Lists2, WaitingMeans DEF SemInv, SemWaits
<1>5. SemType'
  BY DEF SemInv, SemType
<1>6. o'.value + Total(o'.HELD) + Cardinality(Awake(s', th', "sem_take")) = o'.TOTAL
  BY <1>2 DEF SemInv, SemWaits, Makes
<1>7. s'.wait[recv] # <<>> => o'.value = 0
  BY <1>4 DEF SemInv, SemWaits
<1> QED BY <1>1, <1>2, <1>5, <1>6, <1>7, SemBack

-----------------------------------------------------------------------------
(* Linked lists of blocks. *)

\* The blocks q hang together from p on, along next.
FirstBlock(q) == IF q = <<>> THEN Nil ELSE q[1]
Linked(next, p, q) ==
  /\ q \in Seq(Blocks) /\ IsInjective(q) /\ p = FirstBlock(q)
  /\ \A i \in 1 .. Len(q) : next[q[i]] = IF i = Len(q) THEN Nil ELSE q[i + 1]

\* A null pointer points to no block.
LEMMA NilNoBlock == Nil \notin Blocks
  BY IpcAssumption

\* A list without its first element, by index.
LEMMA Shifted ==
  ASSUME NEW S, NEW q \in Seq(S), q # <<>>, NEW n, n = Len(q)
  PROVE  /\ Tail(q) \in Seq(S) /\ Len(Tail(q)) = n - 1
         /\ \A i \in 1 .. n - 1 : Tail(q)[i] = q[i + 1]
<1>1. /\ Tail(q) \in Seq(S) /\ Len(Tail(q)) = Len(q) - 1
      /\ \A i \in 1 .. Len(Tail(q)) : Tail(q)[i] = q[i + 1]
  BY HeadTailProperties
<1> QED BY <1>1

\* A list with one more, in front or at the end, by index.
LEMMA Longer ==
  ASSUME NEW S, NEW q \in Seq(S), NEW e \in S, NEW n, n = Len(q)
  PROVE  /\ <<e>> \o q \in Seq(S) /\ Len(<<e>> \o q) = n + 1
         /\ (<<e>> \o q)[1] = e /\ \A i \in 1 .. n : (<<e>> \o q)[i + 1] = q[i]
         /\ Append(q, e) \in Seq(S) /\ Len(Append(q, e)) = n + 1
         /\ Append(q, e)[n + 1] = e /\ \A i \in 1 .. n : Append(q, e)[i] = q[i]
  OBVIOUS

\* What other blocks point to does not matter.
LEMMA SameLinked ==
  ASSUME NEW next, NEW p, NEW q, Linked(next, p, q), NEW other,
         \A b \in Members(q) : other[b] = next[b]
  PROVE  Linked(other, p, q)
<1>1. \A i \in 1 .. Len(q) : q[i] \in Members(q)
  BY Indexed DEF Linked
<1> QED BY <1>1 DEF Linked

\* The first block, if there is one, is not null.
LEMMA FirstLinked ==
  ASSUME NEW next, NEW p, NEW q, Linked(next, p, q)
  PROVE  /\ p # Nil <=> q # <<>>
         /\ p # Nil <=> Len(q) > 0
         /\ p # Nil => p = Head(q) /\ p \in Members(q) /\ p \in Blocks
<1>1. q \in Seq(Blocks) /\ p = FirstBlock(q)
  BY DEF Linked
<1>2. q # <<>> => Len(q) > 0 /\ q[1] \in Blocks /\ q[1] \in Members(q) /\ Head(q) = q[1]
  BY <1>1 DEF Members
<1>3. q = <<>> => Len(q) = 0
  OBVIOUS
<1> QED BY <1>1, <1>2, <1>3, NilNoBlock DEF FirstBlock

\* The first block is taken out.
LEMMA PopLinked ==
  ASSUME NEW next, NEW p, NEW q, Linked(next, p, q), p # Nil, NEW other,
         \A b \in Members(q) \ {p} : other[b] = next[b]
  PROVE  /\ Linked(other, next[p], Tail(q)) /\ Members(Tail(q)) = Members(q) \ {p}
         /\ Len(Tail(q)) = Len(q) - 1
<1>1. PICK n \in Nat : n = Len(q) /\ n > 0
  BY FirstLinked DEF Linked
<1>2. q \in Seq(Blocks) /\ q # <<>> /\ p = Head(q) /\ p = q[1] /\ IsInjective(q)
  BY FirstLinked DEF Linked
<1>3. PICK r \in Seq(Blocks) : /\ r = Tail(q) /\ Len(r) = n - 1 /\ IsInjective(r)
                               /\ Members(r) = Members(q) \ {p}
  BY <1>1, <1>2, TailTakes
<1>4. \A i \in 1 .. n - 1 : r[i] = q[i + 1]
  BY <1>1, <1>2, <1>3
<1>5. \A i \in 1 .. n - 1 : r[i] \in Members(q) \ {p}
  BY <1>3, Indexed
<1>6. \A i \in 1 .. n : next[q[i]] = IF i = n THEN Nil ELSE q[i + 1]
  BY <1>1 DEF Linked
<1>7. next[p] = FirstBlock(r)
  <2>1. next[p] = IF 1 = n THEN Nil ELSE q[2]
    BY <1>1, <1>2, <1>6
  <2>2. CASE n = 1
    BY <1>3, <2>1, <2>2 DEF FirstBlock
  <2>3. CASE n # 1
    <3>1. r # <<>> /\ r[1] = q[2]
      BY <1>1, <1>3, <1>4, <2>3
    <3> QED BY <2>1, <2>3, <3>1 DEF FirstBlock
  <2> QED BY <2>2, <2>3
<1>8. ASSUME NEW i \in 1 .. Len(r) PROVE other[r[i]] = IF i = Len(r) THEN Nil ELSE r[i + 1]
  <2>1. i \in 1 .. n - 1 /\ i + 1 \in 1 .. n
    BY <1>1, <1>3
  <2>2. other[r[i]] = next[r[i]]
    BY <1>5, <2>1
  <2>3. next[r[i]] = IF i + 1 = n THEN Nil ELSE q[i + 1 + 1]
    BY <1>4, <1>6, <2>1
  <2>4. i # n - 1 => i + 1 \in 1 .. n - 1
    BY <1>1, <2>1
  <2>5. i # n - 1 => r[i + 1] = q[i + 1 + 1]
    BY <1>4, <2>4
  <2>6. i + 1 = n <=> i = Len(r)
    BY <1>1, <1>3, <2>1
  <2>7. i # n - 1 <=> i # Len(r)
    BY <1>3
  <2> QED BY <2>2, <2>3, <2>5, <2>6, <2>7
<1>9. Linked(other, next[p], r)
  BY <1>3, <1>7, <1>8 DEF Linked
<1> QED BY <1>1, <1>3, <1>9

\* A block is put in front.
LEMMA PushLinked ==
  ASSUME NEW next, NEW p, NEW q, Linked(next, p, q), NEW b \in Blocks, b \notin Members(q),
         NEW other, other[b] = p, \A c \in Members(q) : other[c] = next[c]
  PROVE  /\ Linked(other, b, <<b>> \o q) /\ Members(<<b>> \o q) = Members(q) \cup {b}
         /\ Len(<<b>> \o q) = Len(q) + 1
<1>1. PICK n \in Nat : n = Len(q)
  BY DEF Linked
<1>2. q \in Seq(Blocks) /\ IsInjective(q) /\ p = FirstBlock(q)
  BY DEF Linked
<1>3. PICK r : r = <<b>> \o q
  OBVIOUS
<1>4. r \in Seq(Blocks) /\ IsInjective(r) /\ Members(r) = Members(q) \cup {b}
  BY <1>2, <1>3, Added DEF AddsTo
<1>5. Len(r) = n + 1 /\ r[1] = b /\ \A i \in 1 .. n : r[i + 1] = q[i]
  BY <1>1, <1>2, <1>3
<1>6. \A i \in 1 .. n : /\ q[i] \in Members(q)
                        /\ next[q[i]] = IF i = n THEN Nil ELSE q[i + 1]
  BY <1>1, <1>2, Indexed DEF Linked
<1>7. ASSUME NEW i \in 1 .. n + 1 PROVE other[r[i]] = IF i = n + 1 THEN Nil ELSE r[i + 1]
  <2>1. CASE i = 1
    <3>1. CASE n = 0
      <4>0. ~(Len(q) > 0)
        BY <1>1, <3>1
      <4>1. q = <<>> /\ i = n + 1
        BY <2>1, <3>1, <4>0, FirstLinked
      <4>2. p = Nil /\ r[i] = b
        BY <1>2, <1>5, <2>1, <4>1 DEF FirstBlock
      <4> QED BY <4>1, <4>2
    <3>2. CASE n # 0
      <4>1. 1 \in 1 .. n /\ q # <<>> /\ i # n + 1
        BY <1>1, <2>1, <3>2
      <4>2. r[1 + 1] = q[1]
        BY <1>5, <4>1
      <4>3. p = q[1]
        BY <1>2, <4>1 DEF FirstBlock
      <4>4. r[i] = b /\ r[i + 1] = q[1] /\ other[b] = p
        BY <1>5, <2>1, <4>2
      <4> QED BY <4>1, <4>3, <4>4
    <3> QED BY <3>1, <3>2
  <2>2. CASE i # 1
    <3>1. PICK j \in 1 .. n : i = j + 1
      <4>1. i - 1 \in 1 .. n /\ i = (i - 1) + 1
        BY <2>2
      <4> QED BY <4>1
    <3>2. r[i] = q[j] /\ other[r[i]] = next[q[j]]
      BY <1>5, <1>6, <3>1
    <3>3. j # n => r[i + 1] = q[j + 1]
      <4>1. j # n => j + 1 \in 1 .. n
        OBVIOUS
      <4> QED BY <1>5, <3>1, <4>1
    <3>4. j = n <=> i = n + 1
      BY <3>1
    <3> QED BY <1>6, <3>1, <3>2, <3>3, <3>4
  <2> QED BY <2>1, <2>2
<1>8. b = FirstBlock(r)
  <2>1. r # <<>>
    BY <1>5
  <2> QED BY <1>5, <2>1 DEF FirstBlock
<1>9. Linked(other, b, r)
  BY <1>4, <1>5, <1>7, <1>8 DEF Linked
<1> QED BY <1>1, <1>3, <1>4, <1>5, <1>9

\* A block is put at the end.
LEMMA AppendLinked ==
  ASSUME NEW next, NEW p, NEW q, Linked(next, p, q), NEW b \in Blocks, b \notin Members(q),
         NEW other, other[b] = Nil,
         q # <<>> => other[q[Len(q)]] = b,
         \A c \in Members(q) : c # q[Len(q)] => other[c] = next[c]
  PROVE  /\ Linked(other, IF p = Nil THEN b ELSE p, Append(q, b))
         /\ Members(Append(q, b)) = Members(q) \cup {b} /\ Len(Append(q, b)) = Len(q) + 1
         /\ Append(q, b)[Len(q) + 1] = b
<1>1. PICK n \in Nat : n = Len(q) /\ (q # <<>> <=> n > 0)
  BY DEF Linked
<1>2. q \in Seq(Blocks) /\ IsInjective(q) /\ p = FirstBlock(q)
  BY DEF Linked
<1>3. PICK r : r = Append(q, b)
  OBVIOUS
<1>4. r \in Seq(Blocks) /\ IsInjective(r) /\ Members(r) = Members(q) \cup {b}
  <2>1. AddsTo(Append(q, b), Blocks, q, b)
    BY <1>2, Added
  <2> QED BY <1>3, <2>1 DEF AddsTo
<1>5. Len(r) = n + 1 /\ r[n + 1] = b /\ \A i \in 1 .. n : r[i] = q[i]
  <2>1. q \in Seq(Blocks) /\ n = Len(q)
    BY <1>1, <1>2
  <2> QED BY <1>3, <2>1, Longer
<1>6. \A i \in 1 .. n : /\ q[i] \in Members(q)
                        /\ next[q[i]] = IF i = n THEN Nil ELSE q[i + 1]
  BY <1>1, <1>2, Indexed DEF Linked
<1>7. ASSUME NEW i \in 1 .. n + 1 PROVE other[r[i]] = IF i = n + 1 THEN Nil ELSE r[i + 1]
  <2>1. CASE i = n + 1
    BY <1>5, <2>1
  <2>2. CASE i # n + 1
    <3>1. i \in 1 .. n /\ n > 0 /\ n \in 1 .. n
      BY <2>2
    <3>2. CASE i = n
      <4>1. other[q[n]] = b /\ r[n] = q[n]
        BY <1>1, <1>5, <3>1
      <4> QED BY <1>5, <2>2, <3>2, <4>1
    <3>3. CASE i # n
      <4>1. i + 1 \in 1 .. n
        BY <3>1, <3>3
      <4>2. q[i] # q[n] /\ q[i] \in Members(q)
        BY <1>1, <1>2, <1>6, <3>1, <3>3, Indexed
      <4>3. other[q[i]] = next[q[i]]
        BY <1>1, <4>2
      <4>4. next[q[i]] = q[i + 1] /\ r[i] = q[i] /\ r[i + 1] = q[i + 1]
        BY <1>5, <1>6, <3>1, <3>3, <4>1
      <4> QED BY <2>2, <4>3, <4>4
    <3> QED BY <3>2, <3>3
  <2> QED BY <2>1, <2>2
<1>8. (IF p = Nil THEN b ELSE p) = FirstBlock(r)
  <2>1. CASE n = 0
    <3>1. p = Nil /\ r # <<>> /\ r[1] = b
      BY <1>1, <1>2, <1>5, <2>1 DEF FirstBlock
    <3> QED BY <3>1 DEF FirstBlock
  <2>2. CASE n > 0
    <3>1. p # Nil /\ p = q[1] /\ r # <<>>
      BY <1>1, <1>2, <1>5, <2>2, FirstLinked DEF FirstBlock
    <3>2. r[1] = q[1]
      BY <1>5, <2>2
    <3> QED BY <3>1, <3>2 DEF FirstBlock
  <2> QED BY <2>1, <2>2
<1>9. Linked(other, IF p = Nil THEN b ELSE p, r)
  BY <1>4, <1>5, <1>7, <1>8 DEF Linked
<1> QED BY <1>1, <1>3, <1>4, <1>5, <1>9

-----------------------------------------------------------------------------
(* What the blocks of a queue hold. *)

\* The messages f are in the blocks q.
Contents == Msgs \cup {Nil}
Holds(data, q, f) ==
  /\ f \in Seq(Contents) /\ Len(f) = Len(q)
  /\ \A i \in 1 .. Len(q) : f[i] = data[q[i]]

\* What is in other blocks does not matter.
LEMMA SameHolds ==
  ASSUME NEW data, NEW q \in Seq(Blocks), NEW f, Holds(data, q, f), NEW other,
         \A b \in Members(q) : other[b] = data[b]
  PROVE  Holds(other, q, f)
<1>1. \A i \in 1 .. Len(q) : q[i] \in Members(q)
  BY Indexed
<1> QED BY <1>1 DEF Holds

\* The first block holds the first message.
LEMMA PopHolds ==
  ASSUME NEW data, NEW q \in Seq(Blocks), q # <<>>, NEW f, Holds(data, q, f)
  PROVE  Holds(data, Tail(q), Tail(f)) /\ Head(f) = data[Head(q)] /\ Head(f) \in Contents
<1>1. PICK n \in Nat : n = Len(q) /\ n > 0
  OBVIOUS
<1>2. f \in Seq(Contents) /\ Len(f) = n /\ \A i \in 1 .. n : f[i] = data[q[i]]
  BY <1>1 DEF Holds
<1>3. f # <<>> /\ Head(f) = f[1] /\ Head(q) = q[1] /\ 1 \in 1 .. n /\ f[1] \in Contents
  BY <1>1, <1>2
<1>4. PICK r : r = Tail(q)
  OBVIOUS
<1>8. r \in Seq(Blocks) /\ Len(r) = n - 1 /\ \A i \in 1 .. n - 1 : r[i] = q[i + 1]
  BY <1>1, <1>4, Shifted
<1>5. PICK g : g = Tail(f)
  OBVIOUS
<1>9. g \in Seq(Contents) /\ Len(g) = n - 1 /\ \A i \in 1 .. n - 1 : g[i] = f[i + 1]
  BY <1>1, <1>2, <1>3, <1>5, Shifted
<1>6. ASSUME NEW i \in 1 .. n - 1 PROVE g[i] = data[r[i]]
  <2>1. i + 1 \in 1 .. n
    BY <1>1
  <2> QED BY <1>2, <1>8, <1>9, <2>1
<1>7. Holds(data, r, g)
  BY <1>8, <1>9, <1>6 DEF Holds
<1> QED BY <1>2, <1>3, <1>4, <1>5, <1>7

\* A message is put in front, or at the end.
LEMMA PushHolds ==
  ASSUME NEW data, NEW q \in Seq(Blocks), NEW f, Holds(data, q, f), NEW b \in Blocks,
         NEW m \in Contents, NEW other, other[b] = m, \A c \in Members(q) : other[c] = data[c]
  PROVE  Holds(other, <<b>> \o q, <<m>> \o f) /\ Holds(other, Append(q, b), Append(f, m))
<1>1. PICK n \in Nat : n = Len(q)
  OBVIOUS
<1>2. f \in Seq(Contents) /\ Len(f) = n /\ \A i \in 1 .. n : f[i] = other[q[i]]
  BY <1>1, Indexed DEF Holds
<1>3. PICK r : r = <<b>> \o q
  OBVIOUS
<1>11. r \in Seq(Blocks) /\ Len(r) = n + 1 /\ r[1] = b /\ \A i \in 1 .. n : r[i + 1] = q[i]
  BY <1>1, <1>3, Longer
<1>4. PICK g : g = <<m>> \o f
  OBVIOUS
<1>12. g \in Seq(Contents) /\ Len(g) = n + 1 /\ g[1] = m /\ \A i \in 1 .. n : g[i + 1] = f[i]
  BY <1>1, <1>2, <1>4, Longer
<1>5. ASSUME NEW i \in 1 .. n + 1 PROVE g[i] = other[r[i]]
  <2>1. CASE i = 1
    BY <1>11, <1>12, <2>1
  <2>2. CASE i # 1
    <3>1. PICK j \in 1 .. n : i = j + 1
      <4>1. i - 1 \in 1 .. n /\ i = (i - 1) + 1
        BY <2>2
      <4> QED BY <4>1
    <3> QED BY <1>2, <1>11, <1>12, <3>1
  <2> QED BY <2>1, <2>2
<1>6. Holds(other, r, g)
  BY <1>11, <1>12, <1>5 DEF Holds
<1>7. PICK x : x = Append(q, b)
  OBVIOUS
<1>13. x \in Seq(Blocks) /\ Len(x) = n + 1 /\ x[n + 1] = b /\ \A i \in 1 .. n : x[i] = q[i]
  BY <1>1, <1>7, Longer
<1>8. PICK y : y = Append(f, m)
  OBVIOUS
<1>14. y \in Seq(Contents) /\ Len(y) = n + 1 /\ y[n + 1] = m /\ \A i \in 1 .. n : y[i] = f[i]
  BY <1>1, <1>2, <1>8, Longer
<1>9. ASSUME NEW i \in 1 .. n + 1 PROVE y[i] = other[x[i]]
  <2>1. CASE i = n + 1
    BY <1>13, <1>14, <2>1
  <2>2. CASE i # n + 1
    <3>1. i \in 1 .. n
      BY <2>2
    <3> QED BY <1>2, <1>13, <1>14, <3>1
  <2> QED BY <2>1, <2>2
<1>10. Holds(other, x, y)
  BY <1>13, <1>14, <1>9 DEF Holds
<1> QED BY <1>3, <1>4, <1>6, <1>7, <1>8, <1>10

-----------------------------------------------------------------------------
(* Chain, the recursive function that follows next, finds the list. *)

\* Lists are equal by index.
LEMMA SameSeq ==
  ASSUME NEW S, NEW q \in Seq(S), NEW r \in Seq(S), Len(q) = Len(r),
         \A i \in 1 .. Len(q) : q[i] = r[i]
  PROVE  q = r
  BY SeqEqual

\* The first n elements, or all.
Upto(q, m) == [i \in 1 .. m |-> q[i]]
Least(n, m) == IF n <= m THEN n ELSE m

\* The first m elements.
LEMMA UptoSeq ==
  ASSUME NEW S, NEW q \in Seq(S), NEW m \in 0 .. Len(q)
  PROVE  /\ Upto(q, m) \in Seq(S) /\ Len(Upto(q, m)) = m
         /\ \A i \in 1 .. m : Upto(q, m)[i] = q[i]
<1>1. PICK n \in Nat : n = Len(q) /\ m \in Nat /\ m <= n
  OBVIOUS
<1>2. \A i \in 1 .. m : q[i] \in S
  BY <1>1
<1> QED BY <1>1, <1>2 DEF Upto

\* One turn of Chain.
PathStep(next, p, before) ==
  LET b == IF before = <<>> THEN p ELSE next[Last(before)]
  IN IF b = Nil THEN before ELSE Append(before, b)
IsPath(f, next, p, N) ==
  f = [n \in 0 .. N |-> IF n = 0 THEN <<>> ELSE PathStep(next, p, f[n - 1])]

\* One step along next finds one block more, until there are no more.
LEMMA StepsOn ==
  ASSUME NEW next, NEW p, NEW q, Linked(next, p, q), NEW m \in 0 .. Len(q)
  PROVE  PathStep(next, p, Upto(q, m)) = IF m = Len(q) THEN Upto(q, m) ELSE Upto(q, m + 1)
<1>1. q \in Seq(Blocks) /\ p = FirstBlock(q) /\ Len(q) \in Nat /\ m \in Nat /\ m <= Len(q)
  BY DEF Linked
<1>2. PICK r : r = Upto(q, m)
  OBVIOUS
<1>3. r \in Seq(Blocks) /\ Len(r) = m /\ \A i \in 1 .. m : r[i] = q[i]
  BY <1>1, <1>2, UptoSeq
<1>4. PICK b : b = IF r = <<>> THEN p ELSE next[Last(r)]
  OBVIOUS
<1>5. PathStep(next, p, r) = IF b = Nil THEN r ELSE Append(r, b)
  BY <1>4, Zenon DEF PathStep
<1>6. b = IF m = Len(q) THEN Nil ELSE q[m + 1]
  <2>1. CASE m = 0
    <3>1. r = <<>> /\ b = p
      BY <1>3, <1>4, <2>1
    <3>2. Len(q) = 0 => q = <<>>
      BY <1>1
    <3>3. Len(q) # 0 => q # <<>>
      OBVIOUS
    <3> QED BY <1>1, <2>1, <3>1, <3>2, <3>3 DEF FirstBlock
  <2>2. CASE m # 0
    <3>1. m \in 1 .. m /\ m \in 1 .. Len(q) /\ r # <<>>
      BY <1>1, <1>3, <2>2
    <3>2. b = next[q[m]]
      BY <1>3, <1>4, <3>1 DEF Last
    <3> QED BY <3>1, <3>2 DEF Linked
  <2> QED BY <2>1, <2>2
<1>7. CASE m = Len(q)
  BY <1>2, <1>5, <1>6, <1>7
<1>8. CASE m # Len(q)
  <2>1. m + 1 \in 0 .. Len(q) /\ m + 1 \in 1 .. Len(q)
    BY <1>1, <1>8
  <2>2. b = q[m + 1] /\ b \in Blocks /\ b # Nil
    BY <1>1, <1>6, <1>8, <2>1, NilNoBlock
  <2>3. PICK x : x = Append(r, b)
    OBVIOUS
  <2>4. x \in Seq(Blocks) /\ Len(x) = m + 1 /\ x[m + 1] = b /\ \A i \in 1 .. m : x[i] = r[i]
    BY <1>3, <2>2, <2>3, Longer
  <2>5. PICK y : y = Upto(q, m + 1)
    OBVIOUS
  <2>6. y \in Seq(Blocks) /\ Len(y) = m + 1 /\ \A i \in 1 .. m + 1 : y[i] = q[i]
    BY <1>1, <2>1, <2>5, UptoSeq
  <2>7. ASSUME NEW i \in 1 .. m + 1 PROVE x[i] = y[i]
    <3>1. CASE i = m + 1
      BY <2>2, <2>4, <2>6, <3>1
    <3>2. CASE i # m + 1
      <4>1. i \in 1 .. m
        BY <1>1, <3>2
      <4> QED BY <1>3, <2>4, <2>6, <4>1
    <3> QED BY <3>1, <3>2
  <2>8. x = y
    BY <2>4, <2>6, <2>7, SameSeq
  <2> QED BY <1>2, <1>5, <1>8, <2>2, <2>3, <2>5, <2>8
<1> QED BY <1>7, <1>8

\* The recursive function that Chain is exists.
LEMMA PathExists ==
  ASSUME NEW next, NEW p, NEW q, Linked(next, p, q), NEW N \in Nat
  PROVE  IsPath([n \in 0 .. N |-> Upto(q, Least(n, Len(q)))], next, p, N)
<1>1. PICK l \in Nat : l = Len(q)
  BY DEF Linked
<1>2. PICK f : f = [n \in 0 .. N |-> Upto(q, Least(n, l))]
  OBVIOUS
<1>3. ASSUME NEW n \in 0 .. N
      PROVE  f[n] = IF n = 0 THEN <<>> ELSE PathStep(next, p, f[n - 1])
  <2>1. CASE n = 0
    BY <1>1, <1>2, <2>1 DEF Least, Upto
  <2>2. CASE n # 0
    <3>1. n - 1 \in 0 .. N /\ n - 1 \in Nat /\ n \in Nat
      BY <2>2
    <3>2. PICK m \in 0 .. l : m = Least(n - 1, l)
      BY <3>1 DEF Least
    <3>3. f[n - 1] = Upto(q, m)
      BY <1>2, <3>1, <3>2
    <3>4. PathStep(next, p, Upto(q, m)) = IF m = l THEN Upto(q, m) ELSE Upto(q, m + 1)
      BY <1>1, <3>2, StepsOn
    <3>5. Least(n, l) = IF m = l THEN m ELSE m + 1
      BY <3>1, <3>2 DEF Least
    <3>6. f[n] = Upto(q, Least(n, l))
      BY <1>2
    <3> QED BY <2>2, <3>3, <3>4, <3>5, <3>6
  <2> QED BY <2>1, <2>2
<1>4. f = [n \in 0 .. N |-> IF n = 0 THEN <<>> ELSE PathStep(next, p, f[n - 1])]
  BY <1>2, <1>3
<1>5. IsPath(f, next, p, N)
  BY <1>4 DEF IsPath
<1> QED BY <1>1, <1>2, <1>5

\* It is the only one.
LEMMA PathIs ==
  ASSUME NEW next, NEW p, NEW q, Linked(next, p, q), NEW N \in Nat, NEW f, IsPath(f, next, p, N)
  PROVE  \A n \in 0 .. N : f[n] = Upto(q, Least(n, Len(q)))
<1>1. PICK e : e = [n \in 0 .. N |-> Upto(q, Least(n, Len(q)))] /\ IsPath(e, next, p, N)
  BY PathExists
<1> DEFINE S == {n \in Nat : n <= N => f[n] = e[n]}
<1>2. \A n \in 0 .. N : /\ f[n] = IF n = 0 THEN <<>> ELSE PathStep(next, p, f[n - 1])
                        /\ e[n] = IF n = 0 THEN <<>> ELSE PathStep(next, p, e[n - 1])
  BY <1>1 DEF IsPath
<1>3. 0 \in S
  <2>1. 0 \in 0 .. N
    OBVIOUS
  <2>2. f[0] = e[0]
    BY <1>2, <2>1
  <2> QED BY <2>2
<1>4. ASSUME NEW n \in S PROVE n + 1 \in S
  <2>1. n \in Nat /\ n + 1 \in Nat /\ n + 1 # 0 /\ (n + 1) - 1 = n
    OBVIOUS
  <2> SUFFICES ASSUME n + 1 <= N PROVE f[n + 1] = e[n + 1]
    BY <2>1
  <2>2. n + 1 \in 0 .. N /\ f[n] = e[n]
    BY <2>1
  <2> QED BY <1>2, <2>1, <2>2
<1>5. S \in SUBSET Nat
  OBVIOUS
<1> HIDE DEF S
<1>6. S = Nat
  BY <1>3, <1>4, <1>5, UpFromZero
<1>7. ASSUME NEW n \in 0 .. N PROVE f[n] = e[n]
  <2>1. n \in S /\ n <= N
    BY <1>6
  <2> QED BY <2>1 DEF S
<1> QED BY <1>1, <1>7

\* Chain finds the blocks that hang together.
LEMMA ChainIs ==
  ASSUME NEW p, NEW q, Linked(o.next, p, q)
  PROVE  Chain(p) = q
<1>1. PICK N \in Nat : N = Cardinality(Blocks)
  BY IpcAssumption, FS_CardinalityType
<1> DEFINE g == CHOOSE f :
             f = [n \in 0 .. N |-> IF n = 0 THEN <<>> ELSE PathStep(o.next, p, f[n - 1])]
<1>2. Chain(p) = g[N]
  BY <1>1, Zenon DEF Chain, PathStep
<1>3. IsPath(g, o.next, p, N)
  <2>1. PICK e : IsPath(e, o.next, p, N)
    BY PathExists
  <2>2. e = [n \in 0 .. N |-> IF n = 0 THEN <<>> ELSE PathStep(o.next, p, e[n - 1])]
    BY <2>1 DEF IsPath
  <2>3. g = [n \in 0 .. N |-> IF n = 0 THEN <<>> ELSE PathStep(o.next, p, g[n - 1])]
    BY <2>2, Zenon
  <2> QED BY <2>3 DEF IsPath
<1> HIDE DEF g
<1>4. g[N] = Upto(q, Least(N, Len(q)))
  BY <1>3, PathIs
<1>5. q \in Seq(Blocks) /\ IsInjective(q)
  BY DEF Linked
<1>6. Len(q) <= N
  <2>1. IsFiniteSet(Members(q)) /\ Cardinality(Members(q)) = Len(q)
    BY <1>5, LengthIsSize
  <2>2. Members(q) \subseteq Blocks
    BY <1>5 DEF Members
  <2> QED BY <1>1, <2>1, <2>2, IpcAssumption, FS_Subset
<1>7. Upto(q, Len(q)) = q
  BY <1>5 DEF Upto
<1>8. Least(N, Len(q)) = Len(q)
  BY <1>5, <1>6 DEF Least
<1> QED BY <1>2, <1>4, <1>7, <1>8

MqType(x) ==
  /\ x = [head |-> x.head, tail |-> x.tail, entry |-> x.entry, free |-> x.free,
          next |-> x.next, data |-> x.data, mine |-> x.mine, FIFO |-> x.FIFO]
  /\ x.next \in [Blocks -> Blocks \cup {Nil}] /\ x.data \in [Blocks -> Contents]
  /\ x.mine \in [Threads -> Blocks \cup {Nil}]

-----------------------------------------------------------------------------
(* The message queue. *)

\* The blocks that are not in the lists, whose members are L, are being copied.
Copies(x, y, L) ==
  /\ \A t \in Threads : x.mine[t] # Nil <=> y[t].pc = "copy"
  /\ \A t \in Threads : x.mine[t] # Nil => x.mine[t] \in Blocks \ L /\ y[t].arg \in Contents
  /\ \A t, u \in Threads : t # u /\ x.mine[t] = x.mine[u] => x.mine[t] = Nil
  /\ \A b \in Blocks \ L : \E t \in Threads : x.mine[t] = b
  /\ \A t \in Threads : x.mine[t] # Nil /\ y[t].op = "mq_recv" => x.data[x.mine[t]] = y[t].arg
  /\ \A t \in Threads : x.mine[t] # Nil /\ y[t].op = "mq_send" => x.next[x.mine[t]] = Nil

\* Q is queued and F is free.
MqAt(x, y, Q, F) ==
  /\ MqType(x)
  /\ Linked(x.next, x.head, Q) /\ Linked(x.next, x.free, F) /\ Members(Q) \cap Members(F) = {}
  /\ x.tail = (IF Q = <<>> THEN Nil ELSE Q[Len(Q)])
  /\ x.entry = Len(Q) /\ Holds(x.data, Q, x.FIFO)
  /\ Copies(x, y, Members(Q) \cup Members(F))

\* Only threads that copy matter.
LEMMA SameCopies ==
  ASSUME NEW x, NEW y, NEW L, Copies(x, y, L), NEW y2,
         \A u \in Threads : y[u].pc = "copy" \/ y2[u].pc = "copy" => y2[u] = y[u]
  PROVE  Copies(x, y2, L)
<1>1. \A t \in Threads : x.mine[t] # Nil <=> y2[t].pc = "copy"
  BY DEF Copies
<1>2. \A t \in Threads : x.mine[t] # Nil => y2[t] = y[t]
  BY DEF Copies
<1> QED BY <1>1, <1>2 DEF Copies

\* Thread t takes block b out of the lists, whose members were L.
Taking(x, y, v, y2, t, b, L) ==
  /\ L \subseteq Blocks /\ b \in L /\ MqType(x) /\ MqType(v) /\ Copies(x, y, L)
  /\ y[t].pc # "copy" /\ v.mine[t] = b /\ \A u \in Threads \ {t} : v.mine[u] = x.mine[u]
  /\ \A u \in Threads \ {t} : y2[u] = y[u]
  /\ y2[t].pc = "copy" /\ y2[t].arg \in Contents
  /\ y2[t].op = "mq_recv" => v.data[b] = y2[t].arg
  /\ y2[t].op = "mq_send" => v.next[b] = Nil
  /\ \A c \in Blocks \ L : v.next[c] = x.next[c] /\ v.data[c] = x.data[c]
\* Then b is being copied too.
LEMMA TakeCopies ==
  ASSUME NEW x, NEW y, NEW v, NEW y2, NEW t \in Threads, NEW b, NEW L, Taking(x, y, v, y2, t, b, L)
  PROVE  Copies(v, y2, L \ {b})
<1>0. /\ L \subseteq Blocks /\ b \in L /\ MqType(x) /\ MqType(v) /\ Copies(x, y, L)
      /\ y[t].pc # "copy" /\ v.mine[t] = b /\ \A u \in Threads \ {t} : v.mine[u] = x.mine[u]
      /\ \A u \in Threads \ {t} : y2[u] = y[u]
      /\ y2[t].pc = "copy" /\ y2[t].arg \in Contents
      /\ y2[t].op = "mq_recv" => v.data[b] = y2[t].arg
      /\ y2[t].op = "mq_send" => v.next[b] = Nil
      /\ \A c \in Blocks \ L : v.next[c] = x.next[c] /\ v.data[c] = x.data[c]
  BY DEF Taking
<1> USE <1>0
<1>1. x.mine[t] = Nil /\ b # Nil /\ b \in Blocks
  BY NilNoBlock DEF Copies
<1>2. v.mine[t] = b /\ \A u \in Threads \ {t} : v.mine[u] = x.mine[u]
  OBVIOUS
<1>3. \A u \in Threads : v.mine[u] # Nil <=> y2[u].pc = "copy"
  BY <1>1, <1>2 DEF Copies
<1>4. \A u \in Threads : v.mine[u] # Nil => v.mine[u] \in Blocks \ (L \ {b})
        /\ y2[u].arg \in Contents
  BY <1>1, <1>2 DEF Copies
<1>5. \A u \in Threads \ {t} : v.mine[u] # b
  BY <1>1, <1>2 DEF Copies
<1>6. ASSUME NEW u \in Threads, NEW r \in Threads, u # r, v.mine[u] = v.mine[r]
      PROVE  v.mine[u] = Nil
  BY <1>2, <1>5, <1>6 DEF Copies
<1>7. ASSUME NEW c \in Blocks \ (L \ {b}) PROVE \E u \in Threads : v.mine[u] = c
  <2>1. CASE c = b
    BY <1>2, <2>1
  <2>2. CASE c # b
    <3>1. PICK u \in Threads : x.mine[u] = c
      BY <2>2 DEF Copies
    <3>2. c # Nil
      BY NilNoBlock
    <3> QED BY <1>1, <1>2, <3>1, <3>2
  <2> QED BY <2>1, <2>2
<1>8. ASSUME NEW u \in Threads, v.mine[u] # Nil
      PROVE  /\ y2[u].op = "mq_recv" => v.data[v.mine[u]] = y2[u].arg
             /\ y2[u].op = "mq_send" => v.next[v.mine[u]] = Nil
  <2>1. CASE u = t
    BY <1>2, <2>1
  <2>2. CASE u # t
    <3>1. x.mine[u] \in Blocks \ L /\ v.mine[u] = x.mine[u] /\ y2[u] = y[u] /\ x.mine[u] # Nil
      BY <1>2, <1>8, <2>2 DEF Copies
    <3>2. v.next[x.mine[u]] = x.next[x.mine[u]] /\ v.data[x.mine[u]] = x.data[x.mine[u]]
      BY <3>1
    <3> QED BY <3>1, <3>2 DEF Copies
  <2> QED BY <2>1, <2>2
<1> QED BY <1>3, <1>4, <1>6, <1>7, <1>8 DEF Copies

\* Thread t puts its block b into a list.
Giving(x, y, v, y2, t, b, L) ==
  /\ MqType(x) /\ MqType(v) /\ Copies(x, y, L) /\ b = x.mine[t] /\ b # Nil
  /\ v.mine[t] = Nil /\ \A u \in Threads \ {t} : v.mine[u] = x.mine[u]
  /\ \A u \in Threads \ {t} : y2[u] = y[u]
  /\ y2[t].pc # "copy"
  /\ \A c \in Blocks \ (L \cup {b}) : v.next[c] = x.next[c] /\ v.data[c] = x.data[c]
\* Then b is not being copied any more.
LEMMA GiveCopies ==
  ASSUME NEW x, NEW y, NEW v, NEW y2, NEW t \in Threads, NEW b, NEW L, Giving(x, y, v, y2, t, b, L)
  PROVE  Copies(v, y2, L \cup {b})
<1>0. /\ MqType(x) /\ MqType(v) /\ Copies(x, y, L) /\ b = x.mine[t] /\ b # Nil
      /\ v.mine[t] = Nil /\ \A u \in Threads \ {t} : v.mine[u] = x.mine[u]
      /\ \A u \in Threads \ {t} : y2[u] = y[u]
      /\ y2[t].pc # "copy"
      /\ \A c \in Blocks \ (L \cup {b}) : v.next[c] = x.next[c] /\ v.data[c] = x.data[c]
  BY DEF Giving
<1> USE <1>0
<1>2. v.mine[t] = Nil /\ \A u \in Threads \ {t} : v.mine[u] = x.mine[u]
  OBVIOUS
<1>3. \A u \in Threads : v.mine[u] # Nil <=> y2[u].pc = "copy"
  BY <1>2 DEF Copies
<1>5. \A u \in Threads : v.mine[u] # b
  BY <1>2 DEF Copies
<1>4. \A u \in Threads : v.mine[u] # Nil => v.mine[u] \in Blocks \ (L \cup {b})
        /\ y2[u].arg \in Contents
  BY <1>2, <1>5 DEF Copies
<1>6. ASSUME NEW u \in Threads, NEW r \in Threads, u # r, v.mine[u] = v.mine[r]
      PROVE  v.mine[u] = Nil
  BY <1>2, <1>6 DEF Copies
<1>7. ASSUME NEW c \in Blocks \ (L \cup {b}) PROVE \E u \in Threads : v.mine[u] = c
  <2>1. PICK u \in Threads : x.mine[u] = c
    BY DEF Copies
  <2> QED BY <1>2, <2>1
<1>8. ASSUME NEW u \in Threads, v.mine[u] # Nil
      PROVE  /\ y2[u].op = "mq_recv" => v.data[v.mine[u]] = y2[u].arg
             /\ y2[u].op = "mq_send" => v.next[v.mine[u]] = Nil
  <2>1. u # t
    BY <1>2, <1>8
  <2>2. v.mine[u] \in Blocks \ (L \cup {b}) /\ v.mine[u] = x.mine[u] /\ y2[u] = y[u]
    BY <1>2, <1>4, <1>8, <2>1
  <2>3. v.next[x.mine[u]] = x.next[x.mine[u]] /\ v.data[x.mine[u]] = x.data[x.mine[u]]
    BY <2>2
  <2> QED BY <1>8, <2>2, <2>3 DEF Copies
<1> QED BY <1>3, <1>4, <1>6, <1>7, <1>8 DEF Copies

MqFields(x) ==
  x = [head |-> x.head, tail |-> x.tail, entry |-> x.entry, free |-> x.free,
       next |-> x.next, data |-> x.data, mine |-> x.mine, FIFO |-> x.FIFO]

\* What is said of the queue, piece by piece.
LEMMA AtFacts ==
  ASSUME NEW x, NEW y, NEW Q, NEW F, MqAt(x, y, Q, F)
  PROVE  /\ Q \in Seq(Blocks) /\ F \in Seq(Blocks)
         /\ Members(Q) \subseteq Blocks /\ Members(F) \subseteq Blocks
         /\ Members(Q) \cap Members(F) = {}
         /\ Linked(x.next, x.head, Q) /\ Linked(x.next, x.free, F)
         /\ x.next \in [Blocks -> Blocks \cup {Nil}] /\ x.data \in [Blocks -> Contents]
         /\ x.mine \in [Threads -> Blocks \cup {Nil}] /\ MqFields(x) /\ MqType(x)
         /\ Copies(x, y, Members(Q) \cup Members(F))
<1>1. Q \in Seq(Blocks) /\ F \in Seq(Blocks)
  BY DEF MqAt, Linked
<1>2. Members(Q) \subseteq Blocks /\ Members(F) \subseteq Blocks
  BY <1>1 DEF Members
<1> QED BY <1>1, <1>2 DEF MqAt, MqType, MqFields

\* A sender takes the first free block.
LEMMA TakesFree ==
  ASSUME NEW Q, NEW F, MqAt(o, th, Q, F), NEW t \in Threads, th[t].pc # "copy", o.free # Nil,
         o' = [o EXCEPT !.free = o.next[@], !.next[o.free] = Nil, !.mine[t] = o.free],
         \A u \in Threads \ {t} : th'[u] = th[u],
         NEW op \in {"mq_send", "mq_urgent"}, NEW msg \in Contents,
         th'[t] = [pc |-> "copy", op |-> op, arg |-> msg]
  PROVE  MqAt(o', th', Q, Tail(F)) /\ Len(Tail(F)) = Len(F) - 1
<1>100. /\ Q \in Seq(Blocks) /\ F \in Seq(Blocks)
        /\ Members(Q) \subseteq Blocks /\ Members(F) \subseteq Blocks
        /\ Members(Q) \cap Members(F) = {}
        /\ Linked(o.next, o.head, Q) /\ Linked(o.next, o.free, F)
        /\ o.next \in [Blocks -> Blocks \cup {Nil}] /\ o.data \in [Blocks -> Contents]
        /\ o.mine \in [Threads -> Blocks \cup {Nil}] /\ MqFields(o) /\ MqType(o)
        /\ Copies(o, th, Members(Q) \cup Members(F))
  BY AtFacts
<1>1. PICK b : b = o.free
  OBVIOUS
<1>2. b \in Blocks /\ b \in Members(F) /\ b # Nil
  BY <1>1, <1>100, FirstLinked
<1>3. /\ o'.free = o.next[b] /\ o'.next = [o.next EXCEPT ![b] = Nil]
           /\ o'.mine = [o.mine EXCEPT ![t] = b]
      /\ o'.head = o.head /\ o'.tail = o.tail /\ o'.entry = o.entry /\ o'.data = o.data
      /\ o'.FIFO = o.FIFO /\ MqFields(o')
  BY <1>1, <1>100 DEF MqFields
<1>4. MqType(o')
  BY <1>2, <1>3, <1>100 DEF MqType, MqFields
<1>5. /\ \A c \in Members(F) \ {b} : o'.next[c] = o.next[c]
      /\ \A c \in Members(Q) : o'.next[c] = o.next[c]
      /\ o'.next[b] = Nil
  BY <1>2, <1>3, <1>100
<1>6. /\ Linked(o'.next, o'.free, Tail(F)) /\ Members(Tail(F)) = Members(F) \ {b}
      /\ Len(Tail(F)) = Len(F) - 1
  BY <1>1, <1>2, <1>3, <1>5, <1>100, PopLinked
<1>7. Linked(o'.next, o'.head, Q)
  BY <1>3, <1>5, <1>100, SameLinked
<1>8. Copies(o', th', Members(Q) \cup Members(Tail(F)))
  <2>1. PICK L : L = Members(Q) \cup Members(F) /\ L \subseteq Blocks /\ Copies(o, th, L)
    BY <1>100
  <2>2. \A c \in Blocks \ L : o'.next[c] = o.next[c] /\ o'.data[c] = o.data[c]
    BY <1>2, <1>3, <2>1, <1>100
  <2>3. b \in L /\ MqType(o) /\ th'[t].pc = "copy" /\ th'[t].arg \in Contents
          /\ th'[t].op # "mq_recv"
    BY <1>2, <2>1, <1>100
  <2>9. o'.mine[t] = b /\ \A u \in Threads \ {t} : o'.mine[u] = o.mine[u]
    BY <1>3, <1>100
  <2>8. Taking(o, th, o', th', t, b, L)
    BY <1>4, <1>5, <2>1, <2>2, <2>3, <2>9 DEF Taking
  <2>4. Copies(o', th', L \ {b})
    BY <2>8, TakeCopies
  <2>5. L \ {b} = Members(Q) \cup Members(Tail(F))
    BY <1>2, <1>6, <2>1, <1>100
  <2> QED BY <2>4, <2>5
<1>9. Members(Q) \cap Members(Tail(F)) = {}
  BY <1>6, <1>100
<1>10. /\ o'.tail = (IF Q = <<>> THEN Nil ELSE Q[Len(Q)])
       /\ o'.entry = Len(Q) /\ Holds(o'.data, Q, o'.FIFO)
  BY <1>3 DEF MqAt
<1> QED BY <1>4, <1>6, <1>7, <1>8, <1>9, <1>10 DEF MqAt

\* A receiver takes the first queued block.
LEMMA TakesQueued ==
  ASSUME NEW Q, NEW F, MqAt(o, th, Q, F), NEW t \in Threads, th[t].pc # "copy", o.entry > 0,
         o' = [o EXCEPT !.head = o.next[@], !.tail = IF @ = o.head THEN Nil ELSE @,
                        !.entry = @ - 1, !.mine[t] = o.head, !.FIFO = Tail(@)],
         \A u \in Threads \ {t} : th'[u] = th[u],
         th'[t] = [pc |-> "copy", op |-> "mq_recv", arg |-> Head(o.FIFO)]
  PROVE  MqAt(o', th', Tail(Q), F) /\ Len(Tail(Q)) = Len(Q) - 1
<1>100. /\ Q \in Seq(Blocks) /\ F \in Seq(Blocks)
        /\ Members(Q) \subseteq Blocks /\ Members(F) \subseteq Blocks
        /\ Members(Q) \cap Members(F) = {}
        /\ Linked(o.next, o.head, Q) /\ Linked(o.next, o.free, F)
        /\ o.next \in [Blocks -> Blocks \cup {Nil}] /\ o.data \in [Blocks -> Contents]
        /\ o.mine \in [Threads -> Blocks \cup {Nil}] /\ MqFields(o) /\ MqType(o)
        /\ Copies(o, th, Members(Q) \cup Members(F))
  BY AtFacts
<1>1. PICK b : b = o.head
  OBVIOUS
<1>0. PICK n \in Nat : n = Len(Q) /\ n > 0 /\ o.entry = n
  BY <1>100 DEF MqAt
<1>2. b \in Blocks /\ b \in Members(Q) /\ b # Nil /\ Q # <<>> /\ b = Head(Q)
  BY <1>0, <1>1, <1>100, FirstLinked
<1>3. /\ o'.head = o.next[b] /\ o'.tail = (IF o.tail = b THEN Nil ELSE o.tail)
      /\ o'.entry = o.entry - 1 /\ o'.mine = [o.mine EXCEPT ![t] = b]
      /\ o'.FIFO = Tail(o.FIFO) /\ o'.free = o.free /\ o'.next = o.next /\ o'.data = o.data
      /\ MqFields(o')
  BY <1>1, <1>100 DEF MqFields
<1>4. MqType(o')
  BY <1>2, <1>3, <1>100 DEF MqType, MqFields
<1>5. /\ Linked(o'.next, o'.head, Tail(Q)) /\ Members(Tail(Q)) = Members(Q) \ {b}
      /\ Len(Tail(Q)) = Len(Q) - 1
  BY <1>1, <1>2, <1>3, <1>100, PopLinked
<1>6. /\ Holds(o.data, Tail(Q), Tail(o.FIFO)) /\ Head(o.FIFO) = o.data[b]
      /\ Head(o.FIFO) \in Contents
  BY <1>2, <1>100, PopHolds DEF MqAt
<1>7. Copies(o', th', Members(Tail(Q)) \cup Members(F))
  <2>1. PICK L : L = Members(Q) \cup Members(F) /\ L \subseteq Blocks /\ Copies(o, th, L)
    BY <1>100
  <2>3. b \in L /\ MqType(o) /\ th'[t].pc = "copy" /\ th'[t].arg \in Contents
          /\ th'[t].op # "mq_send"
        /\ o'.data[b] = th'[t].arg
    BY <1>2, <1>3, <1>6, <2>1, <1>100
  <2>9. o'.mine[t] = b /\ \A u \in Threads \ {t} : o'.mine[u] = o.mine[u]
    BY <1>3, <1>100
  <2>2. \A c \in Blocks \ L : o'.next[c] = o.next[c] /\ o'.data[c] = o.data[c]
    BY <1>3
  <2>8. Taking(o, th, o', th', t, b, L)
    BY <1>4, <2>1, <2>2, <2>3, <2>9 DEF Taking
  <2>4. Copies(o', th', L \ {b})
    BY <2>8, TakeCopies
  <2>5. L \ {b} = Members(Tail(Q)) \cup Members(F)
    BY <1>2, <1>5, <2>1, <1>100
  <2> QED BY <2>4, <2>5
<1>8. Members(Tail(Q)) \cap Members(F) = {}
  BY <1>5, <1>100
<1>9. o'.tail = IF Tail(Q) = <<>> THEN Nil ELSE Tail(Q)[Len(Tail(Q))]
  <2>1. PICK r : r = Tail(Q)
    OBVIOUS
  <2>2. r \in Seq(Blocks) /\ Len(r) = n - 1 /\ \A i \in 1 .. n - 1 : r[i] = Q[i + 1]
    BY <1>0, <1>2, <2>1, <1>100, Shifted
  <2>3. o.tail = Q[n] /\ b = Q[1]
    BY <1>0, <1>2, <1>100 DEF MqAt
  <2>4. CASE n = 1
    <3>1. r = <<>> /\ o.tail = b
      BY <2>2, <2>3, <2>4
    <3> QED BY <1>3, <2>1, <3>1
  <2>5. CASE n # 1
    <3>1. r # <<>> /\ r[n - 1] = Q[n]
      <4>1. n - 1 \in 1 .. n - 1 /\ (n - 1) + 1 = n
        BY <1>0, <2>5
      <4> QED BY <2>2, <4>1
    <3>2. Q[n] # Q[1]
      <4>1. n \in 1 .. Len(Q) /\ 1 \in 1 .. Len(Q) /\ IsInjective(Q)
        BY <1>0, <1>100 DEF Linked
      <4> QED BY <2>5, <4>1, <1>100, Indexed
    <3>3. o'.tail = r[n - 1] /\ Len(r) = n - 1
      BY <1>3, <2>2, <2>3, <3>1, <3>2
    <3> QED BY <2>1, <3>1, <3>3
  <2> QED BY <2>4, <2>5
<1>10. o'.entry = Len(Tail(Q)) /\ Holds(o'.data, Tail(Q), o'.FIFO)
  BY <1>0, <1>3, <1>5, <1>6
<1>11. Linked(o'.next, o'.free, F)
  BY <1>3, <1>100
<1> QED BY <1>4, <1>5, <1>7, <1>8, <1>9, <1>10, <1>11 DEF MqAt

\* A receiver gives its block back.
LEMMA GivesFree ==
  ASSUME NEW Q, NEW F, MqAt(o, th, Q, F), NEW t \in Threads, th[t].pc = "copy",
         o' = [o EXCEPT !.next[o.mine[t]] = o.free, !.free = o.mine[t], !.mine[t] = Nil,
                        !.data[o.mine[t]] = Nil],
         \A u \in Threads \ {t} : th'[u] = th[u], th'[t].pc # "copy"
  PROVE  \E E : MqAt(o', th', Q, E) /\ Len(E) = Len(F) + 1
<1>100. /\ Q \in Seq(Blocks) /\ F \in Seq(Blocks)
        /\ Members(Q) \subseteq Blocks /\ Members(F) \subseteq Blocks
        /\ Members(Q) \cap Members(F) = {}
        /\ Linked(o.next, o.head, Q) /\ Linked(o.next, o.free, F)
        /\ o.next \in [Blocks -> Blocks \cup {Nil}] /\ o.data \in [Blocks -> Contents]
        /\ o.mine \in [Threads -> Blocks \cup {Nil}] /\ MqFields(o) /\ MqType(o)
        /\ Copies(o, th, Members(Q) \cup Members(F))
  BY AtFacts
<1>1. PICK b : b = o.mine[t]
  OBVIOUS
<1>2. b \in Blocks /\ b # Nil /\ b \notin Members(Q) /\ b \notin Members(F)
  BY <1>1, <1>100 DEF Copies
<1>3. /\ o'.free = b /\ o'.next = [o.next EXCEPT ![b] = o.free]
           /\ o'.mine = [o.mine EXCEPT ![t] = Nil]
      /\ o'.data = [o.data EXCEPT ![b] = Nil] /\ o'.head = o.head /\ o'.tail = o.tail
      /\ o'.entry = o.entry /\ o'.FIFO = o.FIFO /\ MqFields(o')
  BY <1>1, <1>100 DEF MqFields
<1>12. o.free \in Blocks \cup {Nil}
  BY <1>100, FirstLinked
<1>4. MqType(o')
  BY <1>2, <1>3, <1>12, <1>100 DEF MqType, MqFields, Contents
<1>5. /\ \A c \in Blocks \ {b} : o'.next[c] = o.next[c] /\ o'.data[c] = o.data[c]
      /\ o'.next[b] = o.free
  BY <1>2, <1>3, <1>100
<1>13. /\ \A c \in Members(F) : o'.next[c] = o.next[c]
       /\ \A c \in Members(Q) : o'.next[c] = o.next[c] /\ o'.data[c] = o.data[c]
  BY <1>2, <1>5, <1>100
<1>6. PICK E : E = <<b>> \o F
  OBVIOUS
<1>7. /\ Linked(o'.next, b, E) /\ Members(E) = Members(F) \cup {b} /\ Len(E) = Len(F) + 1
  BY <1>2, <1>5, <1>6, <1>13, <1>100, PushLinked
<1>8. Linked(o'.next, o'.head, Q)
  BY <1>3, <1>13, <1>100, SameLinked
<1>9. Copies(o', th', Members(Q) \cup Members(E))
  <2>1. PICK L : L = Members(Q) \cup Members(F) /\ Copies(o, th, L)
    BY <1>100
  <2>2. \A c \in Blocks \ (L \cup {b}) : o'.next[c] = o.next[c] /\ o'.data[c] = o.data[c]
    BY <1>5
  <2>9. o'.mine[t] = Nil /\ \A u \in Threads \ {t} : o'.mine[u] = o.mine[u]
    BY <1>3, <1>100
  <2>8. Giving(o, th, o', th', t, b, L)
    BY <1>1, <1>2, <1>4, <2>1, <2>2, <2>9, <1>100 DEF Giving
  <2>3. Copies(o', th', L \cup {b})
    BY <2>8, GiveCopies
  <2>4. L \cup {b} = Members(Q) \cup Members(E)
    BY <1>7, <2>1
  <2> QED BY <2>3, <2>4
<1>10. Members(Q) \cap Members(E) = {}
  BY <1>2, <1>7, <1>100
<1>11. /\ o'.tail = (IF Q = <<>> THEN Nil ELSE Q[Len(Q)])
       /\ o'.entry = Len(Q) /\ Holds(o'.data, Q, o'.FIFO)
  BY <1>3, <1>13, <1>100, SameHolds DEF MqAt
<1>14. MqAt(o', th', Q, E)
  BY <1>3, <1>4, <1>7, <1>8, <1>9, <1>10, <1>11 DEF MqAt
<1> QED BY <1>7, <1>14

\* A sender links its block at the end.
LEMMA GivesLast ==
  ASSUME NEW Q, NEW F, MqAt(o, th, Q, F), NEW t \in Threads, th[t].pc = "copy",
         th[t].op = "mq_send",
         o' = [o EXCEPT !.next = IF o.tail # Nil THEN [o.next EXCEPT ![o.tail] = o.mine[t]]
                                 ELSE o.next,
                        !.data[o.mine[t]] = th[t].arg, !.tail = o.mine[t],
                        !.head = IF @ = Nil THEN o.mine[t] ELSE @, !.entry = @ + 1,
                        !.mine[t] = Nil, !.FIFO = Append(@, th[t].arg)],
         \A u \in Threads \ {t} : th'[u] = th[u], th'[t].pc # "copy"
  PROVE  \E R : MqAt(o', th', R, F) /\ Len(R) = Len(Q) + 1
<1>100. /\ Q \in Seq(Blocks) /\ F \in Seq(Blocks)
        /\ Members(Q) \subseteq Blocks /\ Members(F) \subseteq Blocks
        /\ Members(Q) \cap Members(F) = {}
        /\ Linked(o.next, o.head, Q) /\ Linked(o.next, o.free, F)
        /\ o.next \in [Blocks -> Blocks \cup {Nil}] /\ o.data \in [Blocks -> Contents]
        /\ o.mine \in [Threads -> Blocks \cup {Nil}] /\ MqFields(o) /\ MqType(o)
        /\ Copies(o, th, Members(Q) \cup Members(F))
  BY AtFacts
<1>1. PICK b, m : b = o.mine[t] /\ m = th[t].arg
  OBVIOUS
<1>2. /\ b \in Blocks /\ b # Nil /\ b \notin Members(Q) /\ b \notin Members(F)
      /\ m \in Contents /\ o.next[b] = Nil
  BY <1>1, <1>100 DEF Copies
<1>20. o.tail = (IF Q = <<>> THEN Nil ELSE Q[Len(Q)]) /\ o.entry = Len(Q)
         /\ Holds(o.data, Q, o.FIFO)
  BY DEF MqAt
<1>21. Q # <<>> => o.tail = Q[Len(Q)] /\ o.tail \in Members(Q) /\ o.tail # Nil
  <2>1. Q # <<>> => Q[Len(Q)] \in Members(Q)
    BY <1>100 DEF Members
  <2> QED BY <1>20, <1>100, <2>1, NilNoBlock
<1>22. Q = <<>> <=> o.tail = Nil
  BY <1>20, <1>21
<1>3. /\ o'.free = o.free /\ o'.mine = [o.mine EXCEPT ![t] = Nil]
      /\ o'.next = (IF o.tail # Nil THEN [o.next EXCEPT ![o.tail] = b] ELSE o.next)
      /\ o'.data = [o.data EXCEPT ![b] = m] /\ o'.head = (IF o.head = Nil THEN b ELSE o.head)
      /\ o'.tail = b /\ o'.entry = o.entry + 1 /\ o'.FIFO = Append(o.FIFO, m) /\ MqFields(o')
  BY <1>1, <1>100 DEF MqFields
<1>30. o'.next \in [Blocks -> Blocks \cup {Nil}]
  BY <1>2, <1>3, <1>21, <1>22, <1>100
<1>4. MqType(o')
  BY <1>2, <1>3, <1>30, <1>100 DEF MqType, MqFields
<1>5. /\ \A c \in Blocks : c # o.tail => o'.next[c] = o.next[c]
      /\ \A c \in Blocks \ {b} : o'.data[c] = o.data[c]
      /\ o'.data[b] = m
      /\ o.tail # Nil => o'.next[o.tail] = b
  BY <1>2, <1>3, <1>21, <1>22, <1>100
<1>6. /\ b # o.tail /\ o.tail \notin Members(F)
      /\ o'.next[b] = Nil
      /\ Q # <<>> => o'.next[Q[Len(Q)]] = b
      /\ \A c \in Members(Q) : c # Q[Len(Q)] => o'.next[c] = o.next[c]
      /\ \A c \in Members(F) : o'.next[c] = o.next[c]
      /\ \A c \in Members(Q) : o'.data[c] = o.data[c]
  <2>1. b # o.tail /\ o.tail \notin Members(F)
    BY <1>2, <1>20, <1>21, <1>100, NilNoBlock
  <2>2. \A c \in Members(Q) : c # Q[Len(Q)] => c # o.tail
    BY <1>20, <1>21, <1>100, NilNoBlock
  <2> QED BY <1>2, <1>5, <1>21, <1>22, <1>100, <2>1, <2>2
<1>7. PICK R : R = Append(Q, b)
  OBVIOUS
<1>8. /\ Linked(o'.next, IF o.head = Nil THEN b ELSE o.head, R)
      /\ Members(R) = Members(Q) \cup {b} /\ Len(R) = Len(Q) + 1 /\ R[Len(Q) + 1] = b
  BY <1>2, <1>6, <1>7, <1>100, AppendLinked
<1>9. Linked(o'.next, o'.free, F)
  BY <1>3, <1>6, <1>100, SameLinked
<1>10. Copies(o', th', Members(R) \cup Members(F))
  <2>1. PICK L : L = Members(Q) \cup Members(F) /\ Copies(o, th, L)
    BY <1>100
  <2>2. \A c \in Blocks \ (L \cup {b}) : o'.next[c] = o.next[c] /\ o'.data[c] = o.data[c]
    <3>1. \A c \in Blocks \ (L \cup {b}) : c # o.tail
      BY <1>21, <1>22, <2>1, NilNoBlock
    <3> QED BY <1>5, <3>1
  <2>9. o'.mine[t] = Nil /\ \A u \in Threads \ {t} : o'.mine[u] = o.mine[u]
    BY <1>3, <1>100
  <2>8. Giving(o, th, o', th', t, b, L)
    BY <1>1, <1>2, <1>4, <2>1, <2>2, <2>9, <1>100 DEF Giving
  <2>3. Copies(o', th', L \cup {b})
    BY <2>8, GiveCopies
  <2>4. L \cup {b} = Members(R) \cup Members(F)
    BY <1>8, <2>1
  <2> QED BY <2>3, <2>4
<1>11. Members(R) \cap Members(F) = {}
  BY <1>2, <1>8, <1>100
<1>12. Holds(o'.data, R, o'.FIFO)
  <2>1. PICK f, g : f = o.FIFO /\ g = o'.data
    OBVIOUS
  <2>2. Holds(o.data, Q, f) /\ g[b] = m /\ \A c \in Members(Q) : g[c] = o.data[c]
    BY <1>2, <1>5, <1>6, <1>20, <2>1
  <2>3. Holds(g, Append(Q, b), Append(f, m))
    BY <1>2, <1>100, <2>2, PushHolds
  <2> QED BY <1>3, <1>7, <2>1, <2>3
<1>13. o'.tail = (IF R = <<>> THEN Nil ELSE R[Len(R)]) /\ o'.entry = Len(R)
  <2>1. R # <<>> /\ R[Len(R)] = b
    BY <1>7, <1>8, <1>100
  <2> QED BY <1>3, <1>8, <1>20, <2>1
<1>14. MqAt(o', th', R, F)
  BY <1>3, <1>4, <1>8, <1>9, <1>10, <1>11, <1>12, <1>13 DEF MqAt
<1> QED BY <1>8, <1>14

\* A sender of an urgent message links its block in front.
LEMMA GivesFirst ==
  ASSUME NEW Q, NEW F, MqAt(o, th, Q, F), NEW t \in Threads, th[t].pc = "copy",
         o' = [o EXCEPT !.next[o.mine[t]] = o.head, !.data[o.mine[t]] = th[t].arg,
                        !.head = o.mine[t], !.tail = IF @ = Nil THEN o.mine[t] ELSE @,
                        !.entry = @ + 1, !.mine[t] = Nil, !.FIFO = <<th[t].arg>> \o @],
         \A u \in Threads \ {t} : th'[u] = th[u], th'[t].pc # "copy"
  PROVE  \E R : MqAt(o', th', R, F) /\ Len(R) = Len(Q) + 1
<1>100. /\ Q \in Seq(Blocks) /\ F \in Seq(Blocks)
        /\ Members(Q) \subseteq Blocks /\ Members(F) \subseteq Blocks
        /\ Members(Q) \cap Members(F) = {}
        /\ Linked(o.next, o.head, Q) /\ Linked(o.next, o.free, F)
        /\ o.next \in [Blocks -> Blocks \cup {Nil}] /\ o.data \in [Blocks -> Contents]
        /\ o.mine \in [Threads -> Blocks \cup {Nil}] /\ MqFields(o) /\ MqType(o)
        /\ Copies(o, th, Members(Q) \cup Members(F))
  BY AtFacts
<1>1. PICK b, m : b = o.mine[t] /\ m = th[t].arg
  OBVIOUS
<1>2. /\ b \in Blocks /\ b # Nil /\ b \notin Members(Q) /\ b \notin Members(F) /\ m \in Contents
  BY <1>1, <1>100 DEF Copies
<1>20. o.tail = (IF Q = <<>> THEN Nil ELSE Q[Len(Q)]) /\ o.entry = Len(Q)
         /\ Holds(o.data, Q, o.FIFO)
  BY DEF MqAt
<1>21. Q # <<>> => o.tail = Q[Len(Q)] /\ o.tail # Nil
  <2>1. Q # <<>> => Q[Len(Q)] \in Blocks
    BY <1>100
  <2> QED BY <1>20, <1>100, <2>1, NilNoBlock
<1>3. /\ o'.free = o.free /\ o'.mine = [o.mine EXCEPT ![t] = Nil]
      /\ o'.next = [o.next EXCEPT ![b] = o.head]
      /\ o'.data = [o.data EXCEPT ![b] = m] /\ o'.head = b
      /\ o'.tail = (IF o.tail = Nil THEN b ELSE o.tail)
      /\ o'.entry = o.entry + 1 /\ o'.FIFO = <<m>> \o o.FIFO /\ MqFields(o')
  BY <1>1, <1>100 DEF MqFields
<1>30. o.head \in Blocks \cup {Nil}
  BY <1>100, FirstLinked
<1>4. MqType(o')
  BY <1>2, <1>3, <1>30, <1>100 DEF MqType, MqFields
<1>5. /\ \A c \in Blocks \ {b} : o'.next[c] = o.next[c] /\ o'.data[c] = o.data[c]
      /\ o'.next[b] = o.head /\ o'.data[b] = m
  BY <1>2, <1>3, <1>100
<1>6. /\ \A c \in Members(F) : o'.next[c] = o.next[c]
      /\ \A c \in Members(Q) : o'.next[c] = o.next[c]
      /\ \A c \in Members(Q) : o'.data[c] = o.data[c]
  BY <1>2, <1>5, <1>100
<1>7. PICK R : R = <<b>> \o Q
  OBVIOUS
<1>8. Linked(o'.next, b, R) /\ Members(R) = Members(Q) \cup {b} /\ Len(R) = Len(Q) + 1
  BY <1>2, <1>5, <1>6, <1>7, <1>100, PushLinked
<1>9. Linked(o'.next, o'.free, F)
  BY <1>3, <1>6, <1>100, SameLinked
<1>10. Copies(o', th', Members(R) \cup Members(F))
  <2>1. PICK L : L = Members(Q) \cup Members(F) /\ Copies(o, th, L)
    BY <1>100
  <2>2. \A c \in Blocks \ (L \cup {b}) : o'.next[c] = o.next[c] /\ o'.data[c] = o.data[c]
    BY <1>5
  <2>9. o'.mine[t] = Nil /\ \A u \in Threads \ {t} : o'.mine[u] = o.mine[u]
    BY <1>3, <1>100
  <2>8. Giving(o, th, o', th', t, b, L)
    BY <1>1, <1>2, <1>4, <2>1, <2>2, <2>9, <1>100 DEF Giving
  <2>3. Copies(o', th', L \cup {b})
    BY <2>8, GiveCopies
  <2>4. L \cup {b} = Members(R) \cup Members(F)
    BY <1>8, <2>1
  <2> QED BY <2>3, <2>4
<1>11. Members(R) \cap Members(F) = {}
  BY <1>2, <1>8, <1>100
<1>12. Holds(o'.data, R, o'.FIFO)
  <2>1. PICK f, g : f = o.FIFO /\ g = o'.data
    OBVIOUS
  <2>2. Holds(o.data, Q, f) /\ g[b] = m /\ \A c \in Members(Q) : g[c] = o.data[c]
    BY <1>2, <1>5, <1>6, <1>20, <2>1
  <2>3. Holds(g, <<b>> \o Q, <<m>> \o f)
    BY <1>2, <1>100, <2>2, PushHolds
  <2> QED BY <1>3, <1>7, <2>1, <2>3
<1>13. o'.tail = (IF R = <<>> THEN Nil ELSE R[Len(R)]) /\ o'.entry = Len(R)
  <2>1. PICK n \in Nat : n = Len(Q) /\ (n = 0 <=> Q = <<>>)
    BY <1>100
  <2>2. Len(R) = n + 1 /\ R[1] = b /\ R # <<>> /\ \A i \in 1 .. n : R[i + 1] = Q[i]
    BY <1>2, <1>7, <1>100, <2>1, Longer
  <2>3. CASE n = 0
    BY <1>3, <1>20, <2>1, <2>2, <2>3
  <2>4. CASE n # 0
    <3>1. n \in 1 .. n /\ R[n + 1] = Q[n]
      BY <2>2, <2>4
    <3> QED BY <1>3, <1>20, <1>21, <2>1, <2>2, <2>4, <3>1
  <2> QED BY <2>3, <2>4
<1>14. MqAt(o', th', R, F)
  BY <1>3, <1>4, <1>8, <1>9, <1>10, <1>11, <1>12, <1>13 DEF MqAt
<1> QED BY <1>8, <1>14

-----------------------------------------------------------------------------
(* Resetting a queue releases all that is queued. *)

\* One step of the release of all queued messages.
ReleaseStep(x, b) == [x EXCEPT !.next[b] = x.free, !.free = b, !.data[b] = Nil]
ReleaseFold(g, z, q, n) ==
  g = [I \in SUBSET (1 .. n) |-> IF I = {} THEN z ELSE ReleaseStep(g[I \ {Max(I)}], q[Max(I)])]
ReleaseAll(q) ==
  LET release(acc, b) == [acc EXCEPT !.next[b] = acc.free, !.free = b, !.data[b] = Nil]
  IN FoldLeft(release, o, q)

\* The recursive function that releasing a list of blocks is exists.
LEMMA ReleaseFoldExists ==
  ASSUME NEW z, NEW q, NEW n \in Nat
  PROVE  \E g : ReleaseFold(g, z, q, n)
<1> DEFINE S == {k \in Nat : \E g : ReleaseFold(g, z, q, k)}
<1>1. 0 \in S
  <2>1. \A I \in SUBSET (1 .. 0) : I = {}
    OBVIOUS
  <2> DEFINE g == [I \in SUBSET (1 .. 0) |-> z]
  <2>2. ReleaseFold(g, z, q, 0)
    BY <2>1 DEF ReleaseFold
  <2> QED BY <2>2
<1>2. ASSUME NEW k \in S PROVE k + 1 \in S
  <2>1. PICK g : ReleaseFold(g, z, q, k)
    OBVIOUS
  <2>0. k \in Nat /\ k + 1 \in Nat
    OBVIOUS
  <2> DEFINE f == [I \in SUBSET (1 .. k + 1) |->
                     IF k + 1 \in I THEN ReleaseStep(g[I \ {k + 1}], q[k + 1]) ELSE g[I]]
             e == [I \in SUBSET (1 .. k + 1) |->
                     IF I = {} THEN z ELSE ReleaseStep(f[I \ {Max(I)}], q[Max(I)])]
  <2>2. ASSUME NEW I \in SUBSET (1 .. k) PROVE I \in SUBSET (1 .. k + 1) /\ f[I] = g[I]
    <3>1. k + 1 \notin I /\ I \in SUBSET (1 .. k + 1)
      BY <2>0
    <3> QED BY <3>1
  <2>3. ASSUME NEW I \in SUBSET (1 .. k + 1) PROVE f[I] = e[I]
    <3>1. CASE k + 1 \in I
      <4>1. I # {} /\ Max(I) = k + 1 /\ I \ {k + 1} \in SUBSET (1 .. k)
        BY <2>0, <3>1, UpTo
      <4>2. f[I \ {k + 1}] = g[I \ {k + 1}]
        BY <2>2, <4>1
      <4>3. f[I] = ReleaseStep(g[I \ {k + 1}], q[k + 1])
        BY <3>1
      <4>4. e[I] = ReleaseStep(f[I \ {k + 1}], q[k + 1])
        BY <4>1
      <4> HIDE DEF f, e
      <4> QED BY <4>2, <4>3, <4>4
    <3>2. CASE k + 1 \notin I
      <4>1. I \in SUBSET (1 .. k)
        BY <2>0, <3>2, UpTo
      <4>2. f[I] = g[I]
        BY <2>2, <4>1
      <4>3. g[I] = IF I = {} THEN z ELSE ReleaseStep(g[I \ {Max(I)}], q[Max(I)])
        BY <2>1, <4>1 DEF ReleaseFold
      <4>4. f[I \ {Max(I)}] = g[I \ {Max(I)}]
        BY <2>2, <4>1
      <4>5. e[I] = IF I = {} THEN z ELSE ReleaseStep(f[I \ {Max(I)}], q[Max(I)])
        OBVIOUS
      <4> HIDE DEF f, e
      <4> QED BY <4>2, <4>3, <4>4, <4>5
    <3> QED BY <3>1, <3>2
  <2>4. f = e
    BY <2>3
  <2>5. ReleaseFold(f, z, q, k + 1)
    BY <2>4 DEF ReleaseFold
  <2> QED BY <2>0, <2>5
<1>3. S \in SUBSET Nat
  OBVIOUS
<1> HIDE DEF S
<1>4. S = Nat
  BY <1>1, <1>2, <1>3, UpFromZero
<1>5. n \in S
  BY <1>4
<1> QED BY <1>5 DEF S

\* Releasing all is that function at the whole list.
LEMMA ReleaseAllIsFold ==
  ASSUME NEW q, NEW S, q \in Seq(S)
  PROVE  \E g : ReleaseFold(g, o, q, Len(q)) /\ ReleaseAll(q) = g[1 .. Len(q)]
<1>2. DOMAIN q = 1 .. Len(q) /\ Len(q) \in Nat
  OBVIOUS
<1>3. PICK D : D = 1 .. Len(q)
  OBVIOUS
<1> DEFINE g == CHOOSE g : g = [I \in SUBSET D |->
                    IF I = {} THEN o ELSE ReleaseStep(g[I \ {Max(I)}], q[Max(I)])]
<1>4. ReleaseAll(q) = g[D]
  BY <1>2, <1>3, Zenon DEF ReleaseAll, FoldLeft, MapThenFoldSet, ReleaseStep
<1>5. ReleaseFold(g, o, q, Len(q))
  <2>1. PICK f : ReleaseFold(f, o, q, Len(q))
    BY <1>2, ReleaseFoldExists
  <2>2. f = [I \in SUBSET D |-> IF I = {} THEN o ELSE ReleaseStep(f[I \ {Max(I)}], q[Max(I)])]
    BY <1>3, <2>1 DEF ReleaseFold
  <2>3. g = [I \in SUBSET D |-> IF I = {} THEN o ELSE ReleaseStep(g[I \ {Max(I)}], q[Max(I)])]
    BY <2>2, Zenon
  <2> QED BY <1>3, <2>3 DEF ReleaseFold
<1> HIDE DEF g
<1> QED BY <1>3, <1>4, <1>5

\* In y, the blocks U are linked in front of the free blocks F; the others are as in x.
Released(x, y, F, U) ==
  /\ MqType(y) /\ y.mine = x.mine
  /\ \A c \in Blocks \ U : y.next[c] = x.next[c] /\ y.data[c] = x.data[c]
  /\ \E G : Linked(y.next, y.free, G) /\ Members(G) = Members(F) \cup U

\* One block more.
LEMMA ReleaseOne ==
  ASSUME NEW x, NEW y, NEW F, NEW U, Released(x, y, F, U), NEW b \in Blocks,
         b \notin U, b \notin Members(F), NEW v, v = ReleaseStep(y, b)
  PROVE  Released(x, v, F, U \cup {b})
<1>1. PICK G : Linked(y.next, y.free, G) /\ Members(G) = Members(F) \cup U
  BY DEF Released
<1>2. /\ MqFields(y) /\ y.next \in [Blocks -> Blocks \cup {Nil}] /\ y.data \in [Blocks -> Contents]
      /\ y.mine \in [Threads -> Blocks \cup {Nil}]
  BY DEF Released, MqType, MqFields
<1>3. /\ v.free = b /\ v.next = [y.next EXCEPT ![b] = y.free] /\ v.data = [y.data EXCEPT ![b] = Nil]
      /\ v.mine = y.mine /\ MqFields(v)
  BY <1>2 DEF MqFields, ReleaseStep
<1>4. y.free \in Blocks \cup {Nil}
  BY <1>1, FirstLinked
<1>5. MqType(v)
  BY <1>2, <1>3, <1>4 DEF MqType, MqFields, Contents
<1>6. /\ \A c \in Blocks \ {b} : v.next[c] = y.next[c] /\ v.data[c] = y.data[c]
      /\ v.next[b] = y.free
  BY <1>2, <1>3
<1>7. \A c \in Members(G) : c \in Blocks /\ c # b /\ v.next[c] = y.next[c]
  BY <1>1, <1>6 DEF Linked, Members
<1>8. PICK E : E = <<b>> \o G
  OBVIOUS
<1>9. Linked(v.next, b, E) /\ Members(E) = Members(G) \cup {b}
  BY <1>1, <1>6, <1>7, <1>8, PushLinked
<1>10. \A c \in Blocks \ (U \cup {b}) : v.next[c] = x.next[c] /\ v.data[c] = x.data[c]
  BY <1>6 DEF Released
<1>11. Members(E) = Members(F) \cup (U \cup {b})
  BY <1>1, <1>9
<1>12. v.mine = x.mine
  BY <1>3 DEF Released
<1> QED BY <1>3, <1>5, <1>9, <1>10, <1>11, <1>12 DEF Released

\* All queued blocks.
LEMMA AllReleased ==
  ASSUME NEW Q, NEW F, MqAt(o, th, Q, F)
  PROVE  Released(o, ReleaseAll(Q), F, Members(Q))
<1>99. /\ Q \in Seq(Blocks) /\ Members(Q) \cap Members(F) = {}
       /\ Linked(o.next, o.head, Q) /\ Linked(o.next, o.free, F) /\ MqType(o)
  BY AtFacts
<1>98. IsInjective(Q)
  BY <1>99 DEF Linked
<1>100. /\ Q \in Seq(Blocks) /\ Members(Q) \cap Members(F) = {} /\ IsInjective(Q)
        /\ Linked(o.next, o.free, F) /\ MqType(o)
  BY <1>98, <1>99
<1>2. PICK n \in Nat : n = Len(Q)
  BY <1>100
<1>3. PICK g : ReleaseFold(g, o, Q, n) /\ ReleaseAll(Q) = g[1 .. n]
  BY <1>100, <1>2, ReleaseAllIsFold
<1> DEFINE G == {I \in SUBSET (1 .. n) : Released(o, g[I], F, ThoseAt(Q, I))}
<1>4. {} \in G
  <2>1. g[{}] = o /\ ThoseAt(Q, {}) = {}
    BY <1>3 DEF ReleaseFold, ThoseAt
  <2>2. Released(o, o, F, {})
    BY <1>100 DEF Released
  <2>3. {} \in SUBSET (1 .. n)
    OBVIOUS
  <2> QED BY <2>1, <2>2, <2>3
<1>5. ASSUME NEW I \in SUBSET (1 .. n), I # {}, I \ {Max(I)} \in G PROVE I \in G
  <2>1. g[I] = ReleaseStep(g[I \ {Max(I)}], Q[Max(I)])
    BY <1>3, <1>5 DEF ReleaseFold
  <2>2. PICK y : y = g[I \ {Max(I)}] /\ Released(o, y, F, ThoseAt(Q, I \ {Max(I)}))
    BY <1>5
  <2>3. PICK k \in 1 .. n : k = Max(I) /\ k \in I
    <3>1. Max(I) \in I /\ Max(I) \in 1 .. n
      BY <1>5, LastOf
    <3> QED BY <3>1
  <2>4. PICK b \in Blocks : b = Q[k] /\ b \in Members(Q) /\ b \notin Members(F)
    BY <1>2, <1>100, Indexed
  <2>5. PICK U : U = ThoseAt(Q, I \ {k})
    OBVIOUS
  <2>6. b \notin U
    <3>1. \A j \in I \ {k} : j \in 1 .. n /\ Q[j] # Q[k]
      BY <1>2, <1>100, Indexed
    <3> QED BY <2>4, <2>5, <3>1 DEF ThoseAt
  <2>7. PICK v : v = ReleaseStep(y, b)
    OBVIOUS
  <2>8. Released(o, v, F, U \cup {b})
    BY <2>2, <2>3, <2>4, <2>5, <2>6, <2>7, ReleaseOne
  <2>9. U \cup {b} = ThoseAt(Q, I)
    BY <2>3, <2>4, <2>5 DEF ThoseAt
  <2>10. g[I] = v
    BY <2>1, <2>2, <2>3, <2>4, <2>7
  <2>11. Released(o, g[I], F, ThoseAt(Q, I))
    BY <2>8, <2>9, <2>10
  <2> QED BY <2>11
<1>6. 1 .. n \in G
  <2> HIDE DEF G
  <2> QED BY <1>4, <1>5, Folded
<1>7. ThoseAt(Q, 1 .. n) = Members(Q)
  BY <1>2, <1>100 DEF Members, ThoseAt
<1> QED BY <1>3, <1>6, <1>7

\* Nothing happens to blocks that are being copied.
LEMMA KeepCopies ==
  ASSUME NEW x, NEW y, NEW L, Copies(x, y, L), NEW v, v.mine = x.mine,
         \A c \in Blocks \ L : v.next[c] = x.next[c] /\ v.data[c] = x.data[c]
  PROVE  Copies(v, y, L)
  BY DEF Copies

\* A reset empties the queue.
LEMMA Emptied ==
  ASSUME NEW Q, NEW F, MqAt(o, th, Q, F),
         o' = [ReleaseAll(Q) EXCEPT !.head = Nil, !.tail = Nil, !.entry = 0, !.FIFO = <<>>],
         th' = th
  PROVE  \E G : MqAt(o', th', <<>>, G)
<1>1. PICK y : y = ReleaseAll(Q) /\ Released(o, y, F, Members(Q))
  BY AllReleased
<1>2. /\ MqFields(y) /\ y.next \in [Blocks -> Blocks \cup {Nil}] /\ y.data \in [Blocks -> Contents]
      /\ y.mine \in [Threads -> Blocks \cup {Nil}] /\ y.mine = o.mine
  BY <1>1 DEF Released, MqType, MqFields
<1>3. /\ o'.free = y.free /\ o'.next = y.next /\ o'.data = y.data /\ o'.mine = o.mine
      /\ o'.head = Nil /\ o'.tail = Nil /\ o'.entry = 0 /\ o'.FIFO = <<>> /\ MqFields(o')
  BY <1>1, <1>2 DEF MqFields
<1>4. MqType(o')
  BY <1>2, <1>3 DEF MqType, MqFields
<1>5. PICK G : Linked(y.next, y.free, G) /\ Members(G) = Members(F) \cup Members(Q)
  BY <1>1 DEF Released
<1>6. Copies(o', th', Members(G))
  <2>1. PICK L : L = Members(Q) \cup Members(F) /\ Copies(o, th, L)
    BY DEF MqAt
  <2>2. \A c \in Blocks \ L : o'.next[c] = o.next[c] /\ o'.data[c] = o.data[c]
    BY <1>1, <1>3, <2>1 DEF Released
  <2>3. PICK v : v = o'
    OBVIOUS
  <2>4. Copies(v, th, L)
    BY <1>3, <2>1, <2>2, <2>3, KeepCopies
  <2>5. Copies(v, th', L)
    BY <2>4
  <2> QED BY <1>5, <2>1, <2>3, <2>5
<1>7. Linked(o'.next, o'.head, <<>>) /\ Members(<<>>) = {} /\ Holds(o'.data, <<>>, o'.FIFO)
  BY <1>3 DEF Linked, FirstBlock, Members, Holds, IsInjective
<1>8. Members(<<>>) \cup Members(G) = Members(G) /\ Members(<<>>) \cap Members(G) = {}
  BY <1>7
<1>9. Linked(o'.next, o'.free, G) /\ o'.entry = Len(<<>>)
  BY <1>3, <1>5
<1>10. Copies(o', th', Members(<<>>) \cup Members(G))
  BY <1>6, <1>8
<1> QED BY <1>3, <1>4, <1>7, <1>8, <1>9, <1>10 DEF MqAt

(* Who waits for the message queue. *)

MqQueues(z, x, n, f) ==
  /\ Sound(z) /\ ThOk(z, x)
  /\ Queued(z, x, "mq_recv", recv) /\ Queued(z, x, "mq_send", send)
  /\ Enough(z, x, "mq_recv", recv, n) /\ Enough(z, x, "mq_send", send, f)

MqFacts(Q, F) ==
  /\ Sound(s) /\ ThOk(s, th) /\ recv \in WaitLists /\ send \in WaitLists /\ recv # send
  /\ Queued(s, th, "mq_recv", recv) /\ Queued(s, th, "mq_send", send)
  /\ Enough(s, th, "mq_recv", recv, Len(Q)) /\ Enough(s, th, "mq_send", send, Len(F))
  /\ Len(Q) \in Int /\ Len(F) \in Int /\ MqAt(o, th, Q, F)
  /\ o.entry = Len(Q) /\ (o.free # Nil <=> Len(F) > 0) /\ Len(F) >= 0

MqThen == \E R, E : MqAt(o', th', R, E) /\ MqQueues(s', th', Len(R), Len(E))

\* The counts of the queue are lengths of its lists.
LEMMA AtSizes ==
  ASSUME NEW Q, NEW F, MqAt(o, th, Q, F)
  PROVE  /\ Len(Q) \in Int /\ Len(F) \in Int /\ Len(F) >= 0
         /\ o.entry = Len(Q) /\ (o.free # Nil <=> Len(F) > 0)
<1>1. Q \in Seq(Blocks) /\ F \in Seq(Blocks) /\ Linked(o.next, o.free, F)
  BY AtFacts
<1>2. o.entry = Len(Q)
  BY DEF MqAt
<1> QED BY <1>1, <1>2, FirstLinked

\* What other threads do, and calls that do not copy, do not matter.
LEMMA SameAt ==
  ASSUME NEW x, NEW y, NEW Q, NEW F, MqAt(x, y, Q, F), NEW y2,
         \A u \in Threads : y[u].pc = "copy" \/ y2[u].pc = "copy" => y2[u] = y[u]
  PROVE  MqAt(x, y2, Q, F)
<1>1. Copies(x, y, Members(Q) \cup Members(F))
  BY DEF MqAt
<1>2. PICK L : L = Members(Q) \cup Members(F)
  OBVIOUS
<1>3. Copies(x, y2, L)
  BY <1>1, <1>2, SameCopies
<1> QED BY <1>2, <1>3 DEF MqAt

\* A thread that copies runs, is in no list and awake for nothing.
LEMMA CopyOp ==
  ASSUME ThOk(s, th), NEW t \in Threads, th[t].pc = "copy"
  PROVE  \A k : t \notin Awake(s, th, k)
  BY DEF Awake, ASleep

\* A thread that looks does not copy.
LEMMA LooksNoCopy ==
  ASSUME NEW t \in Threads, NEW op, NEW arg, Looks(t, op, arg)
  PROVE  th[t].pc # "copy"
  BY DEF Looks, InUser, Woken

\* A call that returns leaves its thread in none.
LEMMA ReturnedUser ==
  ASSUME ThOk(s, th), NEW t \in Threads, th[t].pc # "copy", NEW z, Return(t, z)
  PROVE  \A u \in Threads : th[u].pc = "copy" \/ th'[u].pc = "copy" => th'[u] = th[u]
<1>1. th = [u \in Threads |-> th[u]]
  BY DEF ThOk
<1>2. th'[t].pc = "user" /\ \A u \in Threads \ {t} : th'[u] = th[u]
  BY <1>1 DEF Return, User
<1> QED BY <1>2

\* Whoever takes a free block leaves the waiters enough.
LEMMA TakesQueues ==
  ASSUME NEW Q, NEW F, MqFacts(Q, F), NEW t \in Threads, Runs(t), th[t].pc # "copy",
         t \notin Awake(s, th, "mq_recv"),
         NEW op \in {"mq_send", "mq_urgent"}, NEW msg \in Msgs, TakesBlock(t, op, msg)
  PROVE  MqThen
<1>1. After(s, t) /\ th'[t] = [pc |-> "copy", op |-> op, arg |-> msg]
  <2>1. Sound(s) /\ ThOk(s, th) /\ s' = s /\ s.stat[t] # "suspend" /\ op \in CopyOps
    BY DEF MqFacts, TakesBlock, Runs, CopyOps
  <2>2. th' = [th EXCEPT ![t] = [pc |-> "copy", op |-> op, arg |-> msg]]
    BY DEF TakesBlock
  <2> QED BY <2>1, <2>2, CopyAfter
<1>2. \A u \in Threads \ {t} : th'[u] = th[u]
  BY <1>1 DEF After
<1>3. msg \in Contents
  BY DEF Contents
<1>4. /\ o.free # Nil /\ MqAt(o, th, Q, F)
      /\ o' = [o EXCEPT !.free = o.next[@], !.next[o.free] = Nil, !.mine[t] = o.free]
  BY DEF TakesBlock, MqFacts
<1>5. MqAt(o', th', Q, Tail(F)) /\ Len(Tail(F)) = Len(F) - 1
  BY <1>1, <1>2, <1>3, <1>4, TakesFree
<1>6. Queued(s', th', "mq_send", send) /\ Enough(s', th', "mq_send", send, Len(F) - 1)
  BY <1>1, TakenQueue DEF MqFacts
<1>7. Queued(s', th', "mq_recv", recv) /\ Enough(s', th', "mq_recv", recv, Len(Q))
  BY <1>1, TakenQueue DEF MqFacts
<1>8. PICK E : E = Tail(F)
  OBVIOUS
<1>9. MqAt(o', th', Q, E) /\ MqQueues(s', th', Len(Q), Len(E))
  BY <1>1, <1>5, <1>6, <1>7, <1>8 DEF MqQueues, After
<1> QED BY <1>9 DEF MqThen

\* rt_mq_send: the sender takes a block, or waits, or gives up.
LEMMA MqSendQueues ==
  ASSUME NEW Q, NEW F, MqFacts(Q, F), NEW t \in Threads, NEW msg \in Msgs, rt_mq_send(t, msg)
  PROVE  MqThen
<1>1. Runs(t) /\ t \notin Awake(s, th, "mq_recv") /\ th[t].pc # "copy"
  BY LooksOp, LooksNoCopy DEF rt_mq_send, MqFacts
<1>2. CASE TakesBlock(t, "mq_send", msg)
  BY <1>1, <1>2, TakesQueues
<1>3. CASE o.free = Nil /\ o' = o
  <2>1. Len(F) = 0
    BY <1>3 DEF MqFacts
  <2>2. Enough(s', th', "mq_send", send, Len(F))
    BY <2>1, EnoughOfNothing
  <2>3. CASE Block(t, send, Flag, "mq_send", msg)
    <3>1. Blocked(t, send, "mq_send", msg)
      BY <1>1, <2>3, BlockBlocks DEF MqFacts
    <3>2. Queued(s', th', "mq_send", send)
      BY <1>1, <3>1, BlockedQueue DEF MqFacts
    <3>3. Queued(s', th', "mq_recv", recv) /\ Enough(s', th', "mq_recv", recv, Len(Q))
      BY <1>1, <3>1, BlockedOther DEF MqFacts
    <3>4. \A u \in Threads : th[u].pc = "copy" \/ th'[u].pc = "copy" => th'[u] = th[u]
      BY <1>1, <3>1 DEF Blocked
    <3>5. MqAt(o', th', Q, F)
      BY <1>3, <3>4, SameAt DEF MqFacts
    <3> QED BY <2>2, <3>1, <3>2, <3>3, <3>5 DEF MqQueues, Blocked, MqThen
  <2>4. CASE Return(t, s)
    <3>1. After(s, t)
      BY <1>1, <2>4, ReturnAfter DEF Runs, MqFacts
    <3>2. Queued(s', th', "mq_send", send)
      BY <1>1, <3>1, TakenQueue DEF MqFacts
    <3>3. Queued(s', th', "mq_recv", recv) /\ Enough(s', th', "mq_recv", recv, Len(Q))
      BY <1>1, <3>1, TakenQueue DEF MqFacts
    <3>4. \A u \in Threads : th[u].pc = "copy" \/ th'[u].pc = "copy" => th'[u] = th[u]
      BY <1>1, <2>4, ReturnedUser DEF MqFacts
    <3>5. MqAt(o', th', Q, F)
      BY <1>3, <3>4, SameAt DEF MqFacts
    <3> QED BY <2>2, <3>1, <3>2, <3>3, <3>5 DEF MqQueues, After, MqThen
  <2> QED BY <1>3, <2>3, <2>4 DEF rt_mq_send, TakesBlock
<1> QED BY <1>2, <1>3 DEF rt_mq_send

\* rt_mq_recv: the receiver takes a message, or waits, or gives up.
LEMMA MqRecvQueues ==
  ASSUME NEW Q, NEW F, MqFacts(Q, F), NEW t \in Threads, rt_mq_recv(t)
  PROVE  MqThen
<1>1. Runs(t) /\ t \notin Awake(s, th, "mq_send") /\ th[t].pc # "copy"
  BY LooksOp, LooksNoCopy DEF rt_mq_recv, MqFacts
<1>2. CASE /\ o.entry > 0 /\ s' = s
           /\ o' = [o EXCEPT !.head = o.next[@], !.tail = IF @ = o.head THEN Nil ELSE @,
                          !.entry = @ - 1, !.mine[t] = o.head, !.FIFO = Tail(@)]
           /\ th' = [th EXCEPT ![t] = [pc |-> "copy", op |-> "mq_recv", arg |-> Head(o.FIFO)]]
  <2>1. After(s, t) /\ th'[t] = [pc |-> "copy", op |-> "mq_recv", arg |-> Head(o.FIFO)]
    <3>1. Sound(s) /\ ThOk(s, th) /\ s' = s /\ s.stat[t] # "suspend" /\ "mq_recv" \in CopyOps
      BY <1>1, <1>2 DEF MqFacts, Runs, CopyOps
    <3> QED BY <1>2, <3>1, CopyAfter
  <2>2. \A u \in Threads \ {t} : th'[u] = th[u]
    BY <2>1 DEF After
  <2>3. MqAt(o', th', Tail(Q), F) /\ Len(Tail(Q)) = Len(Q) - 1
    BY <1>1, <1>2, <2>1, <2>2, TakesQueued DEF MqFacts
  <2>4. Queued(s', th', "mq_send", send) /\ Enough(s', th', "mq_send", send, Len(F))
    BY <1>1, <2>1, TakenQueue DEF MqFacts
  <2>5. Queued(s', th', "mq_recv", recv) /\ Enough(s', th', "mq_recv", recv, Len(Q) - 1)
    BY <1>1, <2>1, TakenQueue DEF MqFacts
  <2>6. PICK R : R = Tail(Q)
    OBVIOUS
  <2>7. MqAt(o', th', R, F) /\ MqQueues(s', th', Len(R), Len(F))
    BY <2>1, <2>3, <2>4, <2>5, <2>6 DEF MqQueues, After
  <2> QED BY <2>7 DEF MqThen
<1>3. CASE o.entry = 0 /\ o' = o
  <2>1. Len(Q) = 0
    BY <1>3 DEF MqFacts
  <2>2. Enough(s', th', "mq_recv", recv, Len(Q))
    BY <2>1, EnoughOfNothing
  <2>3. CASE Block(t, recv, Flag, "mq_recv", "none")
    <3>1. Blocked(t, recv, "mq_recv", "none")
      BY <1>1, <2>3, BlockBlocks DEF MqFacts
    <3>2. Queued(s', th', "mq_recv", recv)
      BY <1>1, <3>1, BlockedQueue DEF MqFacts
    <3>3. Queued(s', th', "mq_send", send) /\ Enough(s', th', "mq_send", send, Len(F))
      BY <1>1, <3>1, BlockedOther DEF MqFacts
    <3>4. \A u \in Threads : th[u].pc = "copy" \/ th'[u].pc = "copy" => th'[u] = th[u]
      BY <1>1, <3>1 DEF Blocked
    <3>5. MqAt(o', th', Q, F)
      BY <1>3, <3>4, SameAt DEF MqFacts
    <3> QED BY <2>2, <3>1, <3>2, <3>3, <3>5 DEF MqQueues, Blocked, MqThen
  <2>4. CASE Return(t, s)
    <3>1. After(s, t)
      BY <1>1, <2>4, ReturnAfter DEF Runs, MqFacts
    <3>2. Queued(s', th', "mq_recv", recv)
      BY <1>1, <3>1, TakenQueue DEF MqFacts
    <3>3. Queued(s', th', "mq_send", send) /\ Enough(s', th', "mq_send", send, Len(F))
      BY <1>1, <3>1, TakenQueue DEF MqFacts
    <3>4. \A u \in Threads : th[u].pc = "copy" \/ th'[u].pc = "copy" => th'[u] = th[u]
      BY <1>1, <2>4, ReturnedUser DEF MqFacts
    <3>5. MqAt(o', th', Q, F)
      BY <1>3, <3>4, SameAt DEF MqFacts
    <3> QED BY <2>2, <3>1, <3>2, <3>3, <3>5 DEF MqQueues, After, MqThen
  <2> QED BY <1>3, <2>3, <2>4 DEF rt_mq_recv
<1> QED BY <1>2, <1>3 DEF rt_mq_recv

\* Whoever links a message in gives it to the first receiver.
LEMMA LinksQueues ==
  ASSUME NEW Q, NEW F, MqFacts(Q, F), NEW t \in Threads, Runs(t), th[t].pc = "copy",
         Return(t, Wake(recv)),
         NEW R, MqAt(o', th', R, F), Len(R) = Len(Q) + 1
  PROVE  MqThen
<1>1. t \notin Awake(s, th, "mq_recv") /\ t \notin Awake(s, th, "mq_send")
  BY CopyOp DEF MqFacts
<1>2. PICK z : z = Wake(recv)
  OBVIOUS
<1>3. Woke(z, "mq_recv", recv) /\ After(z, t)
  BY <1>2, WakeReturns DEF MqFacts
<1>4. Queued(s', th', "mq_recv", recv) /\ Enough(s', th', "mq_recv", recv, Len(Q) + 1)
  BY <1>1, <1>3, GivenQueue DEF MqFacts
<1>5. Queued(s', th', "mq_send", send) /\ Enough(s', th', "mq_send", send, Len(F))
  BY <1>1, <1>3, GivenOther DEF MqFacts
<1>6. MqQueues(s', th', Len(R), Len(F))
  BY <1>3, <1>4, <1>5 DEF MqQueues, After
<1> QED BY <1>6 DEF MqThen

\* What Return does to the threads.
LEMMA ReturnOthers ==
  ASSUME ThOk(s, th), NEW t \in Threads, NEW z, Return(t, z)
  PROVE  th'[t].pc # "copy" /\ \A u \in Threads \ {t} : th'[u] = th[u]
<1>1. th = [u \in Threads |-> th[u]]
  BY DEF ThOk
<1> QED BY <1>1 DEF Return, User

\* rt_mq_send, second part.
LEMMA LinkQueues ==
  ASSUME NEW Q, NEW F, MqFacts(Q, F), NEW t \in Threads, mq_link(t)
  PROVE  MqThen
<1>1. Runs(t) /\ th[t].pc = "copy" /\ th[t].op = "mq_send" /\ Return(t, Wake(recv))
  BY DEF mq_link
<1>2. th'[t].pc # "copy" /\ \A u \in Threads \ {t} : th'[u] = th[u]
  BY <1>1, ReturnOthers DEF MqFacts
<1>3. o' = [o EXCEPT !.next = IF o.tail # Nil THEN [o.next EXCEPT ![o.tail] = o.mine[t]]
                                 ELSE o.next,
                        !.data[o.mine[t]] = th[t].arg, !.tail = o.mine[t],
                        !.head = IF @ = Nil THEN o.mine[t] ELSE @, !.entry = @ + 1,
                        !.mine[t] = Nil, !.FIFO = Append(@, th[t].arg)]
  BY DEF mq_link
<1>4. PICK R : MqAt(o', th', R, F) /\ Len(R) = Len(Q) + 1
  BY <1>1, <1>2, <1>3, GivesLast DEF MqFacts
<1> QED BY <1>1, <1>4, LinksQueues

\* rt_mq_urgent, second part.
LEMMA LinkFirstQueues ==
  ASSUME NEW Q, NEW F, MqFacts(Q, F), NEW t \in Threads, mq_link_first(t)
  PROVE  MqThen
<1>1. Runs(t) /\ th[t].pc = "copy" /\ Return(t, Wake(recv))
  BY DEF mq_link_first
<1>2. th'[t].pc # "copy" /\ \A u \in Threads \ {t} : th'[u] = th[u]
  BY <1>1, ReturnOthers DEF MqFacts
<1>3. o' = [o EXCEPT !.next[o.mine[t]] = o.head, !.data[o.mine[t]] = th[t].arg,
                        !.head = o.mine[t], !.tail = IF @ = Nil THEN o.mine[t] ELSE @,
                        !.entry = @ + 1, !.mine[t] = Nil, !.FIFO = <<th[t].arg>> \o @]
  BY DEF mq_link_first
<1>4. PICK R : MqAt(o', th', R, F) /\ Len(R) = Len(Q) + 1
  BY <1>1, <1>2, <1>3, GivesFirst DEF MqFacts
<1> QED BY <1>1, <1>4, LinksQueues

\* rt_mq_recv, second part: the first sender gets the block.
LEMMA UnlinkQueues ==
  ASSUME NEW Q, NEW F, MqFacts(Q, F), NEW t \in Threads, mq_unlink(t)
  PROVE  MqThen
<1>1. Runs(t) /\ th[t].pc = "copy" /\ Return(t, Wake(send))
  BY DEF mq_unlink
<1>2. th'[t].pc # "copy" /\ \A u \in Threads \ {t} : th'[u] = th[u]
  BY <1>1, ReturnOthers DEF MqFacts
<1>3. o' = [o EXCEPT !.next[o.mine[t]] = o.free, !.free = o.mine[t], !.mine[t] = Nil,
                        !.data[o.mine[t]] = Nil]
  BY DEF mq_unlink
<1>4. PICK E : MqAt(o', th', Q, E) /\ Len(E) = Len(F) + 1
  BY <1>1, <1>2, <1>3, GivesFree DEF MqFacts
<1>5. t \notin Awake(s, th, "mq_recv") /\ t \notin Awake(s, th, "mq_send")
  BY <1>1, CopyOp DEF MqFacts
<1>6. PICK z : z = Wake(send)
  OBVIOUS
<1>7. Woke(z, "mq_send", send) /\ After(z, t)
  BY <1>1, <1>6, WakeReturns DEF MqFacts
<1>8. Queued(s', th', "mq_send", send) /\ Enough(s', th', "mq_send", send, Len(F) + 1)
  BY <1>1, <1>5, <1>7, GivenQueue DEF MqFacts
<1>9. Queued(s', th', "mq_recv", recv) /\ Enough(s', th', "mq_recv", recv, Len(Q))
  BY <1>1, <1>5, <1>7, GivenOther DEF MqFacts
<1>10. MqQueues(s', th', Len(Q), Len(E))
  BY <1>4, <1>7, <1>8, <1>9 DEF MqQueues, After
<1> QED BY <1>4, <1>10 DEF MqThen

\* A call that fails leaves the queue alone.
LEMMA MqFailQueues ==
  ASSUME NEW Q, NEW F, MqFacts(Q, F), NEW t \in Threads, NEW op, Fails(t, op)
  PROVE  MqThen
<1>1. /\ Runs(t) /\ After(s, t) /\ o' = o
      /\ t \notin Awake(s, th, "mq_recv") /\ t \notin Awake(s, th, "mq_send")
  BY FailsAfter DEF ipcVars, MqFacts
<1>2. Queued(s', th', "mq_send", send) /\ Enough(s', th', "mq_send", send, Len(F))
  BY <1>1, TakenQueue DEF MqFacts
<1>3. Queued(s', th', "mq_recv", recv) /\ Enough(s', th', "mq_recv", recv, Len(Q))
  BY <1>1, TakenQueue DEF MqFacts
<1>4. th[t].pc # "copy" /\ Return(t, s)
  BY DEF Fails, Woken
<1>5. \A u \in Threads : th[u].pc = "copy" \/ th'[u].pc = "copy" => th'[u] = th[u]
  BY <1>4, ReturnedUser DEF MqFacts
<1>6. MqAt(o', th', Q, F)
  BY <1>1, <1>5, SameAt DEF MqFacts
<1> QED BY <1>1, <1>2, <1>3, <1>6 DEF MqQueues, After, MqThen

\* A reset leaves nobody waiting.
LEMMA MqResetQueues ==
  ASSUME NEW Q, NEW F, MqFacts(Q, F), NEW t \in Threads, rt_mq_control(t)
  PROVE  MqThen
<1>1. Reset(recv) /\ Reset(send) /\ th' = th
  BY ResetTwo DEF rt_mq_control, MqFacts
<1>2. Chain(o.head) = Q
  BY AtFacts, ChainIs DEF MqFacts
<1>3. o' = [ReleaseAll(Q) EXCEPT !.head = Nil, !.tail = Nil, !.entry = 0, !.FIFO = <<>>]
  BY <1>2 DEF rt_mq_control, ReleaseAll
<1>4. PICK G : MqAt(o', th', <<>>, G)
  BY <1>1, <1>3, Emptied DEF MqFacts
<1>5. PICK R : R = <<>> /\ MqAt(o', th', R, G)
  BY <1>4
<1>6. /\ Queued(s', th', "mq_recv", recv) /\ Enough(s', th', "mq_recv", recv, Len(R))
      /\ Queued(s', th', "mq_send", send) /\ Enough(s', th', "mq_send", send, Len(G))
  BY <1>1, ResetQueue DEF MqFacts
<1>7. MqQueues(s', th', Len(R), Len(G))
  BY <1>1, <1>6 DEF MqQueues, Reset
<1> QED BY <1>5, <1>7 DEF MqThen

\* Every service of the queue.
LEMMA MqQueuesStep ==
  ASSUME NEW Q, NEW F, MqAt(o, th, Q, F), MqQueues(s, th, Len(Q), Len(F)),
         NEW t \in Threads, MqStep(t)
  PROVE  MqThen
<1>1. MqFacts(Q, F)
  BY Lists2, AtSizes DEF MqQueues, MqFacts, recv, send
<1>2. ASSUME NEW msg \in Msgs, rt_mq_urgent(t, msg) PROVE MqThen
  <2>1. Runs(t) /\ th[t].pc # "copy" /\ t \notin Awake(s, th, "mq_recv")
    BY <1>1, <1>2, UserOp DEF MqFacts, rt_mq_urgent
  <2> QED BY <1>1, <1>2, <2>1, TakesQueues DEF rt_mq_urgent
<1> QED BY <1>1, <1>2, MqSendQueues, MqRecvQueues, LinkQueues, LinkFirstQueues, UnlinkQueues,
           MqFailQueues, MqResetQueues DEF MqStep

\* A quiet step leaves the queue alone.
LEMMA QuietMq ==
  ASSUME NEW Q, NEW F, MqAt(o, th, Q, F), MqQueues(s, th, Len(Q), Len(F)), Quiet, o' = o
  PROVE  MqThen
<1>1. MqFacts(Q, F)
  BY Lists2, AtSizes DEF MqQueues, MqFacts, recv, send
<1>2. MqAt(o', th', Q, F)
  BY SameAt DEF Quiet, QuietFor
<1>3. /\ Queued(s', th', "mq_recv", recv) /\ Enough(s', th', "mq_recv", recv, Len(Q))
      /\ Queued(s', th', "mq_send", send) /\ Enough(s', th', "mq_send", send, Len(F))
  BY <1>1, QuietQueue DEF MqFacts
<1> QED BY <1>2, <1>3 DEF MqQueues, Quiet, MqThen

\* A queue whose blocks are linked is what it should be.
LEMMA MqOrder ==
  ASSUME NEW Q, NEW F, MqAt(o, th, Q, F)
  PROVE  ListHoldsFifo /\ Len(Chain(o.free)) = Len(F)
<1>1. Linked(o.next, o.head, Q) /\ Linked(o.next, o.free, F)
  BY AtFacts
<1>2. Chain(o.head) = Q /\ Chain(o.free) = F
  BY <1>1, ChainIs
<1>3. PICK n \in Nat : n = Len(Q) /\ (n = 0 <=> Q = <<>>)
  <2>1. Q \in Seq(Blocks)
    BY AtFacts
  <2> QED BY <2>1
<1>4. /\ Q \in Seq(Blocks) /\ o.entry = n /\ o.FIFO \in Seq(Contents) /\ Len(o.FIFO) = n
      /\ \A i \in 1 .. n : o.FIFO[i] = o.data[Q[i]]
      /\ o.tail = IF Q = <<>> THEN Nil ELSE Q[n]
  BY <1>3, AtFacts DEF MqAt, Holds
<1>5. o.FIFO = [i \in DOMAIN Q |-> o.data[Q[i]]]
  <2>1. DOMAIN Q = 1 .. n
    BY <1>3, <1>4
  <2>2. o.FIFO = [i \in 1 .. n |-> o.FIFO[i]]
    BY <1>3, <1>4
  <2> QED BY <1>4, <2>1, <2>2
<1>6. o.tail # Nil => o.next[o.tail] = Nil
  <2>1. \A i \in 1 .. n : o.next[Q[i]] = IF i = n THEN Nil ELSE Q[i + 1]
    BY <1>1, <1>3 DEF Linked
  <2>2. n # 0 => n \in 1 .. n
    BY <1>3
  <2> QED BY <1>3, <1>4, <2>1, <2>2
<1>7. ListHoldsFifo
  <2>1. o.tail = IF Q = <<>> THEN Nil ELSE Last(Q)
    BY <1>3, <1>4 DEF Last
  <2> QED BY <1>2, <1>3, <1>4, <1>5, <1>6, <2>1 DEF ListHoldsFifo
<1> QED BY <1>2, <1>7

\* The blocks that threads copy, each on its own.
InCopy == {{o.mine[t]} : t \in {u \in Threads : o.mine[u] # Nil}}

\* Two and the rest.
LEMMA Behind2 ==
  ASSUME NEW S, NEW q \in Seq(S), NEW r \in Seq(S), Len(q) = 2, NEW n \in Nat, n = Len(r)
  PROVE  /\ q \o r \in Seq(S) /\ Len(q \o r) = n + 2 /\ (q \o r)[1] = q[1] /\ (q \o r)[2] = q[2]
         /\ \A i \in 1 .. n : (q \o r)[i + 2] = r[i]
<1>1. /\ q \o r \in Seq(S) /\ Len(q \o r) = n + 2
      /\ \A i \in 1 .. n + 2 : (q \o r)[i] = IF i <= 2 THEN q[i] ELSE r[i - 2]
  <2>1. PICK c : c = q \o r
    OBVIOUS
  <2>2. /\ c \in Seq(S) /\ Len(c) = Len(q) + Len(r)
        /\ \A i \in 1 .. Len(q) + Len(r) : c[i] = IF i <= Len(q) THEN q[i] ELSE r[i - Len(q)]
    BY <2>1, ConcatProperties, Zenon
  <2>3. Len(q) + Len(r) = n + 2
    OBVIOUS
  <2> QED BY <2>1, <2>2, <2>3
<1>2. ASSUME NEW i \in 1 .. n PROVE (q \o r)[i + 2] = r[i]
  <2>1. i + 2 \in 1 .. n + 2 /\ ~(i + 2 <= 2) /\ (i + 2) - 2 = i
    OBVIOUS
  <2> QED BY <1>1, <2>1
<1>3. 1 \in 1 .. n + 2 /\ 2 \in 1 .. n + 2
  OBVIOUS
<1> QED BY <1>1, <1>2, <1>3

\* And every block is in one place.
LEMMA MqApart ==
  ASSUME NEW Q, NEW F, MqAt(o, th, Q, F), kind = "mq"
  PROVE  BlocksKept
<1>100. /\ Members(Q) \subseteq Blocks /\ Members(F) \subseteq Blocks
        /\ Members(Q) \cap Members(F) = {}
        /\ Linked(o.next, o.head, Q) /\ Linked(o.next, o.free, F)
        /\ o.mine \in [Threads -> Blocks \cup {Nil}]
        /\ Copies(o, th, Members(Q) \cup Members(F))
  BY AtFacts
<1>1. Chain(o.head) = Q /\ Chain(o.free) = F
  BY <1>100, ChainIs
<1>2. PICK S : S = InCopy
  OBVIOUS
<1>3. \A e \in S : \E b \in Blocks : e = {b} /\ b \notin Members(Q) \cup Members(F)
  BY <1>2, <1>100 DEF InCopy, Copies
<1>4. \A b \in Blocks \ (Members(Q) \cup Members(F)) : {b} \in S
  <2> SUFFICES ASSUME NEW b \in Blocks, b \notin Members(Q) \cup Members(F) PROVE {b} \in S
    OBVIOUS
  <2>1. PICK t \in Threads : o.mine[t] = b
    BY <1>100 DEF Copies
  <2>2. b # Nil
    BY NilNoBlock
  <2> QED BY <1>2, <2>1, <2>2 DEF InCopy
<1>5. IsFiniteSet(S)
  <2>1. PICK T : T = {u \in Threads : o.mine[u] # Nil} /\ IsFiniteSet(T)
    BY ThreadAssumption, FS_Subset
  <2>2. PICK f : f = [t \in T |-> {o.mine[t]}]
    OBVIOUS
  <2>3. f \in Surjection(T, S)
    <3>1. f \in [T -> S]
      BY <1>2, <2>1, <2>2 DEF InCopy
    <3>2. \A e \in S : \E t \in T : f[t] = e
      BY <1>2, <2>1, <2>2 DEF InCopy
    <3> QED BY <3>1, <3>2 DEF Surjection
  <2> QED BY <2>1, <2>3, FS_Surjection
<1>6. PICK R : R = SetToSeq(S) /\ R \in Seq(S) /\ IsInjective(R) /\ Members(R) = S
  BY <1>5, SetListed
<1>7. PICK n \in Nat : n = Len(R)
  BY <1>6
<1>8. PICK P : P = <<Members(Q), Members(F)>> \o R
  OBVIOUS
<1>9. PICK U : U = {Members(Q), Members(F)} \cup S
  OBVIOUS
<1>10. /\ P \in Seq(U) /\ Len(P) = n + 2 /\ P[1] = Members(Q) /\ P[2] = Members(F)
       /\ \A i \in 1 .. n : P[i + 2] = R[i]
  <2>1. PICK H : H = <<Members(Q), Members(F)>>
    OBVIOUS
  <2>2. H \in Seq(U) /\ Len(H) = 2 /\ H[1] = Members(Q) /\ H[2] = Members(F)
    BY <1>9, <2>1
  <2>3. R \in Seq(U)
    BY <1>6, <1>9
  <2>4. P = H \o R
    BY <1>8, <2>1
  <2> QED BY <1>7, <2>2, <2>3, <2>4, Behind2
<1>11. \A i \in 1 .. n + 2 : i = 1 \/ i = 2 \/ \E k \in 1 .. n :
         i = k + 2 /\ P[i] = R[k] /\ R[k] \in S
  <2> SUFFICES ASSUME NEW i \in 1 .. n + 2, i # 1, i # 2
               PROVE  \E k \in 1 .. n : i = k + 2 /\ P[i] = R[k] /\ R[k] \in S
    OBVIOUS
  <2>1. i - 2 \in 1 .. n /\ i = (i - 2) + 2
    BY <1>7
  <2>2. P[i] = R[i - 2]
    BY <1>10, <2>1
  <2>3. R[i - 2] \in S
    BY <1>6, <1>7, <2>1
  <2> QED BY <2>1, <2>2, <2>3
<1>12. UNION Members(P) = Blocks
  <2>1. Members(P) = U
    <3>1. \A e \in Members(P) : e \in U
      BY <1>10, Indexed
    <3>2. Members(Q) \in Members(P) /\ Members(F) \in Members(P)
      <4>1. 1 \in 1 .. Len(P) /\ 2 \in 1 .. Len(P)
        BY <1>7, <1>10
      <4> QED BY <1>10, <4>1, Indexed
    <3>3. ASSUME NEW e \in S PROVE e \in Members(P)
      <4>1. PICK i \in 1 .. n : R[i] = e
        BY <1>6, <1>7, Indexed
      <4>2. i + 2 \in 1 .. Len(P) /\ P[i + 2] = e
        BY <1>7, <1>10, <4>1
      <4> QED BY <1>10, <4>2, Indexed
    <3> QED BY <1>9, <3>1, <3>2, <3>3
  <2>2. \A b \in Blocks : b \in UNION U
    BY <1>4, <1>9
  <2>3. \A b \in UNION U : b \in Blocks
    BY <1>3, <1>9, <1>100
  <2> QED BY <2>1, <2>2, <2>3
<1>13. ASSUME NEW i \in DOMAIN P, NEW j \in DOMAIN P, i # j PROVE P[i] \cap P[j] = {}
  <2>1. i \in 1 .. n + 2 /\ j \in 1 .. n + 2
    BY <1>10
  <2>2. \A k, m \in 1 .. n : k # m => R[k] # R[m] /\ R[k] \in S /\ R[m] \in S
    BY <1>6, <1>7, Indexed
  <2>3. \A a, e \in S : a # e => a \cap e = {}
    BY <1>3
  <2>4. \A a \in S : a \cap Members(Q) = {} /\ a \cap Members(F) = {}
    BY <1>3
  <2>5. CASE i = 1 \/ i = 2
    BY <1>10, <1>11, <1>13, <1>100, <2>1, <2>4, <2>5
  <2>6. CASE j = 1 \/ j = 2
    BY <1>10, <1>11, <1>13, <1>100, <2>1, <2>4, <2>6
  <2>7. CASE ~(i = 1 \/ i = 2) /\ ~(j = 1 \/ j = 2)
    <3>1. PICK k \in 1 .. n : i = k + 2 /\ P[i] = R[k]
      BY <1>11, <2>1, <2>7
    <3>2. PICK m \in 1 .. n : j = m + 2 /\ P[j] = R[m]
      BY <1>11, <2>1, <2>7
    <3>3. k # m
      BY <1>13, <3>1, <3>2
    <3> QED BY <2>2, <2>3, <3>1, <3>2, <3>3
  <2> QED BY <2>5, <2>6, <2>7
<1>14. \A t, u \in Threads : t # u /\ o.mine[t] = o.mine[u] => o.mine[t] = Nil
  BY <1>100 DEF Copies
<1>15. \A t \in Threads : o.mine[t] # Nil /\ th[t].op = "mq_recv" => o.data[o.mine[t]] = th[t].arg
  BY <1>100 DEF Copies
<1>16. P = <<Members(Chain(o.head)), Members(Chain(o.free))>>
            \o SetToSeq({{o.mine[t]} : t \in {t \in Threads : o.mine[t] # Nil}})
  BY <1>1, <1>2, <1>6, <1>8 DEF InCopy
<1> QED BY <1>12, <1>13, <1>14, <1>15, <1>16 DEF BlocksKept

\* Where b is in q.
PlaceOf(q, b) == LET I == {i \in 1 .. Len(q) : q[i] = b} IN IF I # {} THEN Min(I) ELSE 0

\* In a list without duplicates it is the only place.
LEMMA PlaceIs ==
  ASSUME NEW S, NEW q \in Seq(S), IsInjective(q), NEW i \in 1 .. Len(q)
  PROVE  PlaceOf(q, q[i]) = i
<1>1. PICK I : I = {j \in 1 .. Len(q) : q[j] = q[i]}
  OBVIOUS
<1>2. I = {i}
  BY <1>1, Indexed
<1>3. Min({i}) = i
  BY DEF Min
<1> QED BY <1>1, <1>2, <1>3 DEF PlaceOf

\* A new queue.
LEMMA MqStart ==
  ASSUME o = MqObject, Blocks # {}, \A t \in Threads : th[t].pc # "copy"
  PROVE  \E F : MqAt(o, th, <<>>, F)
<1>1. PICK F : F = SetToSeq(Blocks) /\ F \in Seq(Blocks) /\ IsInjective(F) /\ Members(F) = Blocks
  BY SetListed, IpcAssumption
<1>2. PICK n \in Nat : n = Len(F)
  BY <1>1
<1>3. F # <<>>
  BY <1>1 DEF Members
<1>4. n # 0
  BY <1>1, <1>2, <1>3
<1>5. o = [head |-> Nil, tail |-> Nil, entry |-> 0, free |-> F[1],
           next |-> [b \in Blocks |-> IF PlaceOf(F, b) < Len(F) THEN F[PlaceOf(F, b) + 1] ELSE Nil],
           data |-> [b \in Blocks |-> Nil], mine |-> [t \in Threads |-> Nil], FIFO |-> <<>>]
  BY <1>1, Zenon DEF MqObject, SelectInSeq, PlaceOf
<1>6. /\ MqFields(o) /\ o.head = Nil /\ o.tail = Nil /\ o.entry = 0 /\ o.free = F[1]
           /\ o.FIFO = <<>>
      /\ o.next = [b \in Blocks |-> IF PlaceOf(F, b) < n THEN F[PlaceOf(F, b) + 1] ELSE Nil]
      /\ o.data = [b \in Blocks |-> Nil] /\ o.mine = [t \in Threads |-> Nil]
  BY <1>2, <1>5 DEF MqFields
<1>7. ASSUME NEW i \in 1 .. n
      PROVE  F[i] \in Blocks /\ o.next[F[i]] = IF i = n THEN Nil ELSE F[i + 1]
  <2>1. F[i] \in Blocks /\ PlaceOf(F, F[i]) = i
    BY <1>1, <1>2, PlaceIs
  <2>2. o.next[F[i]] = IF i < n THEN F[i + 1] ELSE Nil
    BY <1>6, <2>1
  <2>3. i < n <=> i # n
    BY <1>2
  <2> QED BY <2>1, <2>2, <2>3
<1>8. Linked(o.next, o.free, F)
  BY <1>1, <1>2, <1>3, <1>6, <1>7 DEF Linked, FirstBlock
<1>9. o.next \in [Blocks -> Blocks \cup {Nil}]
  <2>1. \A b \in Blocks : \E i \in 1 .. n : b = F[i]
    BY <1>1, <1>2, Indexed
  <2>2. ASSUME NEW b \in Blocks PROVE o.next[b] \in Blocks \cup {Nil}
    <3>1. PICK i \in 1 .. n : b = F[i]
      BY <2>1
    <3>2. i # n => i + 1 \in 1 .. n
      BY <1>2
    <3> QED BY <1>7, <3>1, <3>2
  <2> QED BY <1>6, <2>2
<1>10. MqType(o)
  <2>1. o.data \in [Blocks -> Contents] /\ o.mine \in [Threads -> Blocks \cup {Nil}]
    BY <1>6 DEF Contents
  <2> QED BY <1>6, <1>9, <2>1 DEF MqType, MqFields
<1>11. PICK Q : Q = <<>>
  OBVIOUS
<1>12. Q \in Seq(Blocks) /\ Members(Q) = {} /\ Len(Q) = 0
  BY <1>11 DEF Members
<1>13. Linked(o.next, o.head, Q) /\ Holds(o.data, Q, o.FIFO)
  BY <1>6, <1>11 DEF Linked, FirstBlock, Holds, IsInjective
<1>14. Copies(o, th, Blocks)
  BY <1>6 DEF Copies
<1>15. Copies(o, th, Members(Q) \cup Members(F)) /\ Members(Q) \cap Members(F) = {}
  BY <1>1, <1>12, <1>14
<1>16. MqAt(o, th, Q, F)
  BY <1>6, <1>8, <1>10, <1>11, <1>12, <1>13, <1>15 DEF MqAt
<1> QED BY <1>11, <1>16

-----------------------------------------------------------------------------
(* The invariant of all objects, and the theorems. *)

IpcInv ==
  /\ kind = "sem" => SemInv
  /\ kind = "event" => EventWaits(s, th, o.set) /\ o = [set |-> o.set]
  /\ kind = "mb" => MbInv /\ MbQueues(s, th, o.entry)
  /\ kind = "mq" => \E Q, F : MqAt(o, th, Q, F) /\ MqQueues(s, th, Len(Q), Len(F))
  /\ kind = "mp" => MpInv /\ MpQueues(s, th, o.count)

\* The kind of object does not change.
LEMMA SameKind ==
  ASSUME kind' = kind, ThOk(s', th')
  PROVE  ThOk(s, th)'
  BY DEF ThOk

\* A quiet step leaves the mailbox alone.
LEMMA QuietMb ==
  ASSUME MbQueues(s, th, o.entry), MbInv, Quiet, o' = o
  PROVE  MbQueues(s', th', o'.entry) /\ MbInv'
<1>1. /\ Queued(s', th', "mb_recv", recv) /\ Enough(s', th', "mb_recv", recv, o.entry)
      /\ Queued(s', th', "mb_send", send) /\ Enough(s', th', "mb_send", send, MbSize - o.entry)
  BY QuietQueue, Lists2 DEF MbQueues
<1> QED BY <1>1 DEF MbQueues, Quiet, MbInv, MbType, RingHoldsFifo

\* And the pool.
LEMMA QuietMp ==
  ASSUME MpQueues(s, th, o.count), MpInv, Quiet, o' = o
  PROVE  MpQueues(s', th', o'.count) /\ MpInv'
<1>1. Queued(s', th', "mp_alloc", recv) /\ Enough(s', th', "mp_alloc", recv, o.count)
  BY QuietQueue, Lists2 DEF MpQueues
<1> QED BY <1>1 DEF MpQueues, Quiet, MpInv, MpType

\* Nobody waits, and nobody is awake for anything.
LEMMA StartsQuiet ==
  ASSUME ThreadInit
  PROVE  /\ Sound(s) /\ ThOk(s, th)
         /\ \A t \in Threads : th[t].pc # "copy" /\ \A l \in WaitLists : ~InWait(s, t, l)
         /\ \A op, l : l \in WaitLists => Queued(s, th, op, l) /\ \A n : Enough(s, th, op, l, n)
         /\ \A op : op # "none" => Awake(s, th, op) = {}
<1>1. Sound(s) /\ s.timer = {} /\ \A l \in WaitLists : s.wait[l] = <<>>
  BY InitSound
<1>2. \A t \in Threads : \A l \in WaitLists : ~InWait(s, t, l)
  BY <1>1, WaitingMeans
<1>3. \A t \in Threads : s.stat[t] # "suspend"
  BY <1>1, <1>2, ThreadsListed DEF Sound, Placed
<1>4. th = [t \in Threads |-> User]
  BY DEF ThreadInit
<1>5. \A t \in Threads : th[t] = [pc |-> "user", op |-> "none", arg |-> th[t].arg]
  BY <1>4 DEF User
<1>6. th = [t \in Threads |-> th[t]]
  BY <1>4
<1>7. ThOk(s, th)
  BY <1>3, <1>5, <1>6 DEF ThOk
<1>8. \A t \in Threads : th[t].pc = "user" /\ th[t].op = "none"
  BY <1>4 DEF User
<1>9. \A op : op # "none" => Awake(s, th, op) = {}
  BY <1>8 DEF Awake, ASleep
<1>10. ASSUME NEW op, NEW l \in WaitLists
       PROVE  Queued(s, th, op, l) /\ \A n : Enough(s, th, op, l, n)
  <2>1. s.wait[l] = <<>>
    BY <1>1
  <2>2. \A n : Enough(s, th, op, l, n)
    BY <2>1, Zenon DEF Enough
  <2>3. Queued(s, th, op, l)
    BY <1>2 DEF Queued
  <2> QED BY <2>2, <2>3
<1> QED BY <1>1, <1>2, <1>7, <1>8, <1>9, <1>10

\* It holds of a new object.
LEMMA IpcInvInit ==
  ASSUME IpcInit
  PROVE  IpcInv
<1>1. /\ Sound(s) /\ ThOk(s, th)
      /\ \A t \in Threads : th[t].pc # "copy" /\ \A l \in WaitLists : ~InWait(s, t, l)
      /\ \A op, l : l \in WaitLists => Queued(s, th, op, l) /\ \A n : Enough(s, th, op, l, n)
      /\ \A op : op # "none" => Awake(s, th, op) = {}
  BY StartsQuiet DEF IpcInit
<1>2. recv \in WaitLists /\ send \in WaitLists
  BY Lists2
<1>3. ASSUME kind = "sem" PROVE SemInv
  <2>1. o = SemObject
    BY <1>3 DEF IpcInit
  <2>2. SemType /\ o.value = o.TOTAL /\ \A t \in Threads : o.HELD[t] = 0
    BY <2>1, IpcAssumption DEF SemObject, SemType
  <2>3. Total(o.HELD) = 0
    BY <2>2, TotalZero
  <2>4. PICK A : A = Awake(s, th, "sem_take") /\ A = {}
    BY <1>1
  <2>5. Cardinality(A) = 0
    BY <2>4, FS_EmptySet
  <2>6. Makes(o.value, Total(o.HELD), Cardinality(A), o.TOTAL)
    BY <2>2, <2>3, <2>5 DEF Makes, SemType
  <2>7. s.wait[recv] = <<>>
    BY <1>1, <1>2, WaitingMeans
  <2>8. SemWaits(s, th, o.value, o.HELD, o.TOTAL)
    BY <1>1, <1>2, <2>4, <2>6, <2>7 DEF SemWaits
  <2> QED BY <2>2, <2>8 DEF SemInv
<1>4. ASSUME kind = "event" PROVE EventWaits(s, th, o.set) /\ o = [set |-> o.set]
  <2>1. o = [set |-> o.set]
    BY <1>4 DEF IpcInit, EventObject
  <2>2. Unserved(s, th, o.set)
    BY <1>1, <1>2 DEF Unserved
  <2> QED BY <1>1, <2>1, <2>2 DEF EventWaits
<1>5. ASSUME kind = "mb" PROVE MbInv /\ MbQueues(s, th, o.entry)
  <2>1. MbInv
    BY <1>5, EmptyKeeps DEF IpcInit
  <2> QED BY <1>1, <1>2, <2>1 DEF MbQueues
<1>6. ASSUME kind = "mq" PROVE \E Q, F : MqAt(o, th, Q, F) /\ MqQueues(s, th, Len(Q), Len(F))
  <2>1. o = MqObject /\ Blocks # {}
    BY <1>6, IpcAssumption DEF IpcInit
  <2>2. PICK F : MqAt(o, th, <<>>, F)
    BY <1>1, <2>1, MqStart
  <2>3. PICK Q : Q = <<>> /\ MqAt(o, th, Q, F)
    BY <2>2
  <2>4. MqQueues(s, th, Len(Q), Len(F))
    BY <1>1, <1>2 DEF MqQueues
  <2> QED BY <2>3, <2>4
<1>7. ASSUME kind = "mp" PROVE MpInv /\ MpQueues(s, th, o.count)
  <2>1. MpInv
    BY <1>7, PoolStart DEF IpcInit
  <2> QED BY <1>1, <1>2, <2>1 DEF MpQueues
<1> QED BY <1>3, <1>4, <1>5, <1>6, <1>7 DEF IpcInv

\* What a step of the threads or of an object gives the object of each kind.
IpcThen ==
  /\ kind = "sem" => SemThen
  /\ kind = "event" => EventWaits(s', th', o'.set) /\ o' = [set |-> o'.set]
  /\ kind = "mb" => MbInv' /\ MbQueues(s', th', o'.entry)
  /\ kind = "mq" => MqThen
  /\ kind = "mp" => MpInv' /\ MpQueues(s', th', o'.count)

\* It is kept when nothing happens to the object,
LEMMA QuietInv ==
  ASSUME IpcInv, Sound(s) /\ ThOk(s, th) => Quiet, o' = o
  PROVE  IpcThen
<1>2. kind = "sem" => SemThen
  BY QuietSem DEF IpcInv, SemInv, SemWaits
<1>3. kind = "event" => EventWaits(s', th', o'.set) /\ o' = [set |-> o'.set]
  BY QuietServes DEF IpcInv, EventWaits
<1>4. kind = "mb" => MbInv' /\ MbQueues(s', th', o'.entry)
  BY QuietMb DEF IpcInv, MbQueues
<1>5. kind = "mq" => MqThen
  BY QuietMq DEF IpcInv, MqQueues
<1>6. kind = "mp" => MpInv' /\ MpQueues(s', th', o'.count)
  BY QuietMp DEF IpcInv, MpQueues
<1> QED BY <1>2, <1>3, <1>4, <1>5, <1>6 DEF IpcThen

\* and by every service.
LEMMA IpcInvStep ==
  ASSUME IpcInv, IpcNext
  PROVE  IpcThen
<1>1. CASE IpcStep
  <2>1. PICK t \in Threads : \/ kind = "sem" /\ SemStep(t)
                             \/ kind = "event" /\ EventStep(t)
                             \/ kind = "mb" /\ MbStep(t)
                             \/ kind = "mq" /\ MqStep(t)
                             \/ kind = "mp" /\ MpStep(t)
    BY <1>1 DEF IpcStep
  <2>2. kind = "sem" => SemThen
    BY <2>1, SemServes DEF IpcInv
  <2>3. kind = "event" => EventWaits(s', th', o'.set) /\ o' = [set |-> o'.set]
    BY <2>1, EventServes DEF IpcInv
  <2>4. kind = "mb" => MbInv' /\ MbQueues(s', th', o'.entry)
    BY <2>1, MbQueuesStep DEF IpcInv
  <2>5. kind = "mq" => MqThen
    BY <2>1, MqQueuesStep DEF IpcInv
  <2>6. kind = "mp" => MpInv' /\ MpQueues(s', th', o'.count)
    BY <2>1, MpQueuesStep DEF IpcInv
  <2> QED BY <2>2, <2>3, <2>4, <2>5, <2>6 DEF IpcThen
<1>2. CASE ThreadStep /\ UNCHANGED ipcVars
  <2>1. o' = o /\ (Sound(s) /\ ThOk(s, th) => Quiet)
    BY <1>2, StepQuiet DEF ipcVars
  <2> QED BY <2>1, QuietInv
<1> QED BY <1>1, <1>2 DEF IpcNext

\* So what is said after the step is said of the next state.
LEMMA SameQueues ==
  ASSUME kind' = kind
  PROVE  /\ \A n : MbQueues(s', th', n) => ThOk(s, th)'
         /\ \A n, f : MqQueues(s', th', n, f) => ThOk(s, th)'
         /\ \A n : MpQueues(s', th', n) => ThOk(s, th)'
         /\ \A S : EventWaits(s', th', S) => ThOk(s, th)'
         /\ \A a, b, c : SemWaits(s', th', a, b, c) => ThOk(s, th)'
  BY SameKind DEF MbQueues, MqQueues, MpQueues, EventWaits, SemWaits

\* The invariant itself.
LEMMA ThenInv ==
  ASSUME IpcThen, kind' = kind
  PROVE  IpcInv'
<1>1. ASSUME kind = "sem" PROVE SemInv'
  <2>1. SemType' /\ SemWaits(s', th', o'.value, o'.HELD, o'.TOTAL)
    BY <1>1 DEF IpcThen, SemThen
  <2>2. ThOk(s, th)'
    BY <2>1, SameQueues
  <2> QED BY <2>1, <2>2 DEF SemInv, SemWaits
<1>2. ASSUME kind = "event" PROVE (EventWaits(s, th, o.set) /\ o = [set |-> o.set])'
  <2>1. EventWaits(s', th', o'.set) /\ o' = [set |-> o'.set]
    BY <1>2 DEF IpcThen
  <2>2. ThOk(s, th)'
    BY <2>1, SameQueues
  <2> QED BY <2>1, <2>2 DEF EventWaits
<1>3. ASSUME kind = "mb" PROVE (MbInv /\ MbQueues(s, th, o.entry))'
  <2>1. MbInv' /\ MbQueues(s', th', o'.entry)
    BY <1>3 DEF IpcThen
  <2>2. ThOk(s, th)'
    BY <2>1, SameQueues
  <2> QED BY <2>1, <2>2 DEF MbQueues
<1>4. ASSUME kind = "mq"
      PROVE (\E Q, F : MqAt(o, th, Q, F) /\ MqQueues(s, th, Len(Q), Len(F)))'
  <2>1. PICK Q, F : MqAt(o', th', Q, F) /\ MqQueues(s', th', Len(Q), Len(F))
    BY <1>4 DEF IpcThen, MqThen
  <2>2. ThOk(s, th)'
    BY <2>1, SameQueues
  <2>3. MqAt(o, th, Q, F)' /\ MqQueues(s, th, Len(Q), Len(F))'
    BY <2>1, <2>2 DEF MqQueues
  <2> QED BY <2>3
<1>5. ASSUME kind = "mp" PROVE (MpInv /\ MpQueues(s, th, o.count))'
  <2>1. MpInv' /\ MpQueues(s', th', o'.count)
    BY <1>5 DEF IpcThen
  <2>2. ThOk(s, th)'
    BY <2>1, SameQueues
  <2> QED BY <2>1, <2>2 DEF MpQueues
<1> QED BY <1>1, <1>2, <1>3, <1>4, <1>5 DEF IpcInv

\* Of the objects of RtIpc, any, whatever else the kernel does.
KernelIpc == kind \in {"sem", "event", "mb", "mq", "mp"} => IpcInv

\* At first,
LEMMA KernelIpcInit == Init => KernelIpc
  BY IpcInvInit DEF Init, KernelIpc

\* and after every step of the kernel.
LEMMA KernelIpcNext == KernelIpc /\ [Next]_kernelVars => KernelIpc'
<1> SUFFICES ASSUME KernelIpc, [Next]_kernelVars, kind' \in {"sem", "event", "mb", "mq", "mp"}
             PROVE  IpcInv'
  BY DEF KernelIpc
<1>1. kind' = kind /\ ((IpcNext /\ kind' = kind) \/ UNCHANGED <<s, th, ipcVars>>)
  BY DEF Next, kernelVars, ipcVars, IpcNext, IpcStep
<1>2. IpcInv
  BY <1>1 DEF KernelIpc
<1>3. CASE IpcNext
  BY <1>1, <1>2, <1>3, IpcInvStep, ThenInv
<1>4. CASE UNCHANGED <<s, th, ipcVars>>
  <2>1. s' = s /\ th' = th /\ kind' = kind /\ o' = o
    BY <1>4 DEF ipcVars
  <2>2. Sound(s) /\ ThOk(s, th) => Quiet
    BY <2>1 DEF Quiet, QuietFor
  <2> QED BY <1>2, <2>1, <2>2, QuietInv, ThenInv
<1> QED BY <1>1, <1>3, <1>4

\* The messages of a mailbox and of a queue.
LEMMA InvOrders == KernelIpc => MessagesInOrder
<1> SUFFICES ASSUME KernelIpc PROVE MessagesInOrder
  OBVIOUS
<1>1. kind = "mb" => RingHoldsFifo
  BY DEF KernelIpc, IpcInv, MbInv
<1>2. ASSUME kind = "mq" PROVE ListHoldsFifo
  <2>1. PICK Q, F : MqAt(o, th, Q, F)
    BY <1>2 DEF KernelIpc, IpcInv
  <2> QED BY <2>1, MqOrder
<1> QED BY <1>1, <1>2 DEF MessagesInOrder

\* Also when there are no threads.
LEMMA TotalNone ==
  ASSUME Threads = {} PROVE Total(o.HELD) \in Int
<1>1. \A u \in Threads : o.HELD[u] = 0
  OBVIOUS
<1>2. PICK f : f = o.HELD
  OBVIOUS
<1>3. Total(f) = 0
  BY <1>1, <1>2, TotalZero
<1> QED BY <1>2, <1>3

\* Permits and blocks.
LEMMA InvKeeps == KernelIpc => NothingGivenTwice
<1> SUFFICES ASSUME KernelIpc PROVE PermitsKept /\ BlocksKept
  BY DEF NothingGivenTwice
<1>1. ASSUME kind = "sem" PROVE o.value + InHands = o.TOTAL
  <2>1. SemWaits(s, th, o.value, o.HELD, o.TOTAL) /\ SemType
    BY <1>1 DEF KernelIpc, IpcInv, SemInv
  <2>2. ThOk(s, th)
    BY <2>1 DEF SemWaits
  <2>3. InHands = Total(o.HELD) + Cardinality(Awake(s, th, "sem_take"))
    BY <1>1, <2>2, GrantedAwake
  <2>4. PICK a, b, c : a = o.value /\ b = Total(o.HELD) /\ c = Cardinality(Awake(s, th, "sem_take"))
    OBVIOUS
  <2>5. a + b + c = o.TOTAL /\ a \in Int /\ c \in Int
    BY <2>1, <2>4, AwakeFinite DEF SemWaits, Makes, SemType
  <2>6. b \in Int
    BY <2>1, <2>4, TotalInt, TotalNone DEF SemType
  <2>7. InHands = b + c
    BY <2>3, <2>4
  <2> QED BY <2>4, <2>5, <2>6, <2>7
<1>2. PermitsKept
  BY <1>1 DEF PermitsKept
<1>3. CASE kind = "mq"
  <2>1. PICK Q, F : MqAt(o, th, Q, F)
    BY <1>3 DEF KernelIpc, IpcInv
  <2> QED BY <1>2, <1>3, <2>1, MqApart
<1>4. CASE kind = "mp"
  <2>1. MpInv
    BY <1>4 DEF KernelIpc, IpcInv
  <2> QED BY <1>2, <1>4, <2>1, PoolKeeps DEF BlocksKept
<1>5. CASE kind \notin {"mq", "mp"}
  BY <1>2, <1>5 DEF BlocksKept
<1> QED BY <1>3, <1>4, <1>5

\* What NoLostWakeup counts is who is awake.
LEMMA EnoughToBeHad ==
  ASSUME NEW op, NEW l, NEW n, Enough(s, th, op, l, n)
  PROVE  NothingToBeHad(l, op, n)
<1>1. WokenFor(op) = Awake(s, th, op)
  BY DEF WokenFor, Awake, ASleep
<1> QED BY <1>1 DEF Enough, NothingToBeHad, Waiting

\* The wake-ups.
LEMMA InvServes == KernelIpc => NoLostWakeup
<1> SUFFICES ASSUME KernelIpc PROVE NoLostWakeup
  OBVIOUS
<1>1. ASSUME kind = "sem" PROVE NothingToBeHad(recv, "none", o.value)
  <2>1. s.wait[recv] # <<>> => o.value = 0
    BY <1>1 DEF KernelIpc, IpcInv, SemInv, SemWaits
  <2>2. Cardinality(Awake(s, th, "none")) \in Nat
    BY AwakeFinite
  <2>3. PICK a : a = Awake(s, th, "none")
    OBVIOUS
  <2>4. Cardinality(a) >= 0
    BY <2>2, <2>3
  <2>5. Enough(s, th, "none", recv, o.value)
    BY <2>1, <2>2, EnoughOfNothing DEF Enough
  <2> QED BY <2>5, EnoughToBeHad
<1>2. ASSUME kind = "event", NEW t \in Members(s.wait[recv]) PROVE ~Satisfied(th[t].arg, o.set)
  <2>1. Sound(s) /\ Unserved(s, th, o.set)
    BY <1>2 DEF KernelIpc, IpcInv, EventWaits
  <2>2. s.wait[recv] \in Seq(Threads)
    BY <2>1, Lists2 DEF Sound, SchedType
  <2>3. t \in Threads
    BY <1>2, <2>2 DEF Members
  <2> QED BY <1>2, <2>1, <2>3 DEF Unserved, InWait
<1>3. ASSUME kind = "mb"
      PROVE  NothingToBeHad(recv, "mb_recv", o.entry)
               /\ NothingToBeHad(send, "mb_send", MbSize - o.entry)
  <2>1. Enough(s, th, "mb_recv", recv, o.entry) /\ Enough(s, th, "mb_send", send, MbSize - o.entry)
    BY <1>3 DEF KernelIpc, IpcInv, MbQueues
  <2> QED BY <2>1, EnoughToBeHad
<1>4. ASSUME kind = "mq"
      PROVE  /\ NothingToBeHad(recv, "mq_recv", o.entry)
             /\ NothingToBeHad(send, "mq_send", Len(Chain(o.free)))
  <2>1. PICK Q, F : MqAt(o, th, Q, F) /\ MqQueues(s, th, Len(Q), Len(F))
    BY <1>4 DEF KernelIpc, IpcInv
  <2>2. Enough(s, th, "mq_recv", recv, Len(Q)) /\ Enough(s, th, "mq_send", send, Len(F))
    BY <2>1 DEF MqQueues
  <2>3. o.entry = Len(Q) /\ Len(Chain(o.free)) = Len(F)
    BY <2>1, MqOrder, AtSizes
  <2> QED BY <2>2, <2>3, EnoughToBeHad
<1>5. ASSUME kind = "mp" PROVE NothingToBeHad(recv, "mp_alloc", o.count)
  <2>1. Enough(s, th, "mp_alloc", recv, o.count)
    BY <1>5 DEF KernelIpc, IpcInv, MpQueues
  <2> QED BY <2>1, EnoughToBeHad
<1> QED BY <1>1, <1>2, <1>3, <1>4, <1>5 DEF NoLostWakeup

\* ipc.c, rt_mb_send_wait, rt_mb_urgent, rt_mb_recv, _rt_mq_send_wait,
\* rt_mq_urgent and _rt_mq_recv: what a mailbox or a queue holds is what was
\* sent and not received, in order, urgent messages first, however many threads
\* send, receive, copy, wait and reset it, and wherever the ring wraps.
THEOREM MessagesStayInOrder == Spec => []MessagesInOrder
  BY KernelIpcInit, KernelIpcNext, InvOrders, PTL DEF Spec

\* ipc.c and mempool.c: the permits of a semaphore, in its count, in hands and
\* on the way to a thread that was woken, are those there should be; a block of a
\* queue or a pool is free, queued or with one thread, and the message a
\* receiver copies is still in its block.
THEOREM NothingIsGivenTwice == Spec => []NothingGivenTwice
  BY KernelIpcInit, KernelIpcNext, InvKeeps, PTL DEF Spec

\* ipc.c and mempool.c: while somebody waits for what an object has, as many
\* threads are awake for it as there are things to be had; so no permit, message
\* or free block lies there with everybody asleep, and no waiter of an event set
\* sleeps although its flags are there.
THEOREM NoWakeupIsLost == Spec => []NoLostWakeup
  BY KernelIpcInit, KernelIpcNext, InvServes, PTL DEF Spec
=============================================================================
