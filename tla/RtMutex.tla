------------------------------ MODULE RtMutex ------------------------------
(***************************************************************************)
(* The kernel's mutexes (rt_thread/src/ipc.c): recursive, handed over to   *)
(* the first waiter on release, and with priority inheritance along chains *)
(* of owners that wait themselves.                                         *)
(*                                                                         *)
(* Threads wait for ever, as both users of mutexes in this program do (the *)
(* heap lock of kservice.c and the address space lock of mm_aspace.h), and *)
(* nobody sets a priority ceiling.  What the timeout path does is not      *)
(* modelled.  CLAIMS is history: how often a thread has taken a mutex and  *)
(* not given it back, by its own account.                                  *)
(***************************************************************************)
EXTENDS RtThread

CONSTANTS
  Mutexes,   \* each is the name of its own suspend list
  HoldMax,   \* RT_MUTEX_HOLD_MAX
  NoPrio,    \* priority 0xFF: lower than that of every thread
  None       \* a null pointer

ASSUME MutexAssumption ==
  /\ Mutexes \subseteq WaitLists
  /\ HoldMax \in Nat \ {0} /\ NoPrio \in Nat
  /\ \A t \in AllThreads : InitPrio[t] < NoPrio
  /\ None \notin Mutexes \cup AllThreads

VARIABLE mx  \* the mutexes, and of each thread taken_object_list and pending_object

MutexObject == [owner |-> [m \in Mutexes |-> None], hold |-> [m \in Mutexes |-> 0],
                prio |-> [m \in Mutexes |-> NoPrio],
                taken |-> [t \in Threads |-> {}], pend |-> [t \in Threads |-> None],
                CLAIMS |-> [m \in Mutexes |-> [t \in Threads |-> 0]]]

Lowest(S) == CHOOSE p \in S : \A q \in S : p <= q

\* _mutex_update_priority: that of the first waiter.
FirstPrio(z, m) == IF z.wait[m] = <<>> THEN NoPrio ELSE z.prio[Head(z.wait[m])]

thread_get_mutex_priority(y, t) == Lowest({InitPrio[t]} \cup {y.prio[m] : m \in y.taken[t]})

\* Mutant of UpdateOne: the boost is not passed along a chain of owners.
UpdateOneAlone(k, i) ==
  IF k.t = None THEN k ELSE [k EXCEPT !.z = ChangePriority(k.z, k.t, k.p), !.t = None]

(* One level of _thread_update_priority: k.t gets priority k.p; if it      *)
(* waits for a mutex itself, it is queued there anew, and the owner of     *)
(* that mutex comes next if its priority is not what it should be.         *)
UpdateOne(k, i) ==
  LET z == ChangePriority(k.z, k.t, k.p)
      m == k.y.pend[k.t]
      zq == ipc_list_suspend(Unlink(z, k.t), m, k.t, "PRIO")
      y == [k.y EXCEPT !.prio[m] = FirstPrio(zq, m)]
      up == k.y.owner[m]
      p == thread_get_mutex_priority(y, up)
  IN IF k.t = None THEN k
     ELSE IF z.stat[k.t] # "suspend" \/ m = None THEN [k EXCEPT !.z = z, !.t = None]
     ELSE [z |-> zq, y |-> y, t |-> IF p = zq.prio[up] THEN None ELSE up, p |-> p]
thread_update_priority(z, y, t, p) ==
  FoldLeft(UpdateOne, [z |-> z, y |-> y, t |-> t, p |-> p],
           [i \in 1 .. Cardinality(Threads) + 1 |-> i])

rt_mutex_take(t, m) ==
  /\ InUser(t)
  /\ \/ /\ mx.owner[m] = t /\ mx.hold[m] < HoldMax
        /\ mx' = [mx EXCEPT !.hold[m] = @ + 1, !.CLAIMS[m][t] = @ + 1]
        /\ UNCHANGED <<s, th>>
     \/ /\ mx.owner[m] = None
        /\ mx' = [mx EXCEPT !.owner[m] = t, !.prio[m] = NoPrio, !.hold[m] = 1,
                            !.taken[t] = @ \cup {m}, !.CLAIMS[m][t] = @ + 1]
        /\ UNCHANGED <<s, th>>
     \/ /\ mx.owner[m] \notin {t, None}
        /\ LET z == ipc_list_suspend(s, m, t, "PRIO")
               p == s.prio[t]
               raised == p < mx.prio[m]
               y == [mx EXCEPT !.pend[t] = m, !.prio[m] = IF raised THEN p ELSE @]
               end == IF raised /\ p < s.prio[mx.owner[m]]
                      THEN thread_update_priority(z, y, mx.owner[m], p)
                      ELSE [z |-> z, y |-> y]
           IN /\ s' = end.z
              /\ mx' = end.y
        /\ th' = [th EXCEPT ![t] = [pc |-> "sched", op |-> "mutex_take", arg |-> m]]

mutex_taken(t) ==
  /\ Woken(t, "mutex_take")
  /\ mx' = [mx EXCEPT !.CLAIMS[th[t].arg][t] = @ + 1]
  /\ th' = [th EXCEPT ![t] = User]
  /\ UNCHANGED s

(* The last release recomputes the priority of the thread, hands the mutex *)
(* to the first waiter and makes that one ready.                           *)
GiveUp(t, m) ==
  LET y == [mx EXCEPT !.taken[t] = @ \ {m}]
      drops == s.prio[t] = mx.prio[m]
      z == IF drops THEN ChangePriority(s, t, thread_get_mutex_priority(y, t)) ELSE s
      u == Head(z.wait[m])
      zu == rt_thread_resume(z, u)
  IN IF z.wait[m] = <<>>
     THEN /\ mx' = [y EXCEPT !.hold[m] = 0, !.owner[m] = None, !.prio[m] = NoPrio,
                             !.CLAIMS[m][t] = @ - 1]
          /\ s' = IF drops THEN rt_schedule(z) ELSE z
     ELSE /\ mx' = [y EXCEPT !.owner[m] = u, !.hold[m] = 1, !.taken[u] = @ \cup {m},
                             !.pend[u] = None, !.prio[m] = FirstPrio(zu, m),
                             !.CLAIMS[m][t] = @ - 1]
          /\ s' = rt_schedule(zu)

\* Mutant of rt_mutex_release: a nested take is given up with the first release.
rt_mutex_releaseAll(t, m) ==
  /\ InUser(t) /\ mx.owner[m] = t
  /\ GiveUp(t, m)
  /\ UNCHANGED th

rt_mutex_release(t, m) ==
  /\ InUser(t) /\ mx.owner[m] = t
  /\ \/ /\ mx.hold[m] > 1
        /\ mx' = [mx EXCEPT !.hold[m] = @ - 1, !.CLAIMS[m][t] = @ - 1]
        /\ UNCHANGED s
     \/ mx.hold[m] = 1 /\ GiveUp(t, m)
  /\ UNCHANGED th

MutexStep ==
  \E t \in Threads :
    \/ \E m \in Mutexes : rt_mutex_take(t, m) \/ rt_mutex_release(t, m)
    \/ mutex_taken(t)

----------------------------------------------------------------------------
(* At most one thread thinks it has a mutex, and the mutex counts its      *)
(* takes; a mutex that was handed to a thread that has not run yet counts  *)
(* one.  Each mutex is in the taken list of its owner and in no other, and *)
(* nobody waits for a mutex without an owner.                              *)
MutualExclusion ==
  \A m \in Mutexes :
    /\ \A t \in Threads : mx.CLAIMS[m][t] > 0 => mx.owner[m] = t
    /\ {t \in Threads : m \in mx.taken[t]} = {mx.owner[m]} \ {None}
    /\ mx.owner[m] = None => mx.hold[m] = 0 /\ s.wait[m] = <<>>
    /\ mx.owner[m] # None =>
         \/ mx.hold[m] = mx.CLAIMS[m][mx.owner[m]] /\ mx.hold[m] > 0
         \/ /\ mx.hold[m] = 1 /\ mx.CLAIMS[m][mx.owner[m]] = 0
            /\ th[mx.owner[m]].op = "mutex_take" /\ th[mx.owner[m]].arg = m

(* No priority inversion: a thread runs at the highest priority among its  *)
(* own and those of the threads that wait, directly or behind others, for  *)
(* a mutex it has, and loses the boost with the mutex; and the first       *)
(* waiter, who gets the mutex next, is one of the highest, also after a    *)
(* waiter was raised.                                                      *)
WaitingFor(t) == UNION {Members(s.wait[m]) : m \in mx.taken[t]}
WaitersInOrder(m) ==
  /\ mx.prio[m] = FirstPrio(s, m)
  /\ \A i, j \in DOMAIN s.wait[m] : i < j => s.prio[s.wait[m][i]] <= s.prio[s.wait[m][j]]
PriorityInherited ==
  /\ \A t \in Threads :
       s.prio[t] = Lowest({InitPrio[t]} \cup {s.prio[u] : u \in WaitingFor(t)})
  /\ \A m \in Mutexes : WaitersInOrder(m)
=============================================================================
