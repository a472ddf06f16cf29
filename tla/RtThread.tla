------------------------------ MODULE RtThread ------------------------------
(***************************************************************************)
(* Threads and the scheduler of the RT-Thread kernel the PS program runs   *)
(* on (rt_thread/src/thread.c, scheduler_mp.c, clock.c), on the one core   *)
(* that is ever started: suspending, resuming and timing out a thread,     *)
(* the ready lists, rt_schedule, and the tick interrupt.                   *)
(*                                                                         *)
(* The kernel's services are functions from one scheduler record to the    *)
(* next, so that a handler is written as the composition of its calls.     *)
(* What the code does with interrupts disabled is one action; between a    *)
(* thread's suspending itself and its call of rt_schedule interrupts are   *)
(* enabled, so that is two.  Priorities are RT-Thread's: 0 is the highest. *)
(* A timer is armed or not; when armed it may expire at any tick, or never *)
(* as it does for RT_WAITING_FOREVER.  Error codes other than RT_EOK are   *)
(* one, "ERROR": callers only tell success from failure.                   *)
(***************************************************************************)
EXTENDS Integers, Sequences, FiniteSets, SequencesExt

CONSTANTS
  Threads,     \* the threads that use the kernel objects
  Idle,        \* the idle thread: always ready, never blocks
  InitPrio,    \* init_priority of each thread, idle included
  WaitLists    \* names of the suspend lists of the objects

AllThreads == Threads \cup {Idle}
Prios == {InitPrio[t] : t \in AllThreads}

ASSUME ThreadAssumption ==
  /\ Idle \notin Threads /\ IsFiniteSet(Threads)
  /\ InitPrio \in [AllThreads -> Nat]
  /\ \A t \in Threads : InitPrio[t] < InitPrio[Idle]

VARIABLES
  s,    \* the scheduler: who runs, states, priorities, lists, timers, errors
  th    \* where each thread is in the kernel call it makes, with its arguments


\* Nothing in progress: the thread runs its own code.
User == [pc |-> "user", op |-> "none", arg |-> "none"]

Members(q) == {q[i] : i \in DOMAIN q}

(* rt_list_remove(&thread->tlist): out of whatever list the thread is in.  *)
Unlink(z, t) ==
  [z EXCEPT !.ready = [p \in DOMAIN @ |-> RemoveFirst(@[p], t)],
            !.wait = [l \in DOMAIN @ |-> RemoveFirst(@[l], t)]]

(* A thread that has not been switched away from yet (oncpu) just runs on; *)
(* another goes to the head of its ready list, or to the tail when its     *)
(* time slice is used up (RT_THREAD_STAT_YIELD).                           *)
Insert(z, t) ==
  [z EXCEPT !.stat[t] = "ready",
            !.ready[z.prio[t]] = IF t \in z.yield THEN Append(@, t) ELSE <<t>> \o @]
rt_schedule_insert_thread(z, t) ==
  IF t = z.cur THEN [z EXCEPT !.stat[t] = "running"] ELSE Insert(z, t)

HighestReady(z) ==
  LET occupied == {p \in DOMAIN z.ready : z.ready[p] # <<>>}
  IN CHOOSE p \in occupied : \A q \in occupied : p <= q

(* The running thread keeps the core unless a ready one has a higher       *)
(* priority, or the same and the running one is to yield.                  *)
rt_schedule(z) ==
  LET c == z.cur
      hp == HighestReady(z)
      to == Head(z.ready[hp])
      runs == z.stat[c] = "running"
      keeps == runs /\ (z.prio[c] < hp \/ (z.prio[c] = hp /\ c \notin z.yield))
      put == IF runs /\ ~keeps THEN Insert(z, c) ELSE z
      clear == IF runs THEN [put EXCEPT !.yield = @ \ {c}] ELSE put
  IN IF \A p \in DOMAIN z.ready : z.ready[p] = <<>> THEN z
     ELSE IF keeps THEN clear
     ELSE [Unlink(clear, to) EXCEPT !.cur = to, !.stat[to] = "running"]

(* Only the running thread suspends itself; its timer is stopped.          *)
rt_thread_suspend(z, t) == [z EXCEPT !.stat[t] = "suspend", !.timer = @ \ {t}]

\* Mutant of rt_thread_resume: the thread's timer is left running.
rt_thread_resumeTimed(z, t) ==
  IF z.stat[t] # "suspend" THEN z ELSE rt_schedule_insert_thread(Unlink(z, t), t)

rt_thread_resume(z, t) ==
  IF z.stat[t] # "suspend" THEN z
  ELSE rt_schedule_insert_thread([Unlink(z, t) EXCEPT !.timer = @ \ {t}], t)

(* The timer has been taken off the timer list by rt_timer_check.          *)
thread_timeout(z, t) ==
  rt_schedule_insert_thread(
    [Unlink(z, t) EXCEPT !.timer = @ \ {t}, !.err[t] = "ERROR"], t)

(* RT_THREAD_CTRL_CHANGE_PRIORITY: a ready thread changes its list.        *)
ChangePriority(z, t, p) ==
  IF z.stat[t] = "ready"
  THEN rt_schedule_insert_thread([Unlink(z, t) EXCEPT !.prio[t] = p], t)
  ELSE [z EXCEPT !.prio[t] = p]

(* Behind the last, or before the first of lower priority.                 *)
ipc_list_suspend(z, l, t, flag) ==
  LET z1 == IF z.stat[t] = "suspend" THEN z ELSE rt_thread_suspend(z, t)
      at == SelectInSeq(z.wait[l], LAMBDA u : z.prio[t] < z.prio[u])
  IN [z1 EXCEPT !.wait[l] = IF flag = "FIFO" \/ at = 0 THEN Append(@, t)
                            ELSE InsertAt(@, at, t)]

ipc_list_resume(z, l) ==
  LET t == Head(z.wait[l])
  IN rt_thread_resume([z EXCEPT !.err[t] = "EOK"], t)

ipc_list_resume_all(z, l) ==
  FoldLeft(LAMBDA y, t : rt_thread_resume([y EXCEPT !.err[t] = "ERROR"], t),
           z, z.wait[l])

StartTimer(z, t) == [z EXCEPT !.timer = @ \cup {t}]

----------------------------------------------------------------------------
Runs(t) == s.cur = t /\ s.stat[t] = "running"
InUser(t) == Runs(t) /\ th[t].pc = "user"
\* Back from rt_schedule inside a blocking call op, with its error code set.
Woken(t, op) == Runs(t) /\ th[t].pc = "woken" /\ th[t].op = op

(* A thread waits in list l: everything up to the enabling of interrupts.  *)
Block(t, l, flag, op, arg) ==
  /\ s' = StartTimer(ipc_list_suspend([s EXCEPT !.err[t] = "ERROR"], l, t, flag), t)
  /\ th' = [th EXCEPT ![t] = [pc |-> "sched", op |-> op, arg |-> arg]]

(* rt_schedule at the end of a blocking call.                              *)
CallSchedule(t) ==
  /\ s.cur = t /\ th[t].pc = "sched"
  /\ s' = rt_schedule(s)
  /\ th' = [th EXCEPT ![t].pc = "woken"]

(* rt_thread_sleep: suspended on no list until the timer expires.          *)
Sleep(t) ==
  /\ InUser(t)
  /\ s' = StartTimer(rt_thread_suspend([s EXCEPT !.err[t] = "ERROR"], t), t)
  /\ th' = [th EXCEPT ![t] = [User EXCEPT !.pc = "sched", !.op = "sleep"]]

SleepOver(t) ==
  /\ Woken(t, "sleep")
  /\ s' = [s EXCEPT !.err[t] = "EOK"]
  /\ th' = [th EXCEPT ![t] = User]

(* The tick interrupt: rt_tick_increase marks the running thread when its  *)
(* time slice is used up, rt_timer_check calls the timeout function of a   *)
(* timer that expires, and on the way out of the interrupt                 *)
(* rt_scheduler_do_irq_switch picks the thread to run.  Several of these   *)
(* at one tick are as many ticks with nothing in between.                  *)
Tick ==
  /\ \/ s' = rt_schedule([s EXCEPT !.yield = @ \cup {s.cur}])
     \/ \E t \in s.timer : s' = rt_schedule(thread_timeout(s, t))
  /\ UNCHANGED th

ThreadInit ==
  /\ s = LET z == [cur |-> Idle,
                   stat |-> [t \in AllThreads |-> IF t = Idle THEN "running" ELSE "ready"],
                   prio |-> InitPrio,
                   ready |-> [p \in Prios |-> SetToSeq({t \in Threads : InitPrio[t] = p})],
                   wait |-> [l \in WaitLists |-> <<>>],
                   timer |-> {}, yield |-> {},
                   err |-> [t \in AllThreads |-> "EOK"]]
         IN rt_schedule(z)
  /\ th = [t \in Threads |-> User]

ThreadStep ==
  \/ Tick
  \/ \E t \in Threads : CallSchedule(t) \/ Sleep(t) \/ SleepOver(t)

----------------------------------------------------------------------------
(* A thread's state, its list node and its timer agree: a ready thread is  *)
(* in the ready list of its current priority, once, a suspended one in at  *)
(* most one wait list, the running one in none; only a suspended thread    *)
(* has a timer running, which _thread_timeout asserts; and a thread that   *)
(* is suspended waits for something that can come.                         *)
ReadyAt(t) == {p \in DOMAIN s.ready : t \in Members(s.ready[p])}
WaitsIn(t) == {l \in DOMAIN s.wait : t \in Members(s.wait[l])}
ThreadsInPlace ==
  /\ s.stat[s.cur] # "ready"
  /\ \A t \in AllThreads :
       /\ t # s.cur => s.stat[t] # "running"
       /\ ReadyAt(t) = IF s.stat[t] = "ready" THEN {s.prio[t]} ELSE {}
       /\ Cardinality(WaitsIn(t)) <= 1
       /\ IF s.stat[t] = "suspend" THEN WaitsIn(t) # {} \/ t \in s.timer
          ELSE WaitsIn(t) = {} /\ t \notin s.timer
  /\ \A p \in DOMAIN s.ready : IsInjective(s.ready[p])
  /\ \A l \in DOMAIN s.wait : IsInjective(s.wait[l])
=============================================================================
