------------------------------- MODULE RtTimer -------------------------------
(***************************************************************************)
(* The timers of the RT-Thread kernel (rt_thread/src/timer.c): hard timers *)
(* whose functions are called from the tick interrupt, soft timers whose   *)
(* functions are called from the timer thread, and that thread's own hard  *)
(* timer, which wakes it.                                                  *)
(*                                                                         *)
(* The skip list has one level in this configuration, so a timer list is a *)
(* sequence.  Services run with interrupts disabled and are functions on   *)
(* the record w; the timer thread and the walk of the interrupt handler    *)
(* along the hard timers advance in steps.  Timer functions may call any   *)
(* service on any timer.  The tick counter is modulo TickMod; times are    *)
(* short against half of it, as rt_timer_init asserts.  w.MUTED is history: *)
(* running periodic timers that were made one-shot while being called.     *)
(***************************************************************************)
EXTENDS Integers, Sequences, FiniteSets, SequencesExt

CONSTANTS
  HardTimers, SoftTimers,
  TimerSets,    \* the sets of timers to look at
  ThreadTimer,  \* thread_timer of the timer thread
  TickMod,      \* RT_TICK_MAX + 1
  FirstTick, LastTick,  \* bound: the ticks looked at, from the one to the other
  Times,        \* init_tick values
  MaxLag,       \* bound: ticks the timer thread needs from a wake-up to the next sleep
  IsrStarts,    \* whether functions of hard timers start soft timers
  NoTimer       \* an empty list of the timer being called

ASSUME TimerAssumption ==
  /\ ThreadTimer \notin HardTimers \cup SoftTimers /\ HardTimers \cap SoftTimers = {}
  /\ NoTimer \notin HardTimers \cup SoftTimers \cup {ThreadTimer}
  /\ TimerSets \subseteq SUBSET (HardTimers \cup SoftTimers)
  /\ IsrStarts \in BOOLEAN /\ MaxLag \in Nat /\ TickMod \in Nat \ {0}
  /\ {FirstTick, LastTick} \subseteq 0 .. TickMod - 1
  /\ Times # {} /\ Times \subseteq Nat
  /\ \A n \in Times : n > 0 /\ n + 2 * MaxLag < (TickMod - 1) \div 2

VARIABLE w  \* timers, lists, tick, and where the handler and the timer thread are

UserTimers == HardTimers \cup SoftTimers  \* those in w.use have been initialised
AllTimers == UserTimers \cup {ThreadTimer}
ListOf(t) == IF t \in SoftTimers THEN "soft" ELSE "hard"
Listed(z, t) == t \in {z.list[ListOf(t)][i] : i \in DOMAIN z.list[ListOf(t)]}
\* Whether tick a is at or after tick b, across the wrap of the counter.
Reached(a, b) == (a - b) % TickMod < (TickMod - 1) \div 2
Suspended(z) == z.pc \in {"asleep", "sleeping"}

\* _timer_remove: out of its list, or out of the list of the one being called.
\* Where a timer was due is not kept: only starting it sets that again.
timer_remove(z, t) ==
  [z EXCEPT !.list[ListOf(t)] = RemoveFirst(@, t), !.due[t] = 0,
            !.called[ListOf(t)] = IF @ = t THEN NoTimer ELSE @]

rt_timer_detach(z, t) ==
  [timer_remove(z, t) EXCEPT !.active[t] = FALSE, !.MUTED = @ \ {t}]
rt_timer_stop(z, t) == IF z.active[t] THEN rt_timer_detach(z, t) ELSE z

\* The timer thread is made ready and goes on to rt_soft_timer_check.
ResumeThread(z) == [z EXCEPT !.pc = "check", !.lag = 0]

\* Mutant of InsertByDue: ticks are compared without regard to the wrap.
InsertByDueUnwrapped(z, t) ==
  LET due == (z.tick + z.init[t]) % TickMod
      at == SelectInSeq(z.list[ListOf(t)], LAMBDA u : z.due[u] > due)
  IN [z EXCEPT !.due[t] = due, !.active[t] = TRUE, !.MUTED = @ \ {t},
               !.list[ListOf(t)] = IF at = 0 THEN Append(@, t) ELSE InsertAt(@, at, t)]

(* In front of the first timer that is due later.                          *)
InsertByDue(z, t) ==
  LET due == (z.tick + z.init[t]) % TickMod
      at == SelectInSeq(z.list[ListOf(t)], LAMBDA u : z.due[u] # due /\ Reached(z.due[u], due))
  IN [z EXCEPT !.due[t] = due, !.active[t] = TRUE, !.MUTED = @ \ {t},
               !.list[ListOf(t)] = IF at = 0 THEN Append(@, t) ELSE InsertAt(@, at, t)]

\* Mutant of rt_timer_start: a timer thread that sleeps until another timer is
\* due is not woken.
rt_timer_startOnlyAsleep(z, t) ==
  LET started == InsertByDue(timer_remove(z, t), t)
  IN IF t \in SoftTimers /\ z.pc = "asleep" THEN ResumeThread(started) ELSE started

(* The timer thread is resumed if it is suspended, to look at its list.    *)
rt_timer_start(z, t) ==
  LET started == InsertByDue(timer_remove(z, t), t)
  IN IF t \in SoftTimers /\ Suspended(z)
     THEN ResumeThread(rt_timer_stop(started, ThreadTimer))
     ELSE started

SetPeriodic(z, t, b) ==
  [z EXCEPT !.periodic[t] = b,
            !.MUTED = IF ~b /\ z.active[t] /\ z.called[ListOf(t)] = t THEN @ \cup {t}
                      ELSE IF z.called[ListOf(t)] = t THEN @ \ {t} ELSE @]
rt_timer_control(z, t) ==
  {[z EXCEPT !.init[t] = n] : n \in Times} \cup {SetPeriodic(z, t, b) : b \in BOOLEAN}

Services(z, startable) ==
  {rt_timer_start(z, t) : t \in startable \cap w.use}
    \cup (UNION {{rt_timer_stop(z, t), rt_timer_detach(z, t)} : t \in w.use})
    \cup (UNION {rt_timer_control(z, t) : t \in w.use})

(* The beginning and the end of the call of the first timer in a list.     *)
BeginCall(z, l) ==
  LET t == Head(z.list[l])
  IN [timer_remove(z, t) EXCEPT !.called[l] = t, !.due[t] = z.due[t],
                                !.active[t] = z.periodic[t]]
EndCall(z, l) ==
  LET t == z.called[l]
      done == IF t = NoTimer THEN z ELSE timer_remove(z, t)
  IN IF t # NoTimer /\ z.periodic[t] /\ z.active[t] THEN rt_timer_start(done, t) ELSE done
FirstDue(l) == w.list[l] # <<>> /\ Reached(w.tick, w.due[Head(w.list[l])])

----------------------------------------------------------------------------
(* The tick interrupt: rt_tick_increase, rt_timer_check.                   *)

TimerTick ==
  /\ w.isr = "none" /\ w.tick # LastTick
  /\ Suspended(w) \/ w.lag < MaxLag
  /\ w' = [w EXCEPT !.tick = (@ + 1) % TickMod, !.isr = "check",
                    !.lag = IF Suspended(w) THEN @ ELSE @ + 1]

\* _thread_timeout is the function of the thread's timer.
HardCall ==
  /\ w.isr = "check" /\ FirstDue("hard")
  /\ LET z == [BeginCall(w, "hard") EXCEPT !.isr = "call"]
     IN w' = IF z.called["hard"] = ThreadTimer THEN ResumeThread(z) ELSE z
HardFunction ==
  /\ w.isr = "call" /\ w.called["hard"] # ThreadTimer
  /\ w' \in Services(w, IF IsrStarts THEN UserTimers ELSE HardTimers)
HardReturn ==
  /\ w.isr = "call"
  /\ w' = [EndCall(w, "hard") EXCEPT !.isr = "check"]
LeaveHandler ==
  /\ w.isr = "check" /\ ~FirstDue("hard")
  /\ w' = [w EXCEPT !.isr = "none"]

----------------------------------------------------------------------------
(* The timer thread, _timer_thread_entry and rt_soft_timer_check.  The     *)
(* next timeout and the current tick are read one after the other.         *)

At(pc) == w.isr = "none" /\ w.pc = pc

Look ==
  /\ At("look")
  /\ w' = IF w.list["soft"] = <<>> THEN [w EXCEPT !.pc = "suspend"]
          ELSE [w EXCEPT !.pc = "delta", !.next = w.due[Head(w.list["soft"])]]
Suspend ==
  /\ At("suspend")
  /\ w' = [rt_timer_stop(w, ThreadTimer) EXCEPT !.pc = "asleep"]
Delta ==
  /\ At("delta")
  /\ w' = IF w.next # w.tick /\ Reached(w.next, w.tick)
          THEN [w EXCEPT !.pc = "delay", !.next = (@ - w.tick) % TickMod]
          ELSE [w EXCEPT !.pc = "check", !.next = 0]
Delay ==
  /\ At("delay")
  /\ LET set == [rt_timer_stop(w, ThreadTimer) EXCEPT !.init[ThreadTimer] = w.next]
     IN w' = [rt_timer_start(set, ThreadTimer) EXCEPT !.pc = "sleeping", !.next = 0]

SoftCall ==
  /\ At("check") /\ FirstDue("soft")
  /\ w' = [BeginCall(w, "soft") EXCEPT !.pc = "call"]
SoftFunction == At("call") /\ w' \in Services(w, UserTimers)
SoftReturn == At("call") /\ w' = [EndCall(w, "soft") EXCEPT !.pc = "check"]
CheckDone ==
  /\ At("check") /\ ~FirstDue("soft")
  /\ w' = [w EXCEPT !.pc = "look"]

\* The other threads have a lower priority than the timer thread.
OtherThreads ==
  /\ w.isr = "none" /\ Suspended(w)
  /\ w' \in Services(w, UserTimers)

TimerObject(use) ==
  [use |-> use, tick |-> FirstTick, list |-> [l \in {"hard", "soft"} |-> <<>>],
   called |-> [l \in {"hard", "soft"} |-> NoTimer],
   due |-> [t \in AllTimers |-> 0], init |-> [t \in AllTimers |-> CHOOSE n \in Times : TRUE],
   periodic |-> [t \in AllTimers |-> FALSE], active |-> [t \in AllTimers |-> FALSE],
   isr |-> "none", pc |-> "look", next |-> 0, lag |-> 0, MUTED |-> {}]

TimerStep ==
  \/ TimerTick \/ HardCall \/ HardFunction \/ HardReturn \/ LeaveHandler
  \/ Look \/ Suspend \/ Delta \/ Delay
  \/ SoftCall \/ SoftFunction \/ SoftReturn \/ CheckDone \/ OtherThreads

----------------------------------------------------------------------------
Left(t) == LET d == (w.due[t] - w.tick) % TickMod
           IN IF d < (TickMod - 1) \div 2 THEN d ELSE d - TickMod

(* Timers go off when they should, however their functions restart, stop   *)
(* or change them and wherever the tick counter wraps: a list is in the    *)
(* order of the due ticks, a hard timer is called at its tick and none is  *)
(* passed over, a soft timer is not called early, and a timer that is      *)
(* active will be called again, unless it was periodic and its function    *)
(* made it one-shot: that one stays active for ever and is in no list.     *)
TimersOnTime ==
  /\ \A l \in {"hard", "soft"} :
       /\ IsInjective(w.list[l])
       /\ \A i, j \in DOMAIN w.list[l] : i < j => Left(w.list[l][i]) <= Left(w.list[l][j])
  /\ \A t \in AllTimers :
       /\ Listed(w, t) => w.active[t] /\ w.called[ListOf(t)] # t
       /\ w.active[t] => Listed(w, t) \/ w.called[ListOf(t)] = t \/ t \in w.MUTED
       /\ Listed(w, t) /\ ListOf(t) = "hard" =>
            IF w.isr = "none" THEN Left(t) > 0 ELSE Left(t) >= 0
  /\ w.called["hard"] # NoTimer => Left(w.called["hard"]) = 0
  /\ w.called["soft"] # NoTimer => Left(w.called["soft"]) <= 0
  /\ Listed(w, ThreadTimer) <=> w.pc = "sleeping"

(* The timer thread never sleeps past a soft timer: suspended for good it  *)
(* has none, and otherwise its own timer comes no later than the first of  *)
(* them, but for ticks that came while it was on its way to sleep.         *)
SoftTimersServed ==
  /\ w.pc = "asleep" => w.list["soft"] = <<>>
  /\ w.pc = "sleeping" =>
       \A t \in SoftTimers : Listed(w, t) => Left(ThreadTimer) <= Left(t) + w.lag
=============================================================================
