------------------------------- MODULE RtIpc -------------------------------
(***************************************************************************)
(* The kernel's waiting objects (rt_thread/src/ipc.c, mempool.c):          *)
(* semaphore, event set, mailbox, message queue and memory pool.  A        *)
(* behaviour is about one object, whose kind is chosen initially; any      *)
(* thread may call any of its services at any time.  A call that has to    *)
(* wait does so with a timeout, which need not run out.                    *)
(*                                                                         *)
(* A blocking call is a loop: look at the object, and either finish or go  *)
(* to sleep in a suspend list; after the wake-up, look again.  Semaphore   *)
(* and event hand over what was waited for and do not look again.  Calls   *)
(* that fail without waiting change nothing and are left out.              *)
(*                                                                         *)
(* The fields of o named in capitals are history: what the object should   *)
(* hold, kept beside what the code keeps.                                  *)
(***************************************************************************)
EXTENDS RtThread, FiniteSetsExt

CONSTANTS
  Kinds,       \* the kinds of object to look at
  Flag,        \* queueing discipline of the suspend lists: "FIFO" or "PRIO"
  Permits,     \* initial value of the semaphore
  MaxPermits,  \* bound on the permits that resets make
  Flags,       \* the flags of the event set
  Wants,       \* what threads wait for: some or all flags of a set, clearing or not
  Msgs,        \* contents of messages
  MbSize,      \* capacity of the mailbox
  Blocks,      \* blocks of the message queue or of the memory pool
  Nil          \* a null pointer

ASSUME IpcAssumption ==
  /\ Flag \in {"FIFO", "PRIO"} /\ {"recv", "send"} \subseteq WaitLists
  /\ Permits \in Nat /\ MaxPermits \in Nat /\ MbSize \in Nat \ {0}
  /\ Wants \subseteq [set : (SUBSET Flags) \ {{}}, all : BOOLEAN, clear : BOOLEAN]
  /\ Nil \notin Blocks \cup Msgs /\ IsFiniteSet(Blocks)
  /\ "mq" \in Kinds => Blocks # {}   \* rt_mq_init refuses a queue without blocks

VARIABLES
  kind,  \* which object this behaviour is about
  o      \* the object

ipcVars == <<kind, o>>

\* "recv" is parent.suspend_thread, "send" suspend_sender_thread.
recv == "recv"
send == "send"
Waiting(l) == s.wait[l] # <<>>

\* The end of a service that wakes the head of l, or nobody.
Wake(l) == IF Waiting(l) THEN rt_schedule(ipc_list_resume(s, l)) ELSE s

\* The end of a blocking call.  The error code is not kept: the next
\* blocking call sets it first, and nothing else reads it.
Return(t, z) ==
  /\ s' = [z EXCEPT !.err[t] = "EOK"]
  /\ th' = [th EXCEPT ![t] = User]

\* A blocking call begins, or looks at the object again after a wake-up;
\* the time that is left then may be none.
Looks(t, op, arg) ==
  \/ InUser(t)
  \/ Woken(t, op) /\ s.err[t] = "EOK" /\ th[t].arg = arg
\* It is woken by a timeout or by a reset.
Fails(t, op) ==
  /\ Woken(t, op) /\ s.err[t] = "ERROR"
  /\ Return(t, s)
  /\ UNCHANGED ipcVars

----------------------------------------------------------------------------
(* Semaphore.  HELD counts the permits a thread has taken and not released, *)
(* TOTAL those that exist; a reset makes new ones, up to MaxPermits.       *)
SemObject == [value |-> Permits, TOTAL |-> Permits, HELD |-> [t \in Threads |-> 0]]

rt_sem_take(t) ==
  /\ InUser(t)
  /\ \/ /\ o.value > 0
        /\ o' = [o EXCEPT !.value = @ - 1, !.HELD[t] = @ + 1]
        /\ UNCHANGED <<s, th>>
     \/ /\ o.value = 0
        /\ Block(t, recv, Flag, "sem_take", "none")
        /\ UNCHANGED o

sem_taken(t) ==
  /\ Woken(t, "sem_take") /\ s.err[t] = "EOK"
  /\ Return(t, s)
  /\ o' = [o EXCEPT !.HELD[t] = @ + 1]

rt_sem_release(t) ==
  /\ InUser(t) /\ o.HELD[t] > 0
  /\ s' = Wake(recv)
  /\ o' = [o EXCEPT !.HELD[t] = @ - 1, !.value = IF Waiting(recv) THEN @ ELSE @ + 1]
  /\ UNCHANGED th

\* A release has handed t a permit, and t has not returned yet.
Granted == {t \in Threads : th[t].op = "sem_take" /\ s.err[t] = "EOK"}
InHands == MapThenSumSet(LAMBDA t : o.HELD[t], Threads) + Cardinality(Granted)

rt_sem_control(t) ==
  /\ InUser(t)
  /\ Permits + InHands <= MaxPermits
  /\ s' = rt_schedule(ipc_list_resume_all(s, recv))
  /\ o' = [o EXCEPT !.value = Permits, !.TOTAL = Permits + InHands]
  /\ UNCHANGED th

SemStep(t) ==
  \/ rt_sem_take(t) \/ sem_taken(t) \/ Fails(t, "sem_take")
  \/ rt_sem_release(t) \/ rt_sem_control(t)

----------------------------------------------------------------------------
(* Event set.  A thread's arg is the flags it waits for (event_set) and    *)
(* how (event_info); an OR wait that is satisfied keeps the flags it got.  *)
EventObject == [set |-> {}]
Satisfied(w, set) == IF w.all THEN w.set \subseteq set ELSE w.set \cap set # {}

\* One waiter's turn in the walk rt_event_send makes along the list.
EventOffer(acc, t) ==
  LET w == acc.th[t].arg
      got == IF w.all THEN w.set ELSE w.set \cap acc.set
  IN IF ~Satisfied(w, acc.set) THEN acc
     ELSE [s |-> rt_thread_resume([acc.s EXCEPT !.err[t] = "EOK"], t),
           th |-> [acc.th EXCEPT ![t].arg.set = got],
           set |-> IF w.clear THEN acc.set \ got ELSE acc.set]

rt_event_send(t, set) ==
  /\ InUser(t)
  /\ LET end == FoldLeft(EventOffer, [s |-> s, th |-> th, set |-> o.set \cup set],
                         s.wait[recv])
     IN /\ s' = IF end.s = s THEN s ELSE rt_schedule(end.s)
        /\ th' = end.th
        /\ o' = [o EXCEPT !.set = end.set]

rt_event_recv(t, w) ==
  /\ InUser(t)
  /\ \/ /\ Satisfied(w, o.set) /\ w.clear
        /\ o' = [o EXCEPT !.set = @ \ w.set]
        /\ UNCHANGED <<s, th>>
     \/ /\ ~Satisfied(w, o.set)
        /\ Block(t, recv, Flag, "event_recv", w)
        /\ UNCHANGED o

event_recved(t) ==
  /\ Woken(t, "event_recv") /\ s.err[t] = "EOK"
  /\ Return(t, s)
  /\ UNCHANGED o

rt_event_control(t) ==
  /\ InUser(t)
  /\ s' = rt_schedule(ipc_list_resume_all(s, recv))
  /\ o' = [o EXCEPT !.set = {}]
  /\ UNCHANGED th

EventStep(t) ==
  \/ \E set \in (SUBSET Flags) \ {{}} : rt_event_send(t, set)
  \/ \E w \in Wants : rt_event_recv(t, w)
  \/ event_recved(t) \/ Fails(t, "event_recv") \/ rt_event_control(t)

----------------------------------------------------------------------------
(* Mailbox: a ring of MbSize words.  FIFO is what it should hold.  What    *)
(* is left in a word that was taken out is not kept.                       *)
MbObject == [pool |-> [i \in 0 .. MbSize - 1 |-> Nil], in |-> 0, out |-> 0,
             entry |-> 0, FIFO |-> <<>>]
MbNext(i) == IF i + 1 >= MbSize THEN 0 ELSE i + 1
\* Mutant of MbPrev: an urgent message at the start of the ring does not wrap.
MbPrevUnwrapped(i) == IF i > 0 THEN i - 1 ELSE i
MbPrev(i) == IF i > 0 THEN i - 1 ELSE MbSize - 1

rt_mb_send(t, msg) ==
  /\ Looks(t, "mb_send", msg)
  /\ \/ /\ o.entry < MbSize
        /\ o' = [o EXCEPT !.pool[o.in] = msg, !.in = MbNext(@), !.entry = @ + 1,
                          !.FIFO = Append(@, msg)]
        /\ Return(t, Wake(recv))
     \/ /\ o.entry = MbSize
        /\ Block(t, send, Flag, "mb_send", msg)
        /\ UNCHANGED o
     \/ /\ o.entry = MbSize /\ Woken(t, "mb_send")
        /\ Return(t, s)
        /\ UNCHANGED o

rt_mb_urgent(t, msg) ==
  /\ InUser(t) /\ o.entry < MbSize
  /\ o' = [o EXCEPT !.pool[MbPrev(o.out)] = msg, !.out = MbPrev(@), !.entry = @ + 1,
                    !.FIFO = <<msg>> \o @]
  /\ s' = Wake(recv)
  /\ UNCHANGED th

\* Mutant of rt_mb_recv: a sender is woken only if the mailbox was full.
rt_mb_recvWakesWhenFull(t) ==
  /\ Looks(t, "mb_recv", "none")
  /\ \/ /\ o.entry > 0
        /\ o' = [o EXCEPT !.pool[o.out] = Nil, !.out = MbNext(@), !.entry = @ - 1,
                          !.FIFO = Tail(@)]
        /\ Return(t, IF o.entry = MbSize THEN Wake(send) ELSE s)
     \/ /\ o.entry = 0
        /\ Block(t, recv, Flag, "mb_recv", "none")
        /\ UNCHANGED o
     \/ /\ o.entry = 0 /\ Woken(t, "mb_recv")
        /\ Return(t, s)
        /\ UNCHANGED o

rt_mb_recv(t) ==
  /\ Looks(t, "mb_recv", "none")
  /\ \/ /\ o.entry > 0
        /\ o' = [o EXCEPT !.pool[o.out] = Nil, !.out = MbNext(@), !.entry = @ - 1,
                          !.FIFO = Tail(@)]
        /\ Return(t, Wake(send))
     \/ /\ o.entry = 0
        /\ Block(t, recv, Flag, "mb_recv", "none")
        /\ UNCHANGED o
     \/ /\ o.entry = 0 /\ Woken(t, "mb_recv")
        /\ Return(t, s)
        /\ UNCHANGED o

rt_mb_control(t) ==
  /\ InUser(t)
  /\ s' = rt_schedule(ipc_list_resume_all(ipc_list_resume_all(s, recv), send))
  /\ o' = MbObject
  /\ UNCHANGED th

MbStep(t) ==
  \/ \E msg \in Msgs : rt_mb_send(t, msg) \/ rt_mb_urgent(t, msg)
  \/ rt_mb_recv(t)
  \/ Fails(t, "mb_send") \/ Fails(t, "mb_recv") \/ rt_mb_control(t)

----------------------------------------------------------------------------
(* Message queue: blocks linked from head to tail, the free ones from      *)
(* free.  A block is taken off its list in one critical section and linked *)
(* into the other list in a second; the copy between them is done with     *)
(* interrupts enabled, on a block that only the caller knows ("copy").     *)
(* What is left in a free block is not kept.                               *)
MqObject ==
  LET order == SetToSeq(Blocks)
  IN [head |-> Nil, tail |-> Nil, entry |-> 0,
      free |-> order[1],
      next |-> [b \in Blocks |-> LET i == SelectInSeq(order, LAMBDA c : c = b)
                                 IN IF i < Len(order) THEN order[i + 1] ELSE Nil],
      data |-> [b \in Blocks |-> Nil],
      mine |-> [t \in Threads |-> Nil], FIFO |-> <<>>]

\* Mutant of TakesBlock: the block stays in the free list during the copy.
TakesBlockLate(t, op, msg) ==
  /\ o.free # Nil
  /\ o' = [o EXCEPT !.mine[t] = o.free]
  /\ th' = [th EXCEPT ![t] = [pc |-> "copy", op |-> op, arg |-> msg]]
  /\ UNCHANGED s

\* Takes the first free block; the copy and the link are mq_link.
TakesBlock(t, op, msg) ==
  /\ o.free # Nil
  /\ o' = [o EXCEPT !.free = o.next[@], !.next[o.free] = Nil, !.mine[t] = o.free]
  /\ th' = [th EXCEPT ![t] = [pc |-> "copy", op |-> op, arg |-> msg]]
  /\ UNCHANGED s

rt_mq_send(t, msg) ==
  /\ Looks(t, "mq_send", msg)
  /\ \/ TakesBlock(t, "mq_send", msg)
     \/ /\ o.free = Nil
        /\ Block(t, send, Flag, "mq_send", msg)
        /\ UNCHANGED o
     \/ /\ o.free = Nil /\ Woken(t, "mq_send")
        /\ Return(t, s)
        /\ UNCHANGED o

mq_link(t) ==
  /\ Runs(t) /\ th[t].pc = "copy" /\ th[t].op = "mq_send"
  /\ LET b == o.mine[t]
         linked == IF o.tail # Nil THEN [o.next EXCEPT ![o.tail] = b] ELSE o.next
     IN o' = [o EXCEPT !.next = linked, !.data[b] = th[t].arg, !.tail = b,
                       !.head = IF @ = Nil THEN b ELSE @, !.entry = @ + 1,
                       !.mine[t] = Nil, !.FIFO = Append(@, th[t].arg)]
  /\ Return(t, Wake(recv))

rt_mq_urgent(t, msg) == InUser(t) /\ TakesBlock(t, "mq_urgent", msg)

mq_link_first(t) ==
  /\ Runs(t) /\ th[t].pc = "copy" /\ th[t].op = "mq_urgent"
  /\ LET b == o.mine[t]
     IN o' = [o EXCEPT !.next[b] = o.head, !.data[b] = th[t].arg, !.head = b,
                       !.tail = IF @ = Nil THEN b ELSE @, !.entry = @ + 1,
                       !.mine[t] = Nil, !.FIFO = <<th[t].arg>> \o @]
  /\ Return(t, Wake(recv))

rt_mq_recv(t) ==
  /\ Looks(t, "mq_recv", "none")
  /\ \/ /\ o.entry > 0
        /\ o' = [o EXCEPT !.head = o.next[@], !.tail = IF @ = o.head THEN Nil ELSE @,
                          !.entry = @ - 1, !.mine[t] = o.head, !.FIFO = Tail(@)]
        /\ th' = [th EXCEPT ![t] = [pc |-> "copy", op |-> "mq_recv", arg |-> Head(o.FIFO)]]
        /\ UNCHANGED s
     \/ /\ o.entry = 0
        /\ Block(t, recv, Flag, "mq_recv", "none")
        /\ UNCHANGED o
     \/ /\ o.entry = 0 /\ Woken(t, "mq_recv")
        /\ Return(t, s)
        /\ UNCHANGED o

mq_unlink(t) ==
  /\ Runs(t) /\ th[t].pc = "copy" /\ th[t].op = "mq_recv"
  /\ o' = [o EXCEPT !.next[o.mine[t]] = o.free, !.free = o.mine[t], !.mine[t] = Nil,
                    !.data[o.mine[t]] = Nil]
  /\ Return(t, Wake(send))

\* The blocks from p on, along next.
Chain(p) ==
  LET path[n \in 0 .. Cardinality(Blocks)] ==
        IF n = 0 THEN <<>>
        ELSE LET before == path[n - 1]
                 b == IF before = <<>> THEN p ELSE o.next[Last(before)]
             IN IF b = Nil THEN before ELSE Append(before, b)
  IN path[Cardinality(Blocks)]

\* Every queued message goes to the free list, one after the other.
rt_mq_control(t) ==
  /\ InUser(t)
  /\ s' = rt_schedule(ipc_list_resume_all(ipc_list_resume_all(s, recv), send))
  /\ LET release(acc, b) == [acc EXCEPT !.next[b] = acc.free, !.free = b, !.data[b] = Nil]
         end == FoldLeft(release, o, Chain(o.head))
     IN o' = [end EXCEPT !.head = Nil, !.tail = Nil, !.entry = 0, !.FIFO = <<>>]
  /\ UNCHANGED th

MqStep(t) ==
  \/ \E msg \in Msgs : rt_mq_send(t, msg) \/ rt_mq_urgent(t, msg)
  \/ rt_mq_recv(t)
  \/ mq_link(t) \/ mq_link_first(t) \/ mq_unlink(t)
  \/ Fails(t, "mq_send") \/ Fails(t, "mq_recv") \/ rt_mq_control(t)

----------------------------------------------------------------------------
(* Memory pool: a stack of free blocks and their count.  Its suspend list  *)
(* is a stack too; the error code is EOK while the thread waits.           *)
MpObject == [list |-> SetToSeq(Blocks), count |-> Cardinality(Blocks),
             HAS |-> [t \in Threads |-> {}]]

rt_mp_alloc(t) ==
  /\ Looks(t, "mp_alloc", "none")
  /\ \/ /\ o.count > 0
        /\ o' = [o EXCEPT !.count = @ - 1, !.list = Tail(@), !.HAS[t] = @ \cup {Head(o.list)}]
        /\ Return(t, s)
     \/ /\ o.count = 0
        /\ LET z == rt_thread_suspend([s EXCEPT !.err[t] = "EOK"], t)
           IN s' = StartTimer([z EXCEPT !.wait[recv] = <<t>> \o @], t)
        /\ th' = [th EXCEPT ![t] = [pc |-> "sched", op |-> "mp_alloc", arg |-> "none"]]
        /\ UNCHANGED o
     \/ /\ o.count = 0 /\ Woken(t, "mp_alloc")
        /\ Return(t, s)
        /\ UNCHANGED o

rt_mp_free(t, b) ==
  /\ InUser(t) /\ b \in o.HAS[t]
  /\ o' = [o EXCEPT !.count = @ + 1, !.list = <<b>> \o @, !.HAS[t] = @ \ {b}]
  /\ s' = Wake(recv)
  /\ UNCHANGED th

MpStep(t) ==
  \/ rt_mp_alloc(t)
  \/ Fails(t, "mp_alloc")
  \/ \E b \in Blocks : rt_mp_free(t, b)

----------------------------------------------------------------------------
IpcInit ==
  /\ ThreadInit
  /\ kind \in Kinds
  /\ o = CASE kind = "sem" -> SemObject
           [] kind = "event" -> EventObject
           [] kind = "mb" -> MbObject
           [] kind = "mq" -> MqObject
           [] kind = "mp" -> MpObject
           [] OTHER -> Nil

IpcStep ==
  /\ UNCHANGED kind
  /\ \E t \in Threads :
       \/ kind = "sem" /\ SemStep(t)
       \/ kind = "event" /\ EventStep(t)
       \/ kind = "mb" /\ MbStep(t)
       \/ kind = "mq" /\ MqStep(t)
       \/ kind = "mp" /\ MpStep(t)

IpcNext == IpcStep \/ (ThreadStep /\ UNCHANGED ipcVars)

----------------------------------------------------------------------------
(* Permits are neither lost nor made when a release meets a timeout: those *)
(* in the count, in the hands of threads and on the way to one are TOTAL.  *)
PermitsKept == kind = "sem" => o.value + InHands = o.TOTAL

(* Messages come out in the order they went in, urgent ones first, however *)
(* sends and receives wrapped around, waited and overlapped: the ring of a *)
(* mailbox and the linked list of a queue hold exactly the messages sent   *)
(* and not received.                                                       *)
Wrapped(i) == IF i >= MbSize THEN i - MbSize ELSE i
RingHoldsFifo ==
  /\ o.FIFO = [i \in 1 .. o.entry |-> o.pool[Wrapped(o.out + i - 1)]]
  /\ o.in = Wrapped(o.out + o.entry)
ListHoldsFifo ==
  LET queue == Chain(o.head)
  IN /\ o.FIFO = [i \in DOMAIN queue |-> o.data[queue[i]]]
     /\ o.entry = Len(queue)
     /\ o.tail = IF queue = <<>> THEN Nil ELSE Last(queue)
     /\ o.tail # Nil => o.next[o.tail] = Nil
MessagesInOrder ==
  /\ kind = "mb" => RingHoldsFifo
  /\ kind = "mq" => ListHoldsFifo

(* Every block is in one place: queued, free, or with the one thread that  *)
(* copies to or from it, so nobody else overwrites it during the copy.     *)
BlocksKept ==
  /\ kind = "mq" =>
       LET places == <<Members(Chain(o.head)), Members(Chain(o.free))>>
                     \o SetToSeq({{o.mine[t]} : t \in {t \in Threads : o.mine[t] # Nil}})
       IN /\ UNION Members(places) = Blocks
          /\ \A i, j \in DOMAIN places : i # j => places[i] \cap places[j] = {}
          /\ \A t, u \in Threads : t # u /\ o.mine[t] = o.mine[u] => o.mine[t] = Nil
          /\ \A t \in Threads : o.mine[t] # Nil /\ th[t].op = "mq_recv" =>
                                  o.data[o.mine[t]] = th[t].arg
  /\ kind = "mp" =>
       /\ o.count = Len(o.list)
       /\ \A b \in Blocks :
            Cardinality({i \in DOMAIN o.list : o.list[i] = b})
              + Cardinality({t \in Threads : b \in o.HAS[t]}) = 1

(* What a semaphore, a queue or a pool has to give is neither lost nor     *)
(* given twice.                                                            *)
NothingGivenTwice == PermitsKept /\ BlocksKept

(* No wake-up is lost.  Threads that were woken for a list and have not    *)
(* looked again are as many as there are things to be had, as long as      *)
(* somebody still waits in that list.                                      *)
WokenFor(op) == {t \in Threads : /\ th[t].op = op /\ th[t].pc \in {"sched", "woken"}
                                 /\ s.stat[t] # "suspend" /\ s.err[t] = "EOK"}
NothingToBeHad(l, op, n) == Waiting(l) => n <= Cardinality(WokenFor(op))
NoLostWakeup ==
  /\ kind = "sem" => NothingToBeHad(recv, "none", o.value)
  /\ kind = "event" => \A t \in Members(s.wait[recv]) : ~Satisfied(th[t].arg, o.set)
  /\ kind = "mb" => /\ NothingToBeHad(recv, "mb_recv", o.entry)
                    /\ NothingToBeHad(send, "mb_send", MbSize - o.entry)
  /\ kind = "mq" => /\ NothingToBeHad(recv, "mq_recv", o.entry)
                    /\ NothingToBeHad(send, "mq_send", Len(Chain(o.free)))
  /\ kind = "mp" => NothingToBeHad(recv, "mp_alloc", o.count)
=============================================================================
