----------------------------- MODULE TjcScreen -----------------------------
(***************************************************************************)
(* Commands from the touch screen (PS/src/tjc_screen.c): the UART handler  *)
(* sceen_handler appends bytes to recv_buf and notes in recv_end that the  *)
(* line fell silent; main calls package_process once a round and executes  *)
(* the package at the start of the buffer.  A round takes far longer than  *)
(* a package, so any number of packages may come in one.                   *)
(*                                                                         *)
(* The handler preempts main but not the UART: bytes arrive between any    *)
(* two of its steps.  A byte takes 87 us at 115200 Bd, so no two arrive    *)
(* between the handler's last look at the FIFO and its next write, and the *)
(* bytes of a package follow each other within the receive timeout of 16   *)
(* bit times.                                                              *)
(***************************************************************************)
EXTENDS Naturals, Sequences

CONSTANTS
  BufSize,     \* SCREEN_BUF_SIZE
  Backlog,     \* bound on the bytes that wait in the FIFO, for a handler that is late
  LastPhase,   \* 359
  Package,     \* the commands, pairs of a flag and a datum
  None, Done   \* values of alone that are no packages

ASSUME ScreenAssumption ==
  /\ BufSize \in Nat /\ BufSize >= 4 /\ Backlog \in Nat \ {0}
  /\ LastPhase \in Nat \ {0}
  /\ Package \subseteq Nat \X Nat
  /\ None \notin Package /\ Done \notin Package /\ None # Done

VARIABLES
  line,        \* bytes of the package being sent that have still to arrive
  fifo,        \* bytes received and not read
  rxovr, tout, \* latched interrupts: byte received, line silent
  armed,       \* a byte came since the last timeout
  recv_buf,    \* its first four bytes, all that is ever read
  recv_ptr, recv_end,
  isr,         \* where the handler is
  pc,          \* where main is
  got,         \* bytes of the buffer package_process has read
  phase, ab_phase, work_mode,
  alone        \* history, see Quiet

uartVars == <<line, fifo, rxovr, tout, armed>>
recvVars == <<recv_buf, recv_ptr, recv_end>>
cmdVars == <<phase, ab_phase, work_mode>>
screenVars == <<uartVars, recvVars, isr, pc, got, cmdVars, alone>>

Header == <<85, 170>>
Bytes == {0} \cup {Header[i] : i \in 1 .. 2} \cup UNION {{p[1], p[2]} : p \in Package}

ScreenInit ==
  /\ line = <<>> /\ fifo = <<>> /\ rxovr = FALSE /\ tout = FALSE /\ armed = FALSE
  /\ recv_buf = [i \in 0 .. 3 |-> 0] /\ recv_ptr = 0 /\ recv_end = 0
  /\ isr = "idle" /\ pc = "work" /\ got = <<>>
  /\ phase = 0 /\ ab_phase = 0 /\ work_mode = 0
  /\ alone = None

-----------------------------------------------------------------------------
(* The screen and the UART *)

\* No byte is on the line, no interrupt or silence to come, no end to be seen.
Idle ==
  /\ line = <<>> /\ ~rxovr /\ ~tout /\ ~armed /\ isr = "idle"
  /\ recv_end = 0 /\ pc \in {"work", "check"}

\* Nothing received is under way or left over.  A package that begins now is
\* "alone" until it is executed, unless another one begins before that.
Quiet == Idle /\ fifo = <<>>

\* The screen begins to send a package.  The bound: it does not send more in a
\* round than recv_buf holds, which nothing checks.
BeginPackage(p) ==
  /\ line = <<>>
  /\ recv_ptr + Len(fifo) + 4 <= BufSize
  /\ line' = Header \o p
  /\ alone' = IF Quiet THEN p ELSE None
  /\ UNCHANGED <<fifo, rxovr, tout, armed, recvVars, isr, pc, got, cmdVars>>

ByteArrives ==
  /\ line # <<>> /\ Len(fifo) < Backlog
  /\ isr = "clear" => fifo = <<>>
  /\ fifo' = Append(fifo, Head(line))
  /\ line' = Tail(line)
  /\ rxovr' = TRUE /\ armed' = TRUE
  /\ UNCHANGED <<tout, recvVars, isr, pc, got, cmdVars, alone>>

LineSilent ==
  /\ line = <<>> /\ armed
  /\ tout' = TRUE /\ armed' = FALSE
  /\ UNCHANGED <<line, fifo, rxovr, recvVars, isr, pc, got, cmdVars, alone>>

(* sceen_handler *)

\* The interrupts are read once; a byte comes before the end of a package.
Enter ==
  /\ isr = "idle" /\ (rxovr \/ tout)
  /\ isr' = IF rxovr THEN "drain" ELSE "end"
  /\ UNCHANGED <<uartVars, recvVars, pc, got, cmdVars, alone>>

\* As long as there are bytes in the FIFO they are appended.
Drain ==
  /\ isr = "drain" /\ fifo # <<>>
  /\ recv_buf' = [i \in DOMAIN recv_buf |-> IF i = recv_ptr THEN Head(fifo) ELSE recv_buf[i]]
  /\ recv_ptr' = recv_ptr + 1 /\ fifo' = Tail(fifo)
  /\ UNCHANGED <<line, rxovr, tout, armed, recv_end, isr, pc, got, cmdVars, alone>>

\* The FIFO is seen to be empty.
Drained ==
  /\ isr = "drain" /\ fifo = <<>>
  /\ isr' = "clear"
  /\ UNCHANGED <<uartVars, recvVars, pc, got, cmdVars, alone>>

\* Mutant of Clear: all interrupts are cleared.
ClearAll ==
  /\ isr = "clear"
  /\ isr' = "idle" /\ rxovr' = FALSE /\ tout' = FALSE
  /\ UNCHANGED <<line, fifo, armed, recvVars, pc, got, cmdVars, alone>>

\* Only then is the interrupt cleared, that of a byte come meanwhile as well.
\* The code does not say whether a FIFO that is not empty raises it again, so
\* both may be: if not, the byte is left over, to be read with the next one.
Clear ==
  /\ isr = "clear"
  /\ isr' = "idle" /\ rxovr' \in {FALSE, fifo # <<>>}
  /\ UNCHANGED <<line, fifo, tout, armed, recvVars, pc, got, cmdVars, alone>>

\* The end of a package, if no byte waited (the handler's else).
Timeout ==
  /\ isr = "end"
  /\ isr' = "idle" /\ tout' = FALSE /\ recv_end' = 1
  /\ UNCHANGED <<line, fifo, rxovr, armed, recv_buf, recv_ptr, pc, got, cmdVars, alone>>

-----------------------------------------------------------------------------
(* package_process and the rest of main's loop *)

\* main goes on when the handler has returned and no interrupt waits: while one
\* does, another handler has the CPU.
Runs(p) == pc = p /\ isr = "idle" /\ ~rxovr /\ ~tout

\* Capture, FFT, identification and output take their time.
Work ==
  /\ Runs("work")
  /\ pc' = "check"
  /\ UNCHANGED <<uartVars, recvVars, isr, got, cmdVars, alone>>

\* Mutant of CheckEnd: the flag is left set.
CheckEndKept ==
  /\ Runs("check")
  /\ pc' = IF recv_end # 0 THEN "ptr" ELSE "work"
  /\ UNCHANGED <<uartVars, recvVars, isr, got, cmdVars, alone>>

CheckEnd ==
  /\ Runs("check")
  /\ IF recv_end # 0 THEN pc' = "ptr" /\ recv_end' = 0
                     ELSE pc' = "work" /\ UNCHANGED recv_end
  /\ UNCHANGED <<uartVars, recv_buf, recv_ptr, isr, got, cmdVars, alone>>

\* Mutant of ResetPtr: only a buffer that begins with the header is dropped.
ResetPtrOfPackage ==
  /\ Runs("ptr")
  /\ pc' = "read" /\ got' = <<>>
  /\ recv_ptr' = IF recv_buf[0] = 85 THEN 0 ELSE recv_ptr
  /\ UNCHANGED <<uartVars, recv_buf, recv_end, isr, cmdVars, alone>>

ResetPtr ==
  /\ Runs("ptr")
  /\ pc' = "read" /\ recv_ptr' = 0 /\ got' = <<>>
  /\ UNCHANGED <<uartVars, recv_buf, recv_end, isr, cmdVars, alone>>

\* The header, the flag and the datum are read one after the other; a wrong
\* header ends the call.
ReadByte ==
  /\ Runs("read")
  /\ IF Len(got) < 2 /\ recv_buf[Len(got)] # Header[Len(got) + 1]
     THEN pc' = "work" /\ got' = <<>>
     ELSE /\ got' = Append(got, recv_buf[Len(got)])
          /\ pc' = IF Len(got') = 4 THEN "execute" ELSE "read"
  /\ UNCHANGED <<uartVars, recvVars, isr, cmdVars, alone>>

Stepped(data) ==
  CASE data = 2 -> IF phase <= 0 THEN LastPhase ELSE phase - 1
    [] data = 1 -> IF phase >= LastPhase THEN 0 ELSE phase + 1
    [] OTHER -> phase

slipper_process(data) ==
  /\ phase' = Stepped(data)
  /\ IF data = 3 THEN ab_phase' = phase /\ work_mode' = 1
                 ELSE UNCHANGED <<ab_phase, work_mode>>

work_change(data) ==
  /\ work_mode' = IF data = 1 THEN 0 ELSE 1
  /\ UNCHANGED <<phase, ab_phase>>

Execute ==
  /\ Runs("execute")
  /\ CASE got[3] = 1 -> slipper_process(got[4])
       [] got[3] = 2 -> work_change(got[4])
       [] OTHER -> UNCHANGED cmdVars
  /\ pc' = "work" /\ got' = <<>>
  /\ alone' = IF alone \in Package THEN Done ELSE alone
  /\ UNCHANGED <<uartVars, recvVars, isr>>

-----------------------------------------------------------------------------
Uart == ByteArrives \/ LineSilent
Handler == Enter \/ Drain \/ Drained \/ Clear \/ Timeout
Main == Work \/ CheckEnd \/ ResetPtr \/ ReadByte \/ Execute

ScreenNext ==
  \/ \E p \in Package : BeginPackage(p)
  \/ ByteArrives \/ LineSilent
  \/ Enter \/ Drain \/ Drained \/ Clear \/ Timeout
  \/ Work \/ CheckEnd \/ ResetPtr \/ ReadByte \/ Execute

ScreenSpec == ScreenInit /\ [][ScreenNext]_screenVars

\* A package once begun is sent to its end and followed by silence or another
\* one; interrupts are taken; main goes round.  Nobody need touch the screen.
ScreenFairSpec ==
  /\ ScreenSpec
  /\ WF_screenVars(Uart) /\ WF_screenVars(Handler) /\ WF_screenVars(Main)

-----------------------------------------------------------------------------
(* Properties *)

\* Whatever burst went before, once all is idle the buffer is back at its
\* start, and at most one byte is left over in the FIFO: a burst may be lost,
\* and a package that finds such a byte, but never more.
Resynchronises == Idle => recv_ptr = 0 /\ Len(fifo) <= 1

\* A package that comes alone is executed only once and as it was sent, but for
\* the last byte if that one is left over: then the buffer still has an old one.
AloneExecutedOnce ==
  pc = "execute" =>
    /\ alone # Done
    /\ alone \in Package =>
         /\ \A i \in 1 .. 3 : got[i] = (Header \o alone)[i]
         /\ got[4] = alone[2] \/ fifo = <<alone[2]>>

\* A package that comes alone is executed, unless the screen goes on.
AloneIsExecuted == alone \in Package ~> alone \notin Package
=============================================================================
