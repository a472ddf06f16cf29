----------------------------- MODULE AdcCapture -----------------------------
(***************************************************************************)
(* One ADC capture after another: adc_translation (PS/src/adc_dma.c, run   *)
(* by main), the interrupt handler s2mm_handler that preempts it, and the  *)
(* parts they drive: the AXI DMA S2MM channel in simple mode, the packet   *)
(* counter of axis_tlast_gen.v, and the data cache over adc_buf.           *)
(*                                                                         *)
(* main and the handler share one CPU: a handler runs to its end before    *)
(* main goes on, but may start between any two steps of main.  The DMA     *)
(* moves between any two steps of either, and the CPU may load lines of    *)
(* adc_buf speculatively at any time.                                      *)
(*                                                                         *)
(* A word of the buffer is represented by its age: fresh if the capture in *)
(* progress wrote it, stale if an earlier one did or none.                 *)
(***************************************************************************)
EXTENDS Naturals

CONSTANTS
  Request,     \* words adc_translation asks for (SAMPLE_LEN)
  PktLen,      \* words between two TLASTs (PKT_LEN in build.tcl)
  FftLen,      \* samples get_fft transforms (FFT_SAMPLE_LEN)
  MaxErrors,   \* bound on errors the DMA reports by itself
  MaxSpurious  \* bound on interrupts without a cause

ASSUME CaptureAssumption ==
  /\ Request \in Nat \ {0} /\ PktLen \in Nat \ {0} /\ FftLen \in Nat \ {0}
  /\ PktLen <= Request
  /\ MaxErrors \in Nat /\ MaxSpurious \in Nat

VARIABLES
  pc,          \* where main is
  isr,         \* where s2mm_handler is, "off" when it is not running
  irq_status,  \* its local copy of the DMA's status bits
  rx_done, error,   \* fields of adc_inst
  irq_nest,    \* RT-Thread's interrupt nesting counter
  dma,         \* state of the S2MM channel
  sr,          \* its latched status bits
  irq_en,      \* whether it may raise its interrupt
  received,    \* words written by the current transfer
  cnt,         \* axis_tlast_gen's count within the packet
  mem,         \* adc_buf in DDR
  cache,       \* the CPU's copies of its lines
  volt,        \* the converted samples (sin_volt)
  errors, spurious  \* how often the bounded events happened

mainVars == <<pc, volt>>
isrVars == <<isr, irq_status, error, irq_nest>>
dmaVars == <<dma, sr, irq_en, received, cnt>>
dataVars == <<mem, cache>>
envVars == <<errors, spurious>>
vars == <<mainVars, isrVars, dmaVars, dataVars, envVars, rx_done>>

Words == 1 .. Request
Age == {"fresh", "stale"}
All(age) == [i \in Words |-> age]

TypeOK ==
  /\ pc \in {"idle", "start", "wait", "clear", "invalidate", "convert", "fft"}
  /\ isr \in {"off", "read", "error", "poll", "done", "ack", "leave"}
  /\ irq_status \subseteq {"ioc", "err"}
  /\ rx_done \in {0, 1} /\ error \in {0, 1} /\ irq_nest \in Nat
  /\ dma \in {"halted", "idle", "busy", "resetting"}
  /\ sr \subseteq {"ioc", "err"} /\ irq_en \in BOOLEAN
  /\ received \in 0 .. Request /\ cnt \in 0 .. PktLen - 1
  /\ mem \in [Words -> Age]
  /\ cache \in [Words -> Age \cup {"absent"}]
  /\ volt \in [Words -> Age]
  /\ errors \in 0 .. MaxErrors /\ spurious \in 0 .. MaxSpurious

\* The state adc_translation_init leaves: the DMA reset and halted, its
\* interrupts enabled.
Init ==
  /\ pc = "idle" /\ isr = "off" /\ irq_status = {}
  /\ rx_done = 0 /\ error = 0 /\ irq_nest = 0
  /\ dma = "halted" /\ sr = {} /\ irq_en = TRUE
  /\ received = 0 /\ cnt = 0
  /\ mem = All("stale") /\ cache = All("absent") /\ volt = All("stale")
  /\ errors = 0 /\ spurious = 0

-----------------------------------------------------------------------------
(* adc_translation, called by get_fft in every round of main's loop *)

\* The call and its first invalidation; a new capture makes all data old.
CallTranslation ==
  /\ isr = "off" /\ pc = "idle"
  /\ pc' = "start"
  /\ mem' = All("stale") /\ volt' = All("stale")
  /\ cache' = All("absent")
  /\ UNCHANGED <<isrVars, dmaVars, envVars, rx_done>>

\* XAxiDma_SimpleTransfer fails when a transfer is running; get_fft ignores
\* the failure and transforms what sin_volt holds.
StartTransfer ==
  /\ isr = "off" /\ pc = "start"
  /\ IF dma = "busy"
     THEN pc' = "fft" /\ UNCHANGED <<dma, received>>
     ELSE pc' = "wait" /\ dma' = "busy" /\ received' = 0
  /\ UNCHANGED <<volt, isrVars, sr, irq_en, cnt, dataVars, envVars, rx_done>>

\* The busy wait ends when it reads the flag set.
SeeDone ==
  /\ isr = "off" /\ pc = "wait" /\ rx_done = 1
  /\ pc' = "clear"
  /\ UNCHANGED <<volt, isrVars, dmaVars, dataVars, envVars, rx_done>>

\* Mutant of ClearDone: the flag is left set.
ClearDoneKept ==
  /\ isr = "off" /\ pc = "clear"
  /\ pc' = "invalidate"
  /\ UNCHANGED <<volt, isrVars, dmaVars, dataVars, envVars, rx_done>>

ClearDone ==
  /\ isr = "off" /\ pc = "clear"
  /\ pc' = "invalidate" /\ rx_done' = 0
  /\ UNCHANGED <<volt, isrVars, dmaVars, dataVars, envVars>>

\* Mutant of InvalidateAfter: the invalidation before the transfer is enough.
InvalidateAfterSkipped ==
  /\ isr = "off" /\ pc = "invalidate"
  /\ pc' = "convert"
  /\ UNCHANGED <<volt, isrVars, dmaVars, dataVars, envVars, rx_done>>

\* The second invalidation drops lines loaded while the DMA was writing.
InvalidateAfter ==
  /\ isr = "off" /\ pc = "invalidate"
  /\ pc' = "convert" /\ cache' = All("absent")
  /\ UNCHANGED <<volt, isrVars, dmaVars, mem, envVars, rx_done>>

CpuReads(i) == IF cache[i] = "absent" THEN mem[i] ELSE cache[i]

\* adc_volt converts the requested number of words.
Convert ==
  /\ isr = "off" /\ pc = "convert"
  /\ pc' = "fft"
  /\ volt' = [i \in Words |-> CpuReads(i)]
  /\ cache' = [i \in Words |-> CpuReads(i)]
  /\ UNCHANGED <<isrVars, dmaVars, mem, envVars, rx_done>>

\* get_fft transforms FftLen samples and returns.
Transform ==
  /\ isr = "off" /\ pc = "fft"
  /\ pc' = "idle"
  /\ UNCHANGED <<volt, isrVars, dmaVars, dataVars, envVars, rx_done>>

Main == CallTranslation \/ StartTransfer \/ SeeDone \/ ClearDone
          \/ InvalidateAfter \/ Convert \/ Transform

-----------------------------------------------------------------------------
(* s2mm_handler *)

\* Entry: rt_interrupt_enter, then the DMA's interrupts are disabled.
EnterHandler ==
  /\ isr = "off"
  /\ isr' = "read" /\ irq_nest' = irq_nest + 1 /\ irq_en' = FALSE
  /\ UNCHANGED <<mainVars, irq_status, error, dma, sr, received, cnt,
                 dataVars, rx_done>>

TakeInterrupt == irq_en /\ sr # {} /\ EnterHandler /\ UNCHANGED envVars

SpuriousInterrupt ==
  /\ spurious < MaxSpurious /\ sr = {}
  /\ EnterHandler
  /\ spurious' = spurious + 1
  /\ UNCHANGED errors

\* Without a status bit the handler returns at once: it neither enables the
\* DMA's interrupts again nor calls rt_interrupt_leave.
ReadStatus ==
  /\ isr = "read"
  /\ irq_status' = sr
  /\ isr' = IF sr = {} THEN "off" ELSE "error"
  /\ UNCHANGED <<mainVars, error, irq_nest, dmaVars, dataVars, envVars, rx_done>>

\* An error is noted and the DMA reset.  rx_done stays 0.
HandleError ==
  /\ isr = "error"
  /\ IF "err" \in irq_status
     THEN isr' = "poll" /\ error' = 1 /\ dma' = "resetting"
     ELSE isr' = "done" /\ UNCHANGED <<error, dma>>
  /\ UNCHANGED <<mainVars, irq_status, irq_nest, sr, irq_en, received, cnt,
                 dataVars, envVars, rx_done>>

\* The polling loop ends with the reset or after RESET_TIMEOUT polls.
PollReset ==
  /\ isr = "poll"
  /\ isr' = "done"
  /\ UNCHANGED <<mainVars, irq_status, error, irq_nest, dmaVars, dataVars,
                 envVars, rx_done>>

HandleDone ==
  /\ isr = "done"
  /\ isr' = "ack"
  /\ rx_done' = IF "ioc" \in irq_status THEN 1 ELSE rx_done
  /\ UNCHANGED <<mainVars, irq_status, error, irq_nest, dmaVars, dataVars, envVars>>

\* Mutant of AckInterrupt: the status bits are not acknowledged.
AckInterruptMissing ==
  /\ isr = "ack"
  /\ isr' = "leave"
  /\ UNCHANGED <<mainVars, irq_status, error, irq_nest, dmaVars, dataVars,
                 envVars, rx_done>>

AckInterrupt ==
  /\ isr = "ack"
  /\ isr' = "leave" /\ sr' = sr \ irq_status
  /\ UNCHANGED <<mainVars, irq_status, error, irq_nest, dma, irq_en, received,
                 cnt, dataVars, envVars, rx_done>>

\* Mutant of LeaveHandler: the DMA's interrupts stay disabled.
LeaveHandlerDisabled ==
  /\ isr = "leave"
  /\ isr' = "off" /\ irq_nest' = irq_nest - 1
  /\ UNCHANGED <<mainVars, irq_status, error, dma, sr, irq_en, received, cnt,
                 dataVars, envVars, rx_done>>

LeaveHandler ==
  /\ isr = "leave"
  /\ isr' = "off" /\ irq_en' = TRUE /\ irq_nest' = irq_nest - 1
  /\ UNCHANGED <<mainVars, irq_status, error, dma, sr, received, cnt,
                 dataVars, envVars, rx_done>>

Handler == ReadStatus \/ HandleError \/ PollReset \/ HandleDone
             \/ AckInterrupt \/ LeaveHandler

-----------------------------------------------------------------------------
(* The hardware *)

TLast == cnt = PktLen - 1

\* Mutant of ReceiveWord: the count restarts with a word already in it.
ReceiveWordRestartsAtOne ==
  /\ dma = "busy"
  /\ received < Request
  /\ mem' = [mem EXCEPT ![received + 1] = "fresh"]
  /\ received' = received + 1
  /\ cnt' = IF TLast THEN 1 ELSE cnt + 1
  /\ IF TLast
     THEN dma' = "idle" /\ sr' = sr \cup {"ioc"}
     ELSE IF received + 1 = Request
          THEN dma' = "halted" /\ sr' = sr \cup {"err"}
          ELSE UNCHANGED <<dma, sr>>
  /\ UNCHANGED <<mainVars, isrVars, irq_en, cache, envVars, rx_done>>

\* A word reaches the DMA, which writes it to DDR.  TLAST ends the transfer;
\* a buffer full before TLAST is an error.
ReceiveWord ==
  /\ dma = "busy"
  /\ received < Request
  /\ mem' = [mem EXCEPT ![received + 1] = "fresh"]
  /\ received' = received + 1
  /\ cnt' = IF TLast THEN 0 ELSE cnt + 1
  /\ IF TLast
     THEN dma' = "idle" /\ sr' = sr \cup {"ioc"}
     ELSE IF received + 1 = Request
          THEN dma' = "halted" /\ sr' = sr \cup {"err"}
          ELSE UNCHANGED <<dma, sr>>
  /\ UNCHANGED <<mainVars, isrVars, irq_en, cache, envVars, rx_done>>

\* The DMA stops with an error of its own (slave, decode or internal).
DmaError ==
  /\ dma = "busy" /\ errors < MaxErrors
  /\ dma' = "halted" /\ sr' = sr \cup {"err"}
  /\ errors' = errors + 1
  /\ UNCHANGED <<mainVars, isrVars, irq_en, received, cnt, dataVars, spurious,
                 rx_done>>

\* A reset ends: every register is back at its reset value.
ResetDone ==
  /\ dma = "resetting"
  /\ dma' = "halted" /\ sr' = {} /\ irq_en' = FALSE /\ received' = 0
  /\ UNCHANGED <<mainVars, isrVars, cnt, dataVars, envVars, rx_done>>

\* The CPU loads a line of adc_buf it has not been asked for.
SpeculativeLoad(i) ==
  /\ cache[i] = "absent"
  /\ cache' = [cache EXCEPT ![i] = mem[i]]
  /\ UNCHANGED <<mainVars, isrVars, dmaVars, mem, envVars, rx_done>>

-----------------------------------------------------------------------------
Next ==
  \/ CallTranslation \/ StartTransfer \/ SeeDone \/ ClearDone
  \/ InvalidateAfter \/ Convert \/ Transform
  \/ TakeInterrupt \/ SpuriousInterrupt
  \/ ReadStatus \/ HandleError \/ PollReset \/ HandleDone
  \/ AckInterrupt \/ LeaveHandler
  \/ ReceiveWord \/ DmaError \/ ResetDone
  \/ \E i \in Words : SpeculativeLoad(i)

Spec == Init /\ [][Next]_vars

\* The CPU runs main and the handler, the ADC never stops sampling, a pending
\* interrupt is taken and a reset ends.  Nothing forces an error.
FairSpec ==
  /\ Spec
  /\ WF_vars(Main) /\ WF_vars(Handler) /\ WF_vars(TakeInterrupt)
  /\ WF_vars(ReceiveWord) /\ WF_vars(ResetDone)

-----------------------------------------------------------------------------
(* Properties *)

\* When adc_translation acts on rx_done, the flag is that of its own transfer:
\* the DMA has finished, and no flag is left to end the next wait early.
DoneMeansFinished ==
  /\ rx_done = 1 => pc \in {"wait", "clear"}
  /\ rx_done = 1 \/ pc \in {"clear", "invalidate", "convert"} => dma # "busy"

\* Every sample get_fft transforms was written by this capture: the DMA has
\* filled the buffer, no line cached before or during the transfer hides it,
\* and the conversion covers the whole transform.
FreshSamples ==
  pc = "fft" => FftLen <= Request /\ \A i \in 1 .. FftLen : volt[i] = "fresh"

\* A transfer starts on a packet boundary and follows it, so a capture is
\* never the tail of one packet.
PacketAligned == dma = "busy" => cnt = received

\* Outside the handler interrupts are as it found them: the nesting counter
\* is back at 0 and, until the DMA is reset after an error, it may interrupt.
HandlerLeavesNoTrace ==
  isr = "off" /\ spurious = 0 =>
    irq_nest = 0 /\ (irq_en \/ dma = "resetting" \/ error = 1)

\* While no spurious interrupt comes, a capture that has begun ends, or an
\* error is noted that main could act on: no completion is ever missed.
CaptureReturns ==
  [](spurious = 0) => (pc = "start" ~> pc = "fft" \/ error = 1)

=============================================================================
