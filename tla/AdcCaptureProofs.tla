-------------------------- MODULE AdcCaptureProofs --------------------------
(***************************************************************************)
(* Proofs about adc_translation and s2mm_handler for every buffer length,  *)
(* packet length and number of errors and spurious interrupts.             *)
(*                                                                         *)
(* Control: a running transfer has not raised a status bit yet, so outside *)
(* its wait main finds no status bit, no flag and no handler working on    *)
(* one; rx_done can then only be that of the transfer being waited for.    *)
(* Data: an IOC status, wherever it has got to (sr, irq_status, rx_done),  *)
(* means that the first PktLen words of the buffer are fresh.              *)
(* Trace: as long as no interrupt is spurious, the handler always finds a  *)
(* status bit, because a DMA that is being reset has none left.            *)
(***************************************************************************)
EXTENDS AdcCapture, TLAPS

Packet == 1 .. PktLen

\* Where the completion of a transfer has got to.
IocUnderWay ==
  \/ "ioc" \in sr
  \/ isr \in {"error", "poll", "done"} /\ "ioc" \in irq_status
  \/ rx_done = 1

ControlInv ==
  /\ dma = "busy" =>
       pc = "wait" /\ rx_done = 0 /\ sr = {} /\ isr \in {"off", "read"}
  /\ pc # "wait" => sr = {} /\ isr \in {"off", "read"}
  /\ rx_done = 1 =>
       /\ pc \in {"wait", "clear"}
       /\ isr \in {"off", "read", "ack", "leave"}
       /\ isr # "ack" => sr = {}
  /\ isr \in {"error", "poll", "done", "ack"} => sr \subseteq irq_status
  /\ isr = "leave" => sr = {}
  /\ isr # "off" => irq_nest > 0

DataInv ==
  /\ dma = "busy" =>
       /\ cnt = received
       /\ \A i \in 1 .. received : mem[i] = "fresh"
  /\ pc # "wait" \/ IocUnderWay => cnt = 0
  /\ IocUnderWay \/ pc \in {"clear", "invalidate", "convert"} =>
       \A i \in Packet : mem[i] = "fresh"
  /\ pc = "convert" => \A i \in Packet : cache[i] # "stale"
  /\ pc = "fft" => \A i \in Packet : volt[i] = "fresh"

TraceInv ==
  /\ dma = "resetting" => error = 1
  /\ spurious = 0 =>
       /\ irq_nest = IF isr = "off" THEN 0 ELSE 1
       /\ isr = "read" => sr # {}
       /\ dma = "resetting" => isr # "read" /\ (isr = "off" => sr = {})
       /\ isr = "off" => irq_en \/ error = 1

IInv == TypeOK /\ ControlInv /\ DataInv /\ TraceInv

-----------------------------------------------------------------------------
(* The inductive invariant: one step per action. *)

LEMMA InitIInv == Init => IInv
  BY CaptureAssumption
     DEF Init, IInv, TypeOK, ControlInv, DataInv, TraceInv, IocUnderWay, Words, All, Age,
         Packet

\* Types: the counters stay in their ranges, and a handler that leaves has entered.
LEMMA TypeStep ==
  ASSUME TypeOK, ControlInv, [Next]_vars
  PROVE  TypeOK'
<1> USE CaptureAssumption DEF TypeOK, ControlInv, mainVars, isrVars, dmaVars,
        dataVars, envVars, Words, Age, All
<1>1. CASE CallTranslation
  BY <1>1 DEF CallTranslation
<1>2. CASE StartTransfer
  BY <1>2 DEF StartTransfer
<1>3. CASE SeeDone
  BY <1>3 DEF SeeDone
<1>4. CASE ClearDone
  BY <1>4 DEF ClearDone
<1>5. CASE InvalidateAfter
  BY <1>5 DEF InvalidateAfter
<1>6. CASE Convert
  BY <1>6 DEF Convert, CpuReads
<1>7. CASE Transform
  BY <1>7 DEF Transform
<1>8. CASE TakeInterrupt
  <2>1. irq_nest' \in Nat /\ irq_nest' > 0
    BY <1>8 DEF TakeInterrupt, EnterHandler
  <2> QED
    BY <1>8, <2>1 DEF TakeInterrupt, EnterHandler
<1>9. CASE SpuriousInterrupt
  <2>1. irq_nest' \in Nat /\ spurious' \in 0 .. MaxSpurious
    BY <1>9 DEF SpuriousInterrupt, EnterHandler
  <2> QED
    BY <1>9, <2>1 DEF SpuriousInterrupt, EnterHandler
<1>10. CASE ReadStatus
  BY <1>10 DEF ReadStatus
<1>11. CASE HandleError
  BY <1>11 DEF HandleError
<1>12. CASE PollReset
  BY <1>12 DEF PollReset
<1>13. CASE HandleDone
  BY <1>13 DEF HandleDone
<1>14. CASE AckInterrupt
  BY <1>14 DEF AckInterrupt
<1>15. CASE LeaveHandler
  BY <1>15 DEF LeaveHandler
<1>16. CASE ReceiveWord
  <2>1. received' \in 0 .. Request /\ cnt' \in 0 .. PktLen - 1
    BY <1>16 DEF ReceiveWord, TLast
  <2>2. mem' \in [Words -> Age]
    BY <1>16 DEF ReceiveWord
  <2>3. /\ dma' \in {"halted", "idle", "busy", "resetting"}
        /\ sr' \subseteq {"ioc", "err"}
    BY <1>16 DEF ReceiveWord
  <2> QED
    BY <1>16, <2>1, <2>2, <2>3 DEF ReceiveWord
<1>17. CASE DmaError
  BY <1>17 DEF DmaError
<1>18. CASE ResetDone
  <2>1. received' \in 0 .. Request
    BY <1>18 DEF ResetDone
  <2>2. irq_en' \in BOOLEAN
    BY <1>18, Zenon DEF ResetDone
  <2>3. dma' = "halted" /\ sr' = {}
    BY <1>18 DEF ResetDone
  <2> QED
    BY <1>18, <2>1, <2>2, <2>3 DEF ResetDone
<1>19. ASSUME NEW i \in Words, SpeculativeLoad(i) PROVE TypeOK'
  BY <1>19 DEF SpeculativeLoad
<1>20. CASE UNCHANGED vars
  BY <1>20 DEF vars
<1> QED
  BY <1>1, <1>2, <1>3, <1>4, <1>5, <1>6, <1>7, <1>8, <1>9, <1>10,
     <1>11, <1>12, <1>13, <1>14, <1>15, <1>16, <1>17, <1>18, <1>19, <1>20
     DEF Next

\* Control: status bits, handler and flag advance together.
LEMMA ControlStep ==
  ASSUME TypeOK, ControlInv, [Next]_vars
  PROVE  ControlInv'
<1> USE CaptureAssumption DEF TypeOK, ControlInv, mainVars, isrVars, dmaVars,
        dataVars, envVars, Words
<1>1. CASE CallTranslation
  BY <1>1 DEF CallTranslation
<1>2. CASE StartTransfer
  BY <1>2 DEF StartTransfer
<1>3. CASE SeeDone
  BY <1>3 DEF SeeDone
<1>4. CASE ClearDone
  BY <1>4 DEF ClearDone
<1>5. CASE InvalidateAfter
  BY <1>5 DEF InvalidateAfter
<1>6. CASE Convert
  BY <1>6 DEF Convert, CpuReads
<1>7. CASE Transform
  BY <1>7 DEF Transform
<1>8. CASE TakeInterrupt
  BY <1>8 DEF TakeInterrupt, EnterHandler
<1>9. CASE SpuriousInterrupt
  BY <1>9 DEF SpuriousInterrupt, EnterHandler
<1>10. CASE ReadStatus
  BY <1>10 DEF ReadStatus
<1>11. CASE HandleError
  BY <1>11 DEF HandleError
<1>12. CASE PollReset
  BY <1>12 DEF PollReset
<1>13. CASE HandleDone
  BY <1>13 DEF HandleDone
<1>14. CASE AckInterrupt
  BY <1>14 DEF AckInterrupt
<1>15. CASE LeaveHandler
  BY <1>15 DEF LeaveHandler
<1>16. CASE ReceiveWord
  <2>1. /\ pc' = "wait" /\ rx_done' = 0 /\ isr' \in {"off", "read"}
        /\ isr' = isr /\ irq_nest' = irq_nest
    BY <1>16 DEF ReceiveWord
  <2>2. dma' = "busy" => sr' = {}
    BY <1>16 DEF ReceiveWord
  <2> QED
    BY <2>1, <2>2
<1>17. CASE DmaError
  BY <1>17 DEF DmaError
<1>18. CASE ResetDone
  BY <1>18 DEF ResetDone
<1>19. ASSUME NEW i \in Words, SpeculativeLoad(i) PROVE ControlInv'
  BY <1>19 DEF SpeculativeLoad
<1>20. CASE UNCHANGED vars
  BY <1>20 DEF vars
<1> QED
  BY <1>1, <1>2, <1>3, <1>4, <1>5, <1>6, <1>7, <1>8, <1>9, <1>10,
     <1>11, <1>12, <1>13, <1>14, <1>15, <1>16, <1>17, <1>18, <1>19, <1>20
     DEF Next

\* Data: what an IOC status stands for.
LEMMA DataStep ==
  ASSUME TypeOK, ControlInv, DataInv, [Next]_vars
  PROVE  DataInv'
<1> USE CaptureAssumption DEF TypeOK, ControlInv, DataInv, mainVars, isrVars, dmaVars,
        dataVars, envVars, Words, Age, All, Packet, IocUnderWay
<1>1. CASE CallTranslation
  BY <1>1 DEF CallTranslation
<1>2. CASE StartTransfer
  BY <1>2 DEF StartTransfer
<1>3. CASE SeeDone
  BY <1>3 DEF SeeDone
<1>4. CASE ClearDone
  BY <1>4 DEF ClearDone
<1>5. CASE InvalidateAfter
  BY <1>5 DEF InvalidateAfter
<1>6. CASE Convert
  BY <1>6 DEF Convert, CpuReads
<1>7. CASE Transform
  BY <1>7 DEF Transform
<1>8. CASE TakeInterrupt
  BY <1>8 DEF TakeInterrupt, EnterHandler
<1>9. CASE SpuriousInterrupt
  BY <1>9 DEF SpuriousInterrupt, EnterHandler
<1>10. CASE ReadStatus
  BY <1>10 DEF ReadStatus
<1>11. CASE HandleError
  BY <1>11 DEF HandleError
<1>12. CASE PollReset
  BY <1>12 DEF PollReset
<1>13. CASE HandleDone
  BY <1>13 DEF HandleDone
<1>14. CASE AckInterrupt
  BY <1>14 DEF AckInterrupt
<1>15. CASE LeaveHandler
  BY <1>15 DEF LeaveHandler
<1>16. CASE ReceiveWord
  BY <1>16 DEF ReceiveWord, TLast
<1>17. CASE DmaError
  BY <1>17 DEF DmaError
<1>18. CASE ResetDone
  BY <1>18 DEF ResetDone
<1>19. ASSUME NEW i \in Words, SpeculativeLoad(i) PROVE DataInv'
  BY <1>19 DEF SpeculativeLoad
<1>20. CASE UNCHANGED vars
  BY <1>20 DEF vars
<1> QED
  BY <1>1, <1>2, <1>3, <1>4, <1>5, <1>6, <1>7, <1>8, <1>9, <1>10,
     <1>11, <1>12, <1>13, <1>14, <1>15, <1>16, <1>17, <1>18, <1>19, <1>20
     DEF Next

\* Trace: entering and leaving the handler match.
LEMMA TraceStep ==
  ASSUME TypeOK, ControlInv, TraceInv, [Next]_vars
  PROVE  TraceInv'
<1> USE CaptureAssumption DEF TypeOK, ControlInv, TraceInv, mainVars, isrVars, dmaVars,
        dataVars, envVars
<1>1. CASE CallTranslation
  BY <1>1 DEF CallTranslation
<1>2. CASE StartTransfer
  BY <1>2 DEF StartTransfer
<1>3. CASE SeeDone
  BY <1>3 DEF SeeDone
<1>4. CASE ClearDone
  BY <1>4 DEF ClearDone
<1>5. CASE InvalidateAfter
  BY <1>5 DEF InvalidateAfter
<1>6. CASE Convert
  BY <1>6 DEF Convert
<1>7. CASE Transform
  BY <1>7 DEF Transform
<1>8. CASE TakeInterrupt
  <2>1. /\ isr = "off" /\ isr' = "read" /\ irq_nest' = irq_nest + 1
        /\ UNCHANGED <<dma, sr, error, spurious>> /\ sr # {}
    BY <1>8 DEF TakeInterrupt, EnterHandler
  <2>2. spurious = 0 => irq_nest = 0 /\ dma # "resetting"
    BY <2>1, Zenon
  <2>3. spurious = 0 => irq_nest' = 1
    BY <2>1, <2>2
  <2> QED
    BY <2>1, <2>2, <2>3
<1>9. CASE SpuriousInterrupt
  BY <1>9 DEF SpuriousInterrupt, EnterHandler
<1>10. CASE ReadStatus
  BY <1>10 DEF ReadStatus
<1>11. CASE HandleError
  BY <1>11 DEF HandleError
<1>12. CASE PollReset
  BY <1>12 DEF PollReset
<1>13. CASE HandleDone
  BY <1>13 DEF HandleDone
<1>14. CASE AckInterrupt
  BY <1>14 DEF AckInterrupt
<1>15. CASE LeaveHandler
  BY <1>15 DEF LeaveHandler
<1>16. CASE ReceiveWord
  BY <1>16 DEF ReceiveWord
<1>17. CASE DmaError
  BY <1>17 DEF DmaError
<1>18. CASE ResetDone
  BY <1>18 DEF ResetDone
<1>19. ASSUME NEW i \in Words, SpeculativeLoad(i) PROVE TraceInv'
  BY <1>19 DEF SpeculativeLoad
<1>20. CASE UNCHANGED vars
  BY <1>20 DEF vars
<1> QED
  BY <1>1, <1>2, <1>3, <1>4, <1>5, <1>6, <1>7, <1>8, <1>9, <1>10,
     <1>11, <1>12, <1>13, <1>14, <1>15, <1>16, <1>17, <1>18, <1>19, <1>20
     DEF Next

\* The strengthened invariant holds of every behaviour.
THEOREM Invariance == Spec => []IInv
<1>1. IInv /\ [Next]_vars => IInv'
  BY TypeStep, ControlStep, DataStep, TraceStep DEF IInv
<1> QED
  BY <1>1, InitIInv, PTL DEF Spec

-----------------------------------------------------------------------------
(* What it gives. *)

\* Every variable keeps its type.
THEOREM TypeCorrect == Spec => []TypeOK
  BY Invariance, PTL DEF IInv

\* For every buffer and packet length, and however many errors or spurious
\* interrupts come in, adc_translation never takes a flag for its transfer
\* that is not, and never reads the buffer while the DMA writes it.
THEOREM FlagIsOwn == Spec => []DoneMeansFinished
<1>1. IInv => DoneMeansFinished
  BY DEF IInv, TypeOK, ControlInv, DataInv, DoneMeansFinished
<1> QED
  BY <1>1, Invariance, PTL

\* s2mm_handler leaves the interrupt nesting and the DMA's interrupts as it
\* found them, after any number of captures and errors, unless a spurious
\* interrupt came.
THEOREM NoTrace == Spec => []HandlerLeavesNoTrace
<1>1. IInv => HandlerLeavesNoTrace
  BY DEF IInv, TraceInv, HandlerLeavesNoTrace
<1> QED
  BY <1>1, Invariance, PTL

\* Every transfer starts at the start of a packet.
THEOREM StartsOnPacket == Spec => []PacketAligned
<1>1. IInv => PacketAligned
  BY DEF IInv, DataInv, PacketAligned
<1> QED
  BY <1>1, Invariance, PTL

\* If the transform is no longer than a packet, it never sees a sample of an
\* earlier capture: the two invalidations and the flag are enough.
THEOREM TransformIsFresh ==
  ASSUME FftLen <= PktLen
  PROVE  Spec => []FreshSamples
<1>1. IInv => FreshSamples
  BY CaptureAssumption DEF IInv, DataInv, Packet, FreshSamples
<1> QED
  BY <1>1, Invariance, PTL
=============================================================================
