--------------------------- MODULE ScreenWaveProofs ---------------------------
(***************************************************************************)
(* The commands of the screen, the triangle generator and the              *)
(* identification of waves: what is done with the two waves A and B.       *)
(***************************************************************************)
EXTENDS TjcScreen, Triangle, AbIdentify, SequenceTheorems, TLAPS

-----------------------------------------------------------------------------
(* The screen, for any set of packages.  recv_buf is found empty when a package  *)
(* begins after silence because what an earlier one left there always has an     *)
(* end still to come: the timeout that will set recv_end, recv_end itself, or    *)
(* main at work on it (EndPending).  A package that comes alone is then spread,  *)
(* in order, over buffer, FIFO and line until the timeout ends it, and stays in  *)
(* the buffer until main has read its four bytes and executed it; all but its    *)
(* last byte, which may be left over in the FIFO.                                *)

ScreenType ==
  /\ line \in Seq(Nat) /\ fifo \in Seq(Nat) /\ got \in Seq(Nat)
  /\ rxovr \in BOOLEAN /\ tout \in BOOLEAN /\ armed \in BOOLEAN
  /\ recv_buf \in [0 .. 3 -> Nat] /\ recv_ptr \in Nat /\ recv_end \in {0, 1}
  /\ isr \in {"idle", "drain", "clear", "end"}
  /\ pc \in {"work", "check", "ptr", "read", "execute"}
  /\ pc = "read" => Len(got) <= 3
  /\ alone \in Package \cup {None, Done}

\* Whatever is in the buffer will be dropped: the line's falling silent is still
\* to be noticed, or has been and main still has to see it.  The handler works
\* at an interrupt that is set, and no more than a byte waits without one.
EndPending ==
  /\ isr \in {"drain", "clear"} => rxovr
  /\ isr = "end" => tout
  /\ ~rxovr \/ isr = "clear" => Len(fifo) <= 1
  /\ rxovr => armed \/ tout \/ recv_end = 1
  /\ recv_ptr # 0 => armed \/ tout \/ recv_end = 1 \/ pc = "ptr"

Silent == line = <<>> /\ ~rxovr /\ ~tout /\ ~armed /\ isr = "idle"

Whole(p) == <<85, 170, p[1], p[2]>>

\* The package is in the buffer; its last byte may be left over.
Buffered(p) ==
  /\ \A i \in 0 .. 2 : recv_buf[i] = Whole(p)[i + 1]
  /\ recv_buf[3] = Whole(p)[4] \/ fifo = <<Whole(p)[4]>>

\* The package that came alone is spread over buffer, FIFO and line.
Spread(p) ==
  /\ recv_ptr + Len(fifo) + Len(line) = 4
  /\ \A i \in 0 .. 3 : i < recv_ptr => recv_buf[i] = Whole(p)[i + 1]
  /\ \A i \in 1 .. Len(fifo) : fifo[i] = Whole(p)[recv_ptr + i]
  /\ \A i \in 1 .. Len(line) : line[i] = Whole(p)[recv_ptr + Len(fifo) + i]

Arriving(p) ==
  /\ recv_end = 0 /\ pc \in {"work", "check"}
  /\ tout => line = <<>> /\ ~armed
  /\ isr = "end" => ~rxovr
  /\ Spread(p)
Ended(p) == Silent /\ recv_end = 1 /\ pc \in {"work", "check"} /\ Buffered(p)
Reading(p) ==
  /\ Silent /\ recv_end = 0 /\ pc \in {"ptr", "read"} /\ Buffered(p)
  /\ pc = "read" => \A i \in 1 .. Len(got) : got[i] = recv_buf[i - 1]
Read(p) ==
  /\ Silent /\ recv_end = 0 /\ pc = "execute" /\ Buffered(p)
  /\ \A i \in 1 .. 4 : got[i] = recv_buf[i - 1]

AloneInPlace ==
  /\ alone = Done => Silent /\ recv_end = 0 /\ pc \in {"work", "check"}
  /\ alone \in Package =>
       Arriving(alone) \/ Ended(alone) \/ Reading(alone) \/ Read(alone)

ScreenInv == ScreenType /\ EndPending /\ AloneInPlace

-----------------------------------------------------------------------------
LEMMA PairConcat ==
  ASSUME NEW g \in Seq(Nat), NEW h \in Seq(Nat), Len(g) = 2, Len(h) = 2
  PROVE  /\ g \o h \in Seq(Nat) /\ Len(g \o h) = 4
         /\ \A i \in 1 .. 4 : (g \o h)[i] = IF i <= 2 THEN g[i] ELSE h[i - 2]
<1>1. g \o h \in Seq(Nat) /\ Len(g \o h) = Len(g) + Len(h)
  BY ConcatProperties
<1>2. ASSUME NEW i \in 1 .. 4 PROVE (g \o h)[i] = IF i <= 2 THEN g[i] ELSE h[i - 2]
  <2>1. i \in 1 .. Len(g) + Len(h)
    OBVIOUS
  <2>2. (g \o h)[i] = IF i <= Len(g) THEN g[i] ELSE h[i - Len(g)]
    BY <2>1, ConcatProperties
  <2> QED BY <2>2
<1> QED BY <1>1, <1>2

LEMMA WholePackage ==
  ASSUME NEW p \in Package
  PROVE  /\ Header \o p = Whole(p) /\ Whole(p) \in Seq(Nat) /\ Len(Whole(p)) = 4
         /\ Header \in Seq(Nat) /\ Header[1] = 85 /\ Header[2] = 170
<1>1. PICK a, b \in Nat : p = <<a, b>>
  BY ScreenAssumption
<1>2. /\ Header \in Seq(Nat) /\ Len(Header) = 2 /\ Header[1] = 85 /\ Header[2] = 170
      /\ p \in Seq(Nat) /\ Len(p) = 2
  BY <1>1 DEF Header
<1>3. Whole(p) \in Seq(Nat) /\ Len(Whole(p)) = 4
  BY <1>1 DEF Whole
<1>4. Header \o p \in Seq(Nat) /\ Len(Header \o p) = 4
  BY <1>2, PairConcat
<1>5. ASSUME NEW i \in 1 .. 4 PROVE (Header \o p)[i] = Whole(p)[i]
  <2>1. (Header \o p)[i] = IF i <= 2 THEN Header[i] ELSE p[i - 2]
    BY <1>2, PairConcat
  <2>2. Whole(p)[1] = 85 /\ Whole(p)[2] = 170 /\ Whole(p)[3] = p[1] /\ Whole(p)[4] = p[2]
    BY DEF Whole
  <2>3. CASE i <= 2
    BY <1>2, <2>1, <2>2, <2>3
  <2>4. CASE i > 2
    BY <2>1, <2>2, <2>4
  <2>5. i <= 2 \/ i > 2
    OBVIOUS
  <2> QED BY <2>3, <2>4, <2>5, Zenon
<1>6. Header \o p = Whole(p)
  BY <1>3, <1>4, <1>5, SeqEqual
<1> QED BY <1>2, <1>3, <1>6

LEMMA InitScreen == ScreenInit => ScreenInv
<1> SUFFICES ASSUME ScreenInit PROVE ScreenInv
  OBVIOUS
<1>1. ScreenType
  <2>1. <<>> \in Seq(Nat) /\ [i \in 0 .. 3 |-> 0] \in [0 .. 3 -> Nat]
    OBVIOUS
  <2> QED BY <2>1 DEF ScreenInit, ScreenType
<1>2. EndPending
  BY DEF ScreenInit, EndPending
<1>3. AloneInPlace
  BY ScreenAssumption DEF ScreenInit, AloneInPlace
<1> QED BY <1>1, <1>2, <1>3 DEF ScreenInv

LEMMA TypeScreen ==
  ASSUME ScreenType, ScreenNext
  PROVE  ScreenType'
<1>1. ASSUME NEW p \in Package, BeginPackage(p) PROVE ScreenType'
  <2>1. line' \in Seq(Nat)
    BY <1>1, WholePackage DEF BeginPackage
  <2> QED BY <1>1, <2>1 DEF BeginPackage, ScreenType, recvVars
<1>2. CASE ByteArrives
  BY <1>2 DEF ByteArrives, ScreenType, recvVars
<1>3. CASE LineSilent
  BY <1>3 DEF LineSilent, ScreenType, recvVars
<1>4. CASE Enter \/ Drained \/ Clear \/ Timeout
  <2>1. rxovr' \in BOOLEAN /\ tout' \in BOOLEAN /\ recv_end' \in {0, 1}
        /\ isr' \in {"idle", "drain", "clear", "end"}
        /\ UNCHANGED <<line, fifo, armed, recv_buf, recv_ptr, pc, got, alone>>
    BY <1>4 DEF Enter, Drained, Clear, Timeout, ScreenType, uartVars, recvVars
  <2> QED BY <2>1 DEF ScreenType
<1>5. CASE Drain
  <2>1. Head(fifo) \in Nat /\ fifo' \in Seq(Nat)
    BY <1>5 DEF Drain, ScreenType
  <2>2. recv_buf' \in [0 .. 3 -> Nat] /\ recv_ptr' \in Nat
    BY <1>5, <2>1 DEF Drain, ScreenType
  <2> QED BY <1>5, <2>1, <2>2 DEF Drain, ScreenType
<1>6. CASE Work \/ CheckEnd
  BY <1>6 DEF Work, CheckEnd, ScreenType, uartVars, recvVars
<1>9. CASE ResetPtr
  <2>1. got' \in Seq(Nat) /\ Len(got') = 0 /\ pc' = "read" /\ recv_ptr' = 0
        /\ UNCHANGED <<line, fifo, rxovr, tout, armed, isr, recv_buf, recv_end, alone>>
    BY <1>9 DEF ResetPtr, uartVars
  <2> QED BY <2>1 DEF ScreenType
<1>7. CASE ReadByte
  <2>1. /\ UNCHANGED <<line, fifo, rxovr, tout, armed, isr, recv_buf, recv_ptr, recv_end, alone>>
        /\ pc = "read" /\ got \in Seq(Nat)
    BY <1>7 DEF ReadByte, Runs, ScreenType, uartVars, recvVars
  <2>2. CASE Len(got) < 2 /\ recv_buf[Len(got)] # Header[Len(got) + 1]
    BY <1>7, <2>1, <2>2 DEF ReadByte, ScreenType
  <2>3. CASE ~(Len(got) < 2 /\ recv_buf[Len(got)] # Header[Len(got) + 1])
    <3>1. got' = Append(got, recv_buf[Len(got)])
          /\ pc' = IF Len(got') = 4 THEN "execute" ELSE "read"
      BY <1>7, <2>3 DEF ReadByte
    <3>2. Len(got) \in 0 .. 3 /\ recv_buf[Len(got)] \in Nat
      <4>1. Len(got) \in Nat /\ Len(got) <= 3
        BY <2>1 DEF ScreenType
      <4>2. Len(got) \in 0 .. 3
        <5>1. \A n \in Nat : n <= 3 => n \in 0 .. 3
          OBVIOUS
        <5> QED BY <4>1, <5>1
      <4> QED BY <4>2 DEF ScreenType
    <3>3. got' \in Seq(Nat) /\ Len(got') = Len(got) + 1
      BY <2>1, <3>1, <3>2
    <3>4. pc' \in {"read", "execute"} /\ (pc' = "read" => Len(got') <= 3)
      <4>1. Len(got') \in 1 .. 4
        <5>1. \A n \in 0 .. 3 : n + 1 \in 1 .. 4
          OBVIOUS
        <5> QED BY <3>2, <3>3, <5>1
      <4>2. CASE Len(got') = 4
        BY <3>1, <4>2
      <4>3. CASE Len(got') # 4
        BY <3>1, <4>1, <4>3
      <4> QED BY <4>2, <4>3
    <3> QED BY <2>1, <3>3, <3>4 DEF ScreenType
  <2> QED BY <2>2, <2>3
<1>8. CASE Execute
  <2>1. /\ UNCHANGED <<line, fifo, rxovr, tout, armed, isr, recv_buf, recv_ptr, recv_end>>
        /\ pc' = "work" /\ got' = <<>> /\ alone' \in {alone, Done}
    BY <1>8 DEF Execute, uartVars, recvVars
  <2>2. got' \in Seq(Nat)
    BY <2>1
  <2> QED BY <2>1, <2>2 DEF ScreenType
<1> QED
  BY <1>1, <1>2, <1>3, <1>4, <1>5, <1>6, <1>7, <1>8, <1>9 DEF ScreenNext

-----------------------------------------------------------------------------
LEMMA PendingStep ==
  ASSUME ScreenType, ScreenType', EndPending, ScreenNext
  PROVE  EndPending'
<1>1. ASSUME NEW p \in Package, BeginPackage(p) PROVE EndPending'
  BY <1>1 DEF BeginPackage, EndPending, recvVars
<1>2. CASE ByteArrives
  <2>1. /\ isr = "clear" => fifo = <<>>
        /\ Len(fifo') = Len(fifo) + 1 /\ (fifo = <<>> => Len(fifo) = 0)
        /\ rxovr' = TRUE /\ armed' = TRUE
        /\ UNCHANGED <<tout, recv_ptr, recv_end, isr, pc>>
    BY <1>2 DEF ByteArrives, ScreenType, recvVars
  <2> QED BY <2>1 DEF EndPending
<1>5. CASE LineSilent \/ Timeout
  BY <1>5 DEF LineSilent, Timeout, EndPending, ScreenType, recvVars
<1>6. CASE Enter \/ Drained
  <2>1. UNCHANGED <<fifo, rxovr, tout, armed, recv_ptr, recv_end, pc>>
    BY <1>6 DEF Enter, Drained, uartVars, recvVars
  <2>2. /\ isr' = "drain" => rxovr
        /\ isr' = "clear" => isr = "drain" /\ fifo = <<>>
        /\ isr' = "end" => ~rxovr /\ tout
    BY <1>6 DEF Enter, Drained
  <2>3. fifo = <<>> => Len(fifo) <= 1
    OBVIOUS
  <2> QED BY <2>1, <2>2, <2>3 DEF EndPending
<1>7. CASE Clear
  <2>1. /\ isr = "clear" /\ isr' = "idle" /\ (rxovr' => rxovr)
        /\ UNCHANGED <<fifo, tout, armed, recv_ptr, recv_end, pc>>
    BY <1>7 DEF Clear, EndPending, recvVars
  <2> QED BY <2>1 DEF EndPending
<1>3. CASE Drain
  BY <1>3 DEF Drain, EndPending, ScreenType
<1>4. CASE Work \/ CheckEnd \/ ResetPtr \/ ReadByte \/ Execute
  <2>1. CASE Work \/ CheckEnd \/ ResetPtr
    BY <1>4, <2>1 DEF Work, CheckEnd, ResetPtr, Runs, EndPending, ScreenType, uartVars, recvVars
  <2>2. CASE ReadByte \/ Execute
    BY <2>2 DEF ReadByte, Execute, Runs, EndPending, uartVars, recvVars
  <2> QED BY <1>4, <2>1, <2>2
<1> QED BY <1>1, <1>2, <1>3, <1>4, <1>5, <1>6, <1>7 DEF ScreenNext

\* Once the package has been read nothing of it is left that could be read
\* again.
LEMMA DoneStep ==
  ASSUME ScreenInv, ScreenNext, alone' = Done
  PROVE  Silent' /\ recv_end' = 0 /\ pc' \in {"work", "check"}
<1>1. CASE Execute
  <2>1. alone \in Package \/ alone = Done
    BY <1>1 DEF Execute
  <2>2. CASE alone = Done
    BY <1>1, <2>2 DEF Execute, Runs, ScreenInv, AloneInPlace
  <2>3. CASE alone \in Package
    <3>1. Silent /\ recv_end = 0
      BY <1>1, <2>3 DEF ScreenInv, AloneInPlace, Execute, Runs, Arriving, Ended, Reading, Read
    <3>2. UNCHANGED <<line, fifo, rxovr, tout, armed, isr, recv_end>> /\ pc' = "work"
      BY <1>1 DEF Execute, uartVars, recvVars
    <3> QED BY <3>1, <3>2 DEF Silent
  <2> QED BY <2>1, <2>2, <2>3
<1>2. ASSUME ~Execute, ~(\E p \in Package : BeginPackage(p))
      PROVE  Silent' /\ recv_end' = 0 /\ pc' \in {"work", "check"}
  <2>1. alone' = alone
    BY <1>2 DEF ScreenNext, ByteArrives, LineSilent, Enter, Drain, Drained, Clear, Timeout, Work, CheckEnd,
                ResetPtr, ReadByte
  <2>2. Silent /\ recv_end = 0 /\ pc \in {"work", "check"}
    BY <2>1 DEF ScreenInv, AloneInPlace
  <2>3. Work \/ CheckEnd
    BY <1>2, <2>2 DEF ScreenNext, Silent, ByteArrives, LineSilent, Enter, Drain, Drained, Clear, Timeout,
                      ResetPtr, ReadByte, Runs
  <2> QED BY <2>2, <2>3 DEF Work, CheckEnd, Runs, Silent, uartVars, recvVars
<1>3. ASSUME NEW p \in Package, BeginPackage(p) PROVE FALSE
  BY <1>3, ScreenAssumption DEF BeginPackage
<1> QED BY <1>1, <1>2, <1>3

-----------------------------------------------------------------------------
(* A package that came alone, step by step. *)

LEMMA BeginAlone ==
  ASSUME ScreenInv, NEW p \in Package, BeginPackage(p), Quiet
  PROVE  Arriving(p)'
<1>1. /\ line' = Whole(p) /\ UNCHANGED <<fifo, tout, armed, isr, recv_buf, recv_ptr, recv_end, pc>>
      /\ fifo = <<>> /\ ~tout /\ isr = "idle" /\ recv_end = 0 /\ pc \in {"work", "check"}
  BY WholePackage DEF BeginPackage, Quiet, Idle, recvVars
<1>2. recv_ptr = 0
  BY DEF Quiet, Idle, ScreenInv, EndPending
<1>3. Len(Whole(p)) = 4 /\ Len(fifo) = 0
  BY <1>1, WholePackage
<1>4. Spread(p)'
  BY <1>1, <1>2, <1>3 DEF Spread
<1> QED BY <1>1, <1>4 DEF Arriving

\* Of four bytes none is on the line and no more than one in the FIFO.
LEMMA AllButOne ==
  ASSUME NEW n \in Nat, NEW k \in Nat, n + k + 0 = 4, k <= 1
  PROVE  (k = 0 /\ n = 4) \/ (k = 1 /\ n = 3)
  OBVIOUS

\* The package on its way: a byte moves from the line into the FIFO, from the
\* FIFO into the buffer; when the line has fallen silent the buffer is full.
LEMMA ArrivingStep ==
  ASSUME ScreenInv, NEW p \in Package, Arriving(p), ScreenNext,
         ~(\E q \in Package : BeginPackage(q))
  PROVE  Arriving(p)' \/ Ended(p)'
<1>0. ScreenType /\ EndPending /\ Spread(p)
  BY DEF ScreenInv, Arriving
<1>1. CASE ByteArrives
  <2>1. /\ line # <<>> /\ fifo' = Append(fifo, Head(line)) /\ line' = Tail(line)
        /\ UNCHANGED <<tout, recv_buf, recv_ptr, recv_end, isr, pc>>
    BY <1>1 DEF ByteArrives, recvVars
  <2>2. /\ Len(line) \in Nat /\ Len(line) > 0 /\ Len(fifo) \in Nat
        /\ Len(fifo') = Len(fifo) + 1 /\ Len(line') = Len(line) - 1
        /\ Head(line) = line[1]
    BY <1>0, <2>1 DEF ScreenType
  <2>3. recv_ptr' + Len(fifo') + Len(line') = 4
    BY <1>0, <2>1, <2>2 DEF Spread, ScreenType
  <2>4. ASSUME NEW i \in 1 .. Len(fifo') PROVE fifo'[i] = Whole(p)[recv_ptr' + i]
    <3>1. CASE i = Len(fifo) + 1
      <4>1. fifo'[i] = line[1] /\ line[1] = Whole(p)[recv_ptr + Len(fifo) + 1]
        BY <1>0, <2>1, <2>2, <3>1, SMTT(40) DEF ScreenType, Spread
      <4>2. recv_ptr' + i = recv_ptr + Len(fifo) + 1
        BY <1>0, <2>1, <2>2, <3>1 DEF ScreenType
      <4> QED BY <4>1, <4>2
    <3>2. CASE i # Len(fifo) + 1
      <4>1. i \in 1 .. Len(fifo)
        BY <2>2, <3>2
      <4>2. fifo'[i] = fifo[i]
        BY <1>0, <2>1, <4>1 DEF ScreenType
      <4> QED BY <1>0, <2>1, <4>1, <4>2 DEF Spread
    <3> QED BY <3>1, <3>2
  <2>5. ASSUME NEW i \in 1 .. Len(line')
        PROVE  line'[i] = Whole(p)[recv_ptr' + Len(fifo') + i]
    <3>1. i + 1 \in 1 .. Len(line) /\ line'[i] = line[i + 1]
      BY <1>0, <2>1, <2>2 DEF ScreenType
    <3>2. recv_ptr' + Len(fifo') + i = recv_ptr + Len(fifo) + (i + 1)
      BY <1>0, <2>1, <2>2 DEF ScreenType
    <3> QED BY <1>0, <3>1, <3>2 DEF Spread
  <2>6. Spread(p)'
    BY <1>0, <2>1, <2>3, <2>4, <2>5 DEF Spread
  <2>7. ~tout /\ isr # "end"
    BY <1>0, <2>1 DEF Arriving, EndPending
  <2> QED BY <2>1, <2>6, <2>7 DEF Arriving
<1>2. CASE LineSilent
  BY <1>2 DEF LineSilent, Arriving, Spread, recvVars
<1>3. CASE Drain
  <2>1. /\ fifo # <<>> /\ isr = "drain" /\ fifo' = Tail(fifo) /\ recv_ptr' = recv_ptr + 1
        /\ recv_buf' = [i \in DOMAIN recv_buf |-> IF i = recv_ptr THEN Head(fifo) ELSE recv_buf[i]]
        /\ UNCHANGED <<line, rxovr, tout, armed, recv_end, isr, pc>>
    BY <1>3 DEF Drain
  <2>2. /\ Len(fifo) \in Nat /\ Len(fifo) > 0 /\ Len(fifo') = Len(fifo) - 1
        /\ Head(fifo) = fifo[1] /\ DOMAIN recv_buf = 0 .. 3
        /\ recv_ptr \in Nat /\ Len(line) \in Nat
    BY <1>0, <2>1 DEF ScreenType
  <2>3. recv_ptr' + Len(fifo') + Len(line') = 4
    BY <1>0, <2>1, <2>2 DEF Spread
  <2>4. ASSUME NEW i \in 0 .. 3, i < recv_ptr' PROVE recv_buf'[i] = Whole(p)[i + 1]
    <3>1. CASE i = recv_ptr
      <4>1. recv_buf'[i] = fifo[1] /\ 1 \in 1 .. Len(fifo)
        BY <2>1, <2>2, <3>1
      <4> QED BY <1>0, <3>1, <4>1 DEF Spread
    <3>2. CASE i # recv_ptr
      <4>1. recv_buf'[i] = recv_buf[i] /\ i < recv_ptr
        BY <2>1, <2>2, <2>4, <3>2
      <4> QED BY <1>0, <4>1 DEF Spread
    <3> QED BY <3>1, <3>2
  <2>5. ASSUME NEW i \in 1 .. Len(fifo') PROVE fifo'[i] = Whole(p)[recv_ptr' + i]
    <3>1. i + 1 \in 1 .. Len(fifo) /\ fifo'[i] = fifo[i + 1]
      BY <1>0, <2>1, <2>2 DEF ScreenType
    <3>2. recv_ptr' + i = recv_ptr + (i + 1)
      BY <2>1, <2>2
    <3> QED BY <1>0, <3>1, <3>2 DEF Spread
  <2>6. ASSUME NEW i \in 1 .. Len(line')
        PROVE  line'[i] = Whole(p)[recv_ptr' + Len(fifo') + i]
    <3>1. recv_ptr' + Len(fifo') + i = recv_ptr + Len(fifo) + i
      BY <2>1, <2>2
    <3> QED BY <1>0, <2>1, <3>1 DEF Spread
  <2>7. Spread(p)'
    BY <2>3, <2>4, <2>5, <2>6 DEF Spread
  <2> QED BY <2>1, <2>7 DEF Arriving
<1>4. CASE Timeout
  <2>1. /\ isr = "end" /\ isr' = "idle" /\ tout' = FALSE /\ recv_end' = 1
        /\ UNCHANGED <<line, fifo, rxovr, armed, recv_buf, recv_ptr, pc>>
    BY <1>4 DEF Timeout
  <2>2. line = <<>> /\ ~armed /\ ~rxovr /\ Len(fifo) <= 1 /\ Len(line) = 0
    BY <1>0, <2>1 DEF Arriving, EndPending
  <2>3. \/ Len(fifo) = 0 /\ recv_ptr = 4
        \/ Len(fifo) = 1 /\ recv_ptr = 3
    <3>1. recv_ptr \in Nat /\ Len(fifo) \in Nat /\ recv_ptr + Len(fifo) + Len(line) = 4
      BY <1>0 DEF Spread, ScreenType
    <3> QED BY <2>2, <3>1, AllButOne
  <2>4. Buffered(p)'
    <3>1. ASSUME NEW i \in 0 .. 2 PROVE recv_buf[i] = Whole(p)[i + 1]
      <4>1. i \in 0 .. 3 /\ i < 3 /\ i < 4
        OBVIOUS
      <4> QED BY <1>0, <2>3, <4>1 DEF Spread
    <3>2. CASE Len(fifo) = 0
      <4>1. recv_buf[3] = Whole(p)[3 + 1]
        BY <1>0, <2>3, <3>2 DEF Spread
      <4> QED BY <2>1, <3>1, <4>1 DEF Buffered
    <3>3. CASE Len(fifo) = 1
      <4>1. fifo[1] = Whole(p)[4]
        BY <1>0, <2>3, <3>3 DEF Spread
      <4>2. fifo = <<Whole(p)[4]>>
        BY <1>0, <3>3, <4>1 DEF ScreenType
      <4> QED BY <2>1, <3>1, <4>2 DEF Buffered
    <3> QED BY <2>3, <3>2, <3>3
  <2> QED BY <2>1, <2>2, <2>4 DEF Ended, Silent, Arriving
<1>5. CASE Work \/ CheckEnd
  BY <1>5 DEF Work, CheckEnd, Arriving, Spread, uartVars, recvVars
<1>7. CASE Enter \/ Drained \/ Clear
  <2>1. UNCHANGED <<line, fifo, tout, armed, recv_buf, recv_ptr, recv_end, pc>>
    BY <1>7 DEF Enter, Drained, Clear, uartVars, recvVars
  <2>2. isr' = "end" => ~rxovr'
    <3>1. CASE Enter
      BY <3>1 DEF Enter, uartVars
    <3>2. CASE Drained \/ Clear
      BY <3>2 DEF Drained, Clear
    <3> QED BY <1>7, <3>1, <3>2
  <2> QED BY <1>0, <2>1, <2>2 DEF Arriving, Spread
<1>6. CASE ResetPtr \/ ReadByte \/ Execute
  BY <1>6 DEF ResetPtr, ReadByte, Execute, Runs, Arriving
<1> QED BY <1>1, <1>2, <1>3, <1>4, <1>5, <1>6, <1>7 DEF ScreenNext

LEMMA EndedStep ==
  ASSUME ScreenInv, NEW p \in Package, Ended(p), ScreenNext,
         ~(\E q \in Package : BeginPackage(q))
  PROVE  Ended(p)' \/ Reading(p)'
<1>1. Work \/ CheckEnd
  BY DEF ScreenNext, Ended, Silent, ByteArrives, LineSilent, Enter, Drain, Drained, Clear, Timeout,
         ResetPtr, ReadByte, Execute, Runs
<1> QED BY <1>1 DEF Work, CheckEnd, Runs, Ended, Reading, Silent, Buffered, uartVars,
                    recvVars

LEMMA ReadingStep ==
  ASSUME ScreenInv, NEW p \in Package, Reading(p), ScreenNext,
         ~(\E q \in Package : BeginPackage(q))
  PROVE  Reading(p)' \/ Read(p)'
<1>1. ResetPtr \/ ReadByte
  BY DEF ScreenNext, Reading, Silent, ByteArrives, LineSilent, Enter, Drain, Drained, Clear, Timeout,
         Work, CheckEnd, Execute, Runs
<1>2. CASE ResetPtr
  <2>1. /\ got' = <<>> /\ pc' = "read"
        /\ UNCHANGED <<line, fifo, rxovr, tout, armed, isr, recv_buf, recv_end>>
    BY <1>2 DEF ResetPtr, uartVars
  <2>2. \A i \in 1 .. Len(got') : got'[i] = recv_buf'[i - 1]
    BY <2>1
  <2> QED BY <2>1, <2>2 DEF Reading, Silent, Buffered
<1>3. CASE ReadByte
  <2>1. /\ pc = "read" /\ UNCHANGED <<line, fifo, rxovr, tout, armed, isr, recv_buf, recv_end>>
    BY <1>3 DEF ReadByte, Runs, uartVars, recvVars
  <2>2. /\ got \in Seq(Nat) /\ Len(got) \in Nat /\ Len(got) <= 3 /\ Buffered(p)
        /\ \A i \in 1 .. Len(got) : got[i] = recv_buf[i - 1]
    BY <2>1 DEF ScreenInv, ScreenType, Reading
  <2>3. Len(got) \in 0 .. 3 /\ recv_buf[Len(got)] \in Nat
    <3>1. \A n \in Nat : n <= 3 => n \in 0 .. 3
      OBVIOUS
    <3>2. Len(got) \in 0 .. 3
      BY <2>2, <3>1
    <3> QED BY <3>2 DEF ScreenInv, ScreenType
  <2>4. Len(got) < 2 => recv_buf[Len(got)] = Header[Len(got) + 1]
    <3>1. \A n \in Nat : n < 2 => n = 0 \/ n = 1
      OBVIOUS
    <3>2. Whole(p)[1] = 85 /\ Whole(p)[2] = 170 /\ Header[1] = 85 /\ Header[2] = 170
      BY WholePackage DEF Whole
    <3>3. recv_buf[0] = Whole(p)[0 + 1] /\ recv_buf[1] = Whole(p)[1 + 1]
      BY <2>2 DEF Buffered
    <3> QED BY <2>2, <3>1, <3>2, <3>3
  <2>5. /\ got' = Append(got, recv_buf[Len(got)])
        /\ pc' = IF Len(got') = 4 THEN "execute" ELSE "read"
    BY <1>3, <2>4 DEF ReadByte
  <2>6. /\ got' \in Seq(Nat) /\ Len(got') = Len(got) + 1
        /\ \A i \in 1 .. Len(got) : got'[i] = got[i]
        /\ got'[Len(got) + 1] = recv_buf[Len(got)]
    BY <2>2, <2>3, <2>5
  <2>7. ASSUME NEW i \in 1 .. Len(got') PROVE got'[i] = recv_buf'[i - 1]
    <3>1. CASE i = Len(got) + 1
      BY <2>1, <2>2, <2>6, <3>1
    <3>2. CASE i # Len(got) + 1
      <4>1. i \in 1 .. Len(got)
        BY <2>2, <2>6, <3>2
      <4> QED BY <2>1, <2>2, <2>6, <4>1
    <3> QED BY <3>1, <3>2
  <2>8. CASE Len(got') = 4
    BY <2>1, <2>5, <2>7, <2>8 DEF Read, Reading, Silent, Buffered
  <2>9. CASE Len(got') # 4
    BY <2>1, <2>5, <2>7, <2>9 DEF Reading, Silent, Buffered
  <2> QED BY <2>8, <2>9
<1> QED BY <1>1, <1>2, <1>3

LEMMA ReadStep ==
  ASSUME ScreenInv, NEW p \in Package, Read(p), ScreenNext, alone = p,
         ~(\E q \in Package : BeginPackage(q))
  PROVE  alone' = Done
<1>1. Execute
  BY DEF ScreenNext, Read, Silent, ByteArrives, LineSilent, Enter, Drain, Drained, Clear, Timeout,
         Work, CheckEnd, ResetPtr, ReadByte, Runs
<1> QED BY <1>1 DEF Execute

LEMMA ScreenStep ==
  ASSUME ScreenInv, [ScreenNext]_screenVars
  PROVE  ScreenInv'
<1>1. CASE UNCHANGED screenVars
  BY <1>1 DEF screenVars, uartVars, recvVars, cmdVars, ScreenInv, ScreenType, EndPending,
              AloneInPlace, Silent, Arriving, Spread, Ended, Reading, Read, Buffered
<1>2. CASE ScreenNext
  <2>1. ScreenType' /\ EndPending'
    BY <1>2, TypeScreen, PendingStep DEF ScreenInv
  <2>2. ASSUME alone' = Done PROVE Silent' /\ recv_end' = 0 /\ pc' \in {"work", "check"}
    BY <1>2, <2>2, DoneStep
  <2>3. ASSUME NEW p \in Package, BeginPackage(p), alone' \in Package
        PROVE  alone' = p /\ Quiet
    BY <2>3, ScreenAssumption DEF BeginPackage
  <2>4. ASSUME alone' \in Package, ~(\E p \in Package : BeginPackage(p)) PROVE alone' = alone
    BY <1>2, <2>4, ScreenAssumption
       DEF ScreenNext, ByteArrives, LineSilent, Enter, Drain, Drained, Clear, Timeout, Work, CheckEnd, ResetPtr,
           ReadByte, Execute
  <2>5. ASSUME NEW p \in Package, p = alone'
        PROVE  Arriving(p)' \/ Ended(p)' \/ Reading(p)' \/ Read(p)'
    <3>1. CASE \E q \in Package : BeginPackage(q)
      BY <2>3, <2>5, <3>1, BeginAlone
    <3>2. CASE ~(\E q \in Package : BeginPackage(q))
      <4>1. alone = p
        BY <2>4, <2>5, <3>2
      <4>2. Arriving(p) \/ Ended(p) \/ Reading(p) \/ Read(p)
        BY <4>1 DEF ScreenInv, AloneInPlace
      <4>3. ~Read(p)
        BY <1>2, <2>5, <3>2, <4>1, ReadStep, ScreenAssumption
      <4> QED BY <1>2, <3>2, <4>2, <4>3, ArrivingStep, EndedStep, ReadingStep
    <3> QED BY <3>1, <3>2
  <2>6. AloneInPlace'
    BY <2>2, <2>5
       DEF AloneInPlace, Silent, Arriving, Spread, Ended, Reading, Read, Buffered
  <2> QED BY <2>1, <2>6 DEF ScreenInv
<1> QED BY <1>1, <1>2

LEMMA ScreenInvariance == ScreenSpec => []ScreenInv
  BY InitScreen, ScreenStep, PTL DEF ScreenSpec

\* tjc_screen.c, sceen_handler: whatever came before, once the line is quiet
\* and main has been round the buffer is empty, and at most one byte is left
\* over in the FIFO, one that came while the handler left its loop.
THEOREM BufferResynchronises == ScreenSpec => []Resynchronises
<1>1. ScreenInv => Resynchronises
  BY DEF ScreenInv, EndPending, Resynchronises, Idle
<1> QED BY <1>1, ScreenInvariance, PTL

\* tjc_screen.c, package_process: a package that comes alone is executed once
\* only, wherever main and the handler were, and as it was sent, but that its
\* last byte is an older one if the handler has left it over.
THEOREM ExecutedOnce == ScreenSpec => []AloneExecutedOnce
<1>1. ASSUME ScreenInv, pc = "execute", alone = Done PROVE FALSE
  BY <1>1 DEF ScreenInv, AloneInPlace
<1>2. ASSUME ScreenInv, pc = "execute", NEW p \in Package, p = alone
      PROVE  /\ \A i \in 1 .. 3 : got[i] = (Header \o p)[i]
             /\ got[4] = p[2] \/ fifo = <<p[2]>>
  <2>1. Read(p)
    BY <1>2 DEF ScreenInv, AloneInPlace, Arriving, Ended, Reading
  <2>2. ASSUME NEW i \in 1 .. 3 PROVE got[i] = (Header \o p)[i]
    <3>1. i - 1 \in 0 .. 2 /\ i \in 1 .. 4 /\ (i - 1) + 1 = i
      OBVIOUS
    <3>2. recv_buf[i - 1] = Whole(p)[i]
      BY <2>1, <3>1 DEF Read, Buffered
    <3> QED BY <2>1, <3>1, <3>2, WholePackage DEF Read
  <2>3. got[4] = recv_buf[3] /\ Whole(p)[4] = p[2]
    <3>1. got[4] = recv_buf[4 - 1]
      BY <2>1 DEF Read
    <3> QED BY <3>1 DEF Whole
  <2> QED BY <2>1, <2>2, <2>3 DEF Read, Buffered
<1>3. ScreenInv => AloneExecutedOnce
  BY <1>1, <1>2 DEF AloneExecutedOnce
<1> QED BY <1>3, ScreenInvariance, PTL

-----------------------------------------------------------------------------
(* The triangle generator never runs over an end, for every width of the counter *)
(* and every step of at most a quarter of its range.  The inductive invariant    *)
(* says that there is room for the next step in the direction of flag.  It holds *)
(* at the turn, which comes one edge late, because the end is announced two      *)
(* steps ahead; and the two ends are never announced together because their      *)
(* zones do not meet, which is where the quarter comes from.                     *)

QuarterSteps == \A r \in Steps : 4 * r <= CNT_MAX

RoomAhead ==
  /\ step \in Steps /\ step_reg \in Steps /\ cnt \in 0 .. CNT_MAX /\ flag \in {0, 1}
  /\ step_reg \in {0, step}
  /\ step_reg = 0 => cnt = 0 /\ flag = 0
  /\ IF flag = 0 THEN cnt + step_reg <= CNT_MAX ELSE step_reg <= cnt

\* A number below the modulus is its own remainder.
LEMMA SmallMod ==
  ASSUME NEW n \in Nat, NEW k \in 0 .. n - 1 PROVE k % n = k
  OBVIOUS

LEMMA RoomInit == ASSUME QuarterSteps PROVE TriangleInit => RoomAhead
  BY TriangleAssumption DEF TriangleInit, RoomAhead, CNT_MAX

\* With room ahead no remainder in the code differs from the number itself.
LEMMA NoWrap ==
  ASSUME QuarterSteps, RoomAhead
  PROVE  /\ Twice(step_reg) = 2 * step_reg
         /\ (CNT_MAX - Twice(step_reg)) % Modulus = CNT_MAX - 2 * step_reg
         /\ flag = 0 => (cnt + step_reg) % Modulus = cnt + step_reg
         /\ flag = 1 => (cnt - step_reg) % Modulus = cnt - step_reg
<1> USE TriangleAssumption DEF CNT_MAX, QuarterSteps, RoomAhead
<1>1. Modulus \in Nat /\ step_reg \in Nat /\ 4 * step_reg <= Modulus - 1
  OBVIOUS
<1>2. 2 * step_reg \in 0 .. Modulus - 1 /\ Modulus - 1 - 2 * step_reg \in 0 .. Modulus - 1
  BY <1>1
<1>3. Twice(step_reg) = 2 * step_reg
  BY <1>1, <1>2, SmallMod DEF Twice
<1>4. (CNT_MAX - Twice(step_reg)) % Modulus = CNT_MAX - 2 * step_reg
  BY <1>1, <1>2, <1>3, SmallMod
<1>5. flag = 0 => (cnt + step_reg) % Modulus = cnt + step_reg
  <2>1. flag = 0 => cnt + step_reg \in 0 .. Modulus - 1
    BY <1>1
  <2> QED BY <2>1, <1>1, SmallMod
<1>6. flag = 1 => (cnt - step_reg) % Modulus = cnt - step_reg
  <2>1. flag = 1 => cnt - step_reg \in 0 .. Modulus - 1
    BY <1>1
  <2> QED BY <2>1, <1>1, SmallMod
<1> QED BY <1>3, <1>4, <1>5, <1>6

LEMMA RoomStep ==
  ASSUME QuarterSteps, RoomAhead, [NextOnce]_triangleVars
  PROVE  RoomAhead' /\ [cnt' - cnt \in {-step_reg, step_reg}]_triangleVars
<1> USE TriangleAssumption DEF CNT_MAX, QuarterSteps
<1>1. CASE UNCHANGED triangleVars
  BY <1>1 DEF triangleVars, RoomAhead
<1>2. ASSUME NEW r \in Steps, ClkEdge(r), step # 0 => r = step
      PROVE  RoomAhead' /\ cnt' - cnt \in {-step_reg, step_reg}
  <2>1. /\ step_reg \in Nat /\ step \in Nat /\ cnt \in 0 .. Modulus - 1 /\ Modulus \in Nat
        /\ 4 * step_reg <= Modulus - 1 /\ 4 * step <= Modulus - 1
    BY DEF RoomAhead
  <2>2. /\ step_reg' = step /\ step' = r
        /\ flag' = IF cnt > Modulus - 1 - 2 * step_reg THEN 1
                   ELSE IF cnt < 2 * step_reg THEN 0 ELSE flag
        /\ cnt' = IF flag = 0 THEN cnt + step_reg ELSE cnt - step_reg
    BY <1>2, NoWrap DEF ClkEdge, NearTop, NearBottom, RoomAhead
  <2>3. step_reg' \in {0, step'}
    BY <1>2, <2>2
  <2>4. CASE flag = 0
    BY <1>2, <2>1, <2>2, <2>3, <2>4 DEF RoomAhead
  <2>5. CASE flag = 1
    BY <1>2, <2>1, <2>2, <2>3, <2>5 DEF RoomAhead
  <2> QED BY <2>4, <2>5 DEF RoomAhead
<1> QED BY <1>1, <1>2 DEF NextOnce

\* triangle.v: the counter never jumps from one end to the other, with a step
\* set once and of at most a quarter of the range: up to 31 MHz, far beyond
\* the 100 kHz the program asks for.
THEOREM NeverJumps == ASSUME QuarterSteps PROVE OnceSpec => NoJump
<1>1. TriangleInit => RoomAhead
  BY RoomInit
<1>2. RoomAhead /\ [NextOnce]_triangleVars => RoomAhead'
  BY RoomStep
<1>3. RoomAhead /\ [NextOnce]_triangleVars => [cnt' - cnt \in {-step_reg, step_reg}]_triangleVars
  BY RoomStep
<1> QED BY <1>1, <1>2, <1>3, PTL DEF OnceSpec, NoJump

-----------------------------------------------------------------------------
(* The search of get_delta, for every spectrum and every width. *)

\* What the search has: a spectrum, and in delta_pos bins it has passed that
\* are above the threshold.
Stores ==
  /\ DOMAIN fft_out \subseteq Nat /\ fft_out \in [DOMAIN fft_out -> Nat]
  /\ scan \in Nat /\ Start <= scan
  /\ delta_pos \in Seq(DOMAIN fft_out)
  /\ \A k \in 1 .. Len(delta_pos) :
       Start <= delta_pos[k] /\ delta_pos[k] < scan /\ Above(delta_pos[k])

IInv == Stores /\ PeaksApart /\ TallestOfItsWidth /\ NothingForgotten

LEMMA InitIInv == Init => IInv
<1> SUFFICES ASSUME Init PROVE IInv
  OBVIOUS
<1>1. PICK input \in Inputs : fft_out = input.power
  BY DEF Init
<1>2. DOMAIN fft_out \subseteq Nat /\ fft_out \in [DOMAIN fft_out -> Nat]
  BY <1>1, IdentifyAssumption DEF Bin
<1>3. delta_pos = <<>> /\ Len(delta_pos) = 0 /\ scan = Start /\ Start \in Nat
  BY IdentifyAssumption DEF Init
<1>4. Stores
  BY <1>2, <1>3 DEF Stores
<1>5. PeaksApart /\ TallestOfItsWidth
  BY <1>3 DEF PeaksApart, TallestOfItsWidth, Peaks
<1>6. NothingForgotten
  BY <1>2, <1>3 DEF NothingForgotten, Searched
<1> QED
  BY <1>4, <1>5, <1>6 DEF IInv

\* A step of the search leaves behind the bin it acts on and bins that the
\* threshold passes over.
LEMMA NewlySearched ==
  ASSUME Stores, NEW j \in ToSearch, IsNext(j), scan' = j + 1,
         UNCHANGED fft_out, NEW k \in Searched'
  PROVE  k \in Searched \/ k = j \/ (scan <= k /\ k < j /\ ~Above(k))
<1>1. /\ k \in Nat /\ j \in Nat /\ scan \in Nat
      /\ k \in DOMAIN fft_out /\ Start <= k /\ k < j + 1
  BY DEF Searched, Stores, ToSearch
<1>2. CASE k < scan
  BY <1>1, <1>2 DEF Searched
<1>3. CASE scan <= k /\ k # j
  <2>1. k \notin ToSearch
    BY <1>1, <1>3 DEF IsNext
  <2> QED
    BY <1>1, <1>3, <2>1 DEF ToSearch
<1> QED
  BY <1>1, <1>2, <1>3

\* The three things Stored may do to delta_pos.
LEMMA StoredCases ==
  ASSUME Stores, NEW j \in ToSearch, delta_pos' = Stored(j)
  PROVE  \/ /\ delta_pos = <<>> \/ LastPos + Width < j
            /\ delta_pos' = Append(delta_pos, j)
         \/ /\ Len(delta_pos) > 0 /\ ~(LastPos + Width < j)
            /\ LastPos + Width > j /\ fft_out[LastPos] < fft_out[j]
            /\ delta_pos' = [delta_pos EXCEPT ![Len(delta_pos)] = j]
         \/ /\ Len(delta_pos) > 0 /\ ~(LastPos + Width < j)
            /\ ~(LastPos + Width > j /\ fft_out[LastPos] < fft_out[j])
            /\ delta_pos' = delta_pos
  BY DEF Stored, IsNewPeak, IsTaller, Stores

LEMMA SearchIInv == IInv /\ Search => IInv'
<1> SUFFICES ASSUME IInv, Search PROVE IInv'
  OBVIOUS
<1> DEFINE n == Len(delta_pos)
<1>1. PICK j \in ToSearch : /\ IsNext(j)
                            /\ delta_pos' = Stored(j)
                            /\ scan' = j + 1
  BY DEF Search
<1>2. UNCHANGED fft_out
  BY DEF Search
<1>3. /\ j \in Nat /\ scan \in Nat /\ scan <= j /\ Width \in Nat /\ n \in Nat
      /\ Threshold \in Nat
  BY IdentifyAssumption DEF ToSearch, IInv, Stores, Threshold
<1>4. \A k \in DOMAIN fft_out : k \in Nat /\ fft_out[k] \in Nat
  BY DEF IInv, Stores
<1>5. /\ j \in Nat /\ scan \in Nat /\ scan <= j /\ Start <= j
      /\ j \in DOMAIN fft_out /\ Above(j) /\ Width \in Nat /\ Start \in Nat
      /\ n \in Nat
      /\ DOMAIN fft_out \subseteq Nat /\ fft_out \in [DOMAIN fft_out -> Nat]
      /\ delta_pos \in Seq(DOMAIN fft_out)
  BY IdentifyAssumption DEF ToSearch, IInv, Stores
<1>6. \A k \in 1 .. n : /\ delta_pos[k] \in DOMAIN fft_out
                        /\ delta_pos[k] \in Nat
                        /\ fft_out[delta_pos[k]] \in Nat
                        /\ Start <= delta_pos[k] /\ delta_pos[k] < scan
                        /\ Above(delta_pos[k])
  BY <1>5 DEF IInv, Stores
<1>7. \A k \in Searched : k \in Nat /\ k < scan /\ fft_out[k] \in Nat
                            /\ k \in DOMAIN fft_out
  BY <1>5 DEF Searched
<1>8. \A k \in Searched' : k \in Searched \/ k = j \/ (scan <= k /\ k < j /\ ~Above(k))
  BY <1>1, <1>2, NewlySearched DEF IInv
<1>9. \A k \in Searched' : k \in Nat /\ k \in DOMAIN fft_out
  BY <1>2, <1>4 DEF Searched
<1>10. \A k \in 1 .. n, l \in Searched :
        delta_pos[k] <= l /\ l < delta_pos[k] + Width
          => fft_out[l] <= fft_out[delta_pos[k]]
  <2> SUFFICES ASSUME NEW k \in 1 .. n PROVE delta_pos[k] \in Peaks
    BY DEF IInv, TallestOfItsWidth
  <2> QED
    BY <1>5 DEF Peaks
<1>11. \A k \in Searched : k \in Searched'
  BY <1>1, <1>2, <1>5, <1>7 DEF Searched
<1>12. j \in Searched'
  BY <1>1, <1>2, <1>5 DEF Searched
<1>13. fft_out[j] \in Nat /\ fft_out[j] > Threshold
  BY <1>5 DEF Above
<1>14. \A k, l \in 1 .. n : k < l => delta_pos[k] + Width < delta_pos[l]
  BY DEF IInv, PeaksApart
<1>15. CASE /\ delta_pos = <<>> \/ LastPos + Width < j
           /\ delta_pos' = Append(delta_pos, j)
  <2>0. n > 0 => delta_pos[n] + Width < j
    BY <1>15, <1>3 DEF LastPos
  <2>1. /\ Len(delta_pos') = n + 1
        /\ delta_pos' \in Seq(DOMAIN fft_out)
        /\ DOMAIN delta_pos' = 1 .. n + 1
        /\ \A k \in 1 .. n : delta_pos'[k] = delta_pos[k]
        /\ delta_pos'[n + 1] = j
    BY <1>15, <1>5
  <2>2. \A k \in 1 .. n + 1 : k \in 1 .. n \/ k = n + 1
    BY <1>5
  <2>3. Stores'
    <3>1. \A k \in 1 .. n + 1 :
            Start <= delta_pos'[k] /\ delta_pos'[k] < scan' /\ Above(delta_pos'[k])
      <4> SUFFICES ASSUME NEW k \in 1 .. n + 1
                   PROVE  /\ Start <= delta_pos'[k] /\ delta_pos'[k] < scan'
                          /\ Above(delta_pos'[k])
        OBVIOUS
      <4>1. CASE k \in 1 .. n
        <5>1. /\ Start <= delta_pos[k] /\ delta_pos[k] < j + 1
              /\ Above(delta_pos[k])
          BY <4>1, <1>3, <1>6
        <5> QED
          BY <4>1, <5>1, <1>1, <2>1
      <4>2. CASE k = n + 1
        BY <4>2, <1>1, <1>5, <2>1
      <4> QED
        BY <2>2, <4>1, <4>2
    <3>2. scan' \in Nat /\ Start <= scan'
      BY <1>1, <1>5
    <3> QED
      BY <1>2, <1>5, <2>1, <3>1, <3>2 DEF Stores, Above
  <2>4. PeaksApart'
    <3> SUFFICES ASSUME NEW k \in 1 .. n + 1, NEW l \in 1 .. n + 1, k < l
                 PROVE  delta_pos'[k] + Width < delta_pos'[l]
      BY <2>1 DEF PeaksApart
    <3>1. CASE l \in 1 .. n
      BY <3>1, <1>3, <1>14, <2>1
    <3>2. CASE l = n + 1
      <4>1. k \in 1 .. n /\ (k = n \/ delta_pos[k] + Width < delta_pos[n])
        BY <3>2, <1>3, <1>14
      <4> QED
        BY <4>1, <3>2, <1>3, <1>6, <2>0, <2>1
    <3> QED
      BY <2>2, <3>1, <3>2
  <2>5. Peaks' = Peaks \cup {j}
    BY <2>1, <2>2, <1>3 DEF Peaks
  <2>6. TallestOfItsWidth'
    <3> SUFFICES ASSUME NEW k \in 1 .. n + 1, NEW l \in Searched',
                        delta_pos'[k] <= l, l < delta_pos'[k] + Width
                 PROVE  fft_out[l] <= fft_out[delta_pos'[k]]
      BY <1>2, <2>1 DEF TallestOfItsWidth, Peaks
    <3>1. CASE k = n + 1
      <4>1. delta_pos'[k] = j /\ j <= l
        BY <3>1, <2>1
      <4>2. l = j
        BY <4>1, <1>3, <1>7, <1>8, <1>9
      <4> QED
        BY <4>1, <4>2, <1>13
    <3>2. CASE k \in 1 .. n /\ l \in Searched
      BY <3>2, <1>10, <2>1
    <3>3. CASE k \in 1 .. n /\ l = j
      <4>1. k = n \/ delta_pos[k] + Width < delta_pos[n]
        BY <3>3, <1>3, <1>14
      <4> QED
        BY <4>1, <3>3, <1>3, <1>6, <2>0, <2>1, SMTT(40)
    <3>4. CASE k \in 1 .. n /\ scan <= l /\ ~Above(l) /\ l \in DOMAIN fft_out
      <4>1. fft_out[l] \in Nat /\ fft_out[l] <= Threshold
        BY <3>4, <1>3, <1>4 DEF Above
      <4>2. /\ fft_out[delta_pos[k]] \in Nat
            /\ fft_out[delta_pos[k]] > Threshold
        BY <3>4, <1>6 DEF Above
      <4> QED
        BY <4>1, <4>2, <3>4, <1>3, <2>1
    <3> QED
      BY <2>2, <3>1, <3>2, <3>3, <3>4, <1>8, <1>9
  <2>7. NothingForgotten'
    <3> SUFFICES ASSUME NEW l \in Searched', Above(l)
                 PROVE  \/ \E p \in Peaks' : p <= l /\ l <= p + Width
                        \/ \E k \in Searched' : /\ l < k /\ k < l + Width
                                                 /\ fft_out[l] < fft_out[k]
      BY <1>2 DEF NothingForgotten, Above
    <3>1. CASE l = j
      <4>1. j \in Peaks' /\ j <= l /\ l <= j + Width
        BY <3>1, <2>5, <1>3
      <4> QED
        BY <4>1
    <3>2. CASE l \in Searched
      BY <3>2, <2>5, <1>11 DEF IInv, NothingForgotten
    <3> QED
      BY <3>1, <3>2, <1>8
  <2> QED
    BY <2>3, <2>4, <2>6, <2>7 DEF IInv
<1>16. CASE /\ n > 0 /\ LastPos + Width > j /\ fft_out[LastPos] < fft_out[j]
           /\ delta_pos' = [delta_pos EXCEPT ![n] = j]
  <2>0. /\ n \in 1 .. n
        /\ delta_pos[n] < j /\ j < delta_pos[n] + Width
        /\ fft_out[delta_pos[n]] < fft_out[j]
    BY <1>16, <1>3, <1>6 DEF LastPos
  <2>1. /\ Len(delta_pos') = n
        /\ delta_pos' \in Seq(DOMAIN fft_out)
        /\ \A k \in 1 .. n : k # n => delta_pos'[k] = delta_pos[k]
        /\ delta_pos'[n] = j
    BY <1>16, <1>5
  <2>3. Stores'
    <3>1. ASSUME NEW k \in 1 .. n
          PROVE  /\ Start <= delta_pos'[k] /\ delta_pos'[k] < scan'
                 /\ Above(delta_pos'[k])
      <4>1. CASE k # n
        <5>1. /\ Start <= delta_pos[k] /\ delta_pos[k] < j + 1
              /\ Above(delta_pos[k])
          BY <1>3, <1>6
        <5> QED
          BY <4>1, <5>1, <1>1, <2>1
      <4>2. CASE k = n
        BY <4>2, <1>1, <1>5, <2>1
      <4> QED
        BY <4>1, <4>2
    <3>2. scan' \in Nat /\ Start <= scan'
      BY <1>1, <1>5
    <3> QED
      BY <1>2, <1>5, <2>1, <3>1, <3>2 DEF Stores, Above
  <2>4. PeaksApart'
    <3> SUFFICES ASSUME NEW k \in 1 .. n, NEW l \in 1 .. n, k < l
                 PROVE  delta_pos'[k] + Width < delta_pos'[l]
      BY <2>1 DEF PeaksApart
    <3>1. delta_pos[k] + Width < delta_pos[l] /\ k # n
      BY <1>3, <1>14
    <3>2. CASE l # n
      BY <3>1, <3>2, <2>1
    <3>3. CASE l = n
      BY <3>1, <3>3, <1>3, <1>6, <2>0, <2>1
    <3> QED
      BY <3>2, <3>3
  <2>5. /\ j \in Peaks'
        /\ \A p \in Peaks : p = delta_pos[n] \/ p \in Peaks'
    BY <2>0, <2>1, <1>3 DEF Peaks
  <2>6. TallestOfItsWidth'
    <3> SUFFICES ASSUME NEW k \in 1 .. n, NEW l \in Searched',
                        delta_pos'[k] <= l, l < delta_pos'[k] + Width
                 PROVE  fft_out[l] <= fft_out[delta_pos'[k]]
      BY <1>2, <2>1 DEF TallestOfItsWidth, Peaks
    <3>1. CASE k = n
      <4>1. delta_pos'[k] = j /\ j <= l
        BY <3>1, <2>1
      <4>2. l = j
        BY <4>1, <1>3, <1>7, <1>8, <1>9
      <4> QED
        BY <4>1, <4>2, <1>13
    <3>2. CASE k # n /\ l \in Searched
      BY <3>2, <1>10, <2>1
    <3>3. CASE k # n /\ l = j
      <4>1. delta_pos[k] + Width < delta_pos[n]
        BY <3>3, <1>3, <1>14, <2>0
      <4> QED
        BY <4>1, <3>3, <1>3, <1>6, <2>0, <2>1
    <3>4. CASE k # n /\ scan <= l /\ ~Above(l)
      <4>1. fft_out[l] \in Nat /\ fft_out[l] <= Threshold
        BY <3>4, <1>3, <1>9, <1>4 DEF Above
      <4>2. /\ fft_out[delta_pos[k]] \in Nat
            /\ fft_out[delta_pos[k]] > Threshold
        BY <3>4, <1>6 DEF Above
      <4> QED
        BY <4>1, <4>2, <3>4, <1>3, <2>1
    <3> QED
      BY <3>1, <3>2, <3>3, <3>4, <1>8
  <2>7. NothingForgotten'
    <3> SUFFICES ASSUME NEW l \in Searched', Above(l)
                 PROVE  \/ \E p \in Peaks' : p <= l /\ l <= p + Width
                        \/ \E k \in Searched' : /\ l < k /\ k < l + Width
                                                 /\ fft_out[l] < fft_out[k]
      BY <1>2 DEF NothingForgotten, Above
    <3>1. CASE l = j
      <4>1. j \in Peaks' /\ j <= l /\ l <= j + Width
        BY <3>1, <2>5, <1>3
      <4> QED
        BY <4>1
    <3>2. CASE l \in Searched
      <4>1. CASE delta_pos[n] <= l /\ l <= delta_pos[n] + Width
        <5>1. l < j /\ l \in Nat /\ fft_out[l] \in Nat
          BY <3>2, <1>3, <1>7
        <5>2. l < delta_pos[n] + Width /\ j < l + Width
          BY <4>1, <5>1, <2>0, <1>3, <1>6
        <5>3. fft_out[l] <= fft_out[delta_pos[n]]
          BY <4>1, <5>2, <3>2, <1>10, <2>0
        <5>4. fft_out[l] < fft_out[j]
          BY <5>1, <5>3, <2>0, <1>6, <1>13
        <5> QED
          BY <5>1, <5>2, <5>4, <1>12
      <4>2. CASE ~(delta_pos[n] <= l /\ l <= delta_pos[n] + Width)
        BY <4>2, <3>2, <2>5, <1>11 DEF IInv, NothingForgotten
      <4> QED
        BY <4>1, <4>2
    <3> QED
      BY <3>1, <3>2, <1>8
  <2> QED
    BY <2>3, <2>4, <2>6, <2>7 DEF IInv
<1>17. CASE /\ n > 0 /\ ~(LastPos + Width < j)
           /\ ~(LastPos + Width > j /\ fft_out[LastPos] < fft_out[j])
           /\ delta_pos' = delta_pos
  <2>0. /\ n \in 1 .. n
        /\ delta_pos[n] < j /\ j <= delta_pos[n] + Width
        /\ j < delta_pos[n] + Width => fft_out[j] <= fft_out[delta_pos[n]]
    BY <1>17, <1>3, <1>6, <1>13 DEF LastPos
  <2>1. delta_pos' = delta_pos /\ Peaks' = Peaks
    BY <1>17 DEF Peaks
  <2>3. Stores'
    <3>1. \A k \in 1 .. n : delta_pos[k] < scan'
      BY <1>3, <1>1, <1>6
    <3> QED
      BY <1>3, <1>1, <1>2, <1>5, <1>6, <2>1, <3>1 DEF Stores, Above
  <2>4. PeaksApart'
    BY <2>1 DEF IInv, PeaksApart
  <2>6. TallestOfItsWidth'
    <3> SUFFICES ASSUME NEW k \in 1 .. n, NEW l \in Searched',
                        delta_pos[k] <= l, l < delta_pos[k] + Width
                 PROVE  fft_out[l] <= fft_out[delta_pos[k]]
      BY <1>2, <2>1 DEF TallestOfItsWidth, Peaks
    <3>1. CASE l \in Searched
      BY <3>1, <1>10
    <3>2. CASE l = j
      <4>1. k = n \/ delta_pos[k] + Width < delta_pos[n]
        BY <1>3, <1>14, <2>0
      <4>2. k = n
        BY <4>1, <3>2, <1>3, <1>6, <2>0
      <4> QED
        BY <4>2, <3>2, <2>0
    <3>3. CASE scan <= l /\ ~Above(l)
      <4>1. fft_out[l] \in Nat /\ fft_out[l] <= Threshold
        BY <3>3, <1>3, <1>9, <1>4 DEF Above
      <4>2. /\ fft_out[delta_pos[k]] \in Nat
            /\ fft_out[delta_pos[k]] > Threshold
        BY <1>6 DEF Above
      <4> QED
        BY <4>1, <4>2, <1>3
    <3> QED
      BY <3>1, <3>2, <3>3, <1>8
  <2>7. NothingForgotten'
    <3> SUFFICES ASSUME NEW l \in Searched', Above(l)
                 PROVE  \/ \E p \in Peaks' : p <= l /\ l <= p + Width
                        \/ \E k \in Searched' : /\ l < k /\ k < l + Width
                                                 /\ fft_out[l] < fft_out[k]
      BY <1>2 DEF NothingForgotten, Above
    <3>1. CASE l = j
      <4>1. delta_pos[n] \in Peaks'
        BY <2>0, <2>1 DEF Peaks
      <4>2. delta_pos[n] <= l /\ l <= delta_pos[n] + Width
        BY <3>1, <2>0, <1>3, <1>6
      <4> QED
        BY <4>1, <4>2
    <3>2. CASE l \in Searched
      BY <3>2, <2>1, <1>11 DEF IInv, NothingForgotten
    <3> QED
      BY <3>1, <3>2, <1>8
  <2> QED
    BY <2>3, <2>4, <2>6, <2>7 DEF IInv
<1> QED
  BY <1>1, <1>15, <1>16, <1>17, StoredCases DEF IInv

LEMMA NextIInv == IInv /\ [Next]_vars => IInv'
<1> SUFFICES ASSUME IInv, [Next]_vars PROVE IInv'
  OBVIOUS
<1>1. CASE Search
  BY <1>1, SearchIInv
<1>2. CASE UNCHANGED <<fft_out, scan, delta_pos>>
  <2>1. Stores'
    BY <1>2 DEF IInv, Stores, Above
  <2>2. PeaksApart'
    BY <1>2 DEF IInv, PeaksApart
  <2>3. TallestOfItsWidth' /\ NothingForgotten'
    BY <1>2 DEF IInv, TallestOfItsWidth, NothingForgotten, Searched, Peaks, Above
  <2> QED
    BY <2>1, <2>2, <2>3 DEF IInv
<1> QED
  BY <1>1, <1>2 DEF Next, EndSearch, Identify, vars

THEOREM Invariance == Spec => []IInv
<1> QED
  BY InitIInv, NextIInv, PTL DEF Spec

\* Stored peaks are always more than the width apart: the leakage around one
\* line is never taken for several peaks, whatever the spectrum.
THEOREM PeaksStayApart == Spec => []PeaksApart
<1>1. IInv => PeaksApart
  BY DEF IInv
<1> QED
  BY <1>1, Invariance, PTL

\* A stored peak is always the tallest bin of the width it begins, although
\* the search moves it while it looks.
THEOREM PeaksAreTallest == Spec => []TallestOfItsWidth
<1>1. IInv => TallestOfItsWidth
  BY DEF IInv
<1> QED
  BY <1>1, Invariance, PTL

\* No bin above the threshold is lost except to a peak just below it or to a
\* taller bin just above it.
THEOREM NothingLost == Spec => []NothingForgotten
<1>1. IInv => NothingForgotten
  BY DEF IInv
<1> QED
  BY <1>1, Invariance, PTL
===============================================================================
