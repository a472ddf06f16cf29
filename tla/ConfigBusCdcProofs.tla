------------------------- MODULE ConfigBusCdcProofs -------------------------
(***************************************************************************)
(* Proofs about config_bus_cdc for every bus width: Bus is any set.        *)
(*                                                                         *)
(* The loop src_req -> req_sync_dst[0] -> req_sync_dst[1] -> dst_req_seen  *)
(* = dst_ack -> ack_sync_src[0] -> ack_sync_src[1] carries one toggle.     *)
(* AtMostOneToggle says so, but is not inductive alone: a flop that        *)
(* samples a moving signal may read either value.  MovingUnseen adds that  *)
(* only a signal whose last change has not been seen can be moving, so     *)
(* either value read continues the loop in order; ResetState covers the    *)
(* two domains' resets.                                                    *)
(***************************************************************************)
EXTENDS ConfigBusCdc, TLAPS

\* A synchroniser flop differs from the signal it watches while that moves.
MovingUnseen ==
  /\ src_moving => req_sync_dst[0] # src_req
  /\ dst_moving => ack_sync_src[0] # dst_ack

\* A domain in reset is idle, and the destination leaves reset last.
ResetState ==
  /\ src_rst_n = 0 =>
       /\ dst_rst_n = 0
       /\ src_data = Zero /\ src_hold = Zero /\ src_req = 0
       /\ ack_sync_src = Cleared /\ ~src_moving
  /\ dst_rst_n = 0 =>
       /\ dst_data = Zero /\ dst_ack = 0 /\ dst_req_seen = 0
       /\ req_sync_dst = Cleared /\ ~dst_moving

IInv ==
  /\ TypeOK
  /\ NeverTorn
  /\ AtMostOneToggle
  /\ SeenIsDelivered
  /\ MovingUnseen
  /\ ResetState

-----------------------------------------------------------------------------
(* What the two samplers may rely on. *)

\* When the source may load, the whole loop has caught up with src_req.
LEMMA LoadMeansIdle ==
  ASSUME TypeOK, AtMostOneToggle, MovingUnseen, CanLoad
  PROVE  /\ req_sync_dst[0] = src_req /\ req_sync_dst[1] = src_req
         /\ dst_req_seen = src_req /\ dst_ack = src_req
         /\ ack_sync_src[0] = src_req
         /\ ~dst_moving /\ ~src_moving
  BY DEF TypeOK, AtMostOneToggle, MovingUnseen, CanLoad, Bit, Sync

\* When the destination sees a request, it is the latest one, it has not been
\* acknowledged yet, and the bus it announces is still.
LEMMA ArrivedMeansStill ==
  ASSUME TypeOK, AtMostOneToggle, MovingUnseen, Arrived
  PROVE  /\ req_sync_dst[0] = src_req /\ req_sync_dst[1] = src_req
         /\ dst_req_seen # src_req /\ dst_ack # src_req
         /\ ack_sync_src[0] # src_req /\ ack_sync_src[1] # src_req
         /\ ~src_moving
  BY DEF TypeOK, AtMostOneToggle, MovingUnseen, Arrived, Bit, Sync

LEMMA ClearedType == Cleared \in Sync /\ Cleared[0] = 0 /\ Cleared[1] = 0
  BY DEF Cleared, Sync, Bit

\* What a two-flop synchroniser holds after a clock edge.
LEMMA ShiftType ==
  ASSUME NEW s \in Sync, NEW b \in Bit
  PROVE  Shift(s, b) \in Sync /\ Shift(s, b)[0] = b /\ Shift(s, b)[1] = s[0]
  BY DEF Shift, Sync, Bit

-----------------------------------------------------------------------------
(* The inductive invariant. *)

LEMMA InitIInv == Init => IInv
  BY BusAssumption, ClearedType
     DEF Init, IInv, TypeOK, NeverTorn, AtMostOneToggle, SeenIsDelivered,
         MovingUnseen, ResetState, Bit

\* A src_clk edge in reset keeps every register at its reset value.
LEMMA SrcResetIInv ==
  ASSUME IInv, NEW d \in Bus, SrcEdge(d), SrcReset
  PROVE  IInv'
<1>1. /\ d = Zero /\ src_hold' = src_hold /\ src_req' = src_req
      /\ ack_sync_src' = ack_sync_src
  BY DEF IInv, ResetState, SrcEdge, SrcReset
<1>2. src_data' = Zero /\ ~src_moving' /\ ~dst_moving'
  BY <1>1 DEF SrcEdge
<1> QED
  BY <1>1, <1>2, BusAssumption
     DEF IInv, TypeOK, NeverTorn, AtMostOneToggle, SeenIsDelivered,
         MovingUnseen, ResetState, SrcEdge, SrcReset

\* A src_clk edge that takes a snapshot starts the only toggle.
LEMMA SrcLoadIInv ==
  ASSUME IInv, NEW d \in Bus, SrcEdge(d), SrcRun, CanLoad
  PROVE  IInv'
<1>1. /\ req_sync_dst[0] = src_req /\ req_sync_dst[1] = src_req
      /\ dst_req_seen = src_req /\ dst_ack = src_req
      /\ ack_sync_src[0] = src_req /\ ~dst_moving
  BY LoadMeansIdle DEF IInv
<1>2. ack_sync_src' = Shift(ack_sync_src, dst_ack)
  BY <1>1 DEF SrcRun, AckSample
<1>3. /\ ack_sync_src' \in Sync
      /\ ack_sync_src'[0] = src_req /\ ack_sync_src'[1] = src_req
  BY <1>1, <1>2, ShiftType DEF IInv, TypeOK
<1>4. src_req' \in Bit /\ src_req' # src_req /\ src_hold' = src_data
  BY DEF SrcRun, IInv, TypeOK, Bit
<1>5. src_moving' = TRUE /\ dst_moving' = FALSE /\ src_data' = d
  BY <1>4 DEF SrcEdge
<1>6. src_rst_n' = 1 /\ src_rst_n = 1
  BY DEF SrcEdge, SrcRun
<1>7. TypeOK'
  BY <1>3, <1>4, <1>5 DEF SrcEdge, IInv, TypeOK
<1>8. (NeverTorn /\ AtMostOneToggle /\ SeenIsDelivered)'
  BY <1>1, <1>3, <1>4
     DEF SrcEdge, IInv, NeverTorn, AtMostOneToggle, SeenIsDelivered
<1>9. (MovingUnseen /\ ResetState)'
  BY <1>1, <1>4, <1>5, <1>6 DEF SrcEdge, IInv, MovingUnseen, ResetState
<1> QED
  BY <1>7, <1>8, <1>9 DEF IInv

\* A src_clk edge that only shifts the acknowledge synchroniser.
LEMMA SrcShiftIInv ==
  ASSUME IInv, NEW d \in Bus, SrcEdge(d), SrcRun, ~CanLoad
  PROVE  IInv'
<1>1. PICK a \in AckSample : ack_sync_src' = Shift(ack_sync_src, a)
  BY DEF SrcRun
<1>2. a \in Bit /\ (a = dst_ack \/ dst_moving)
  BY <1>1 DEF AckSample, IInv, TypeOK
<1>3. /\ ack_sync_src' \in Sync
      /\ ack_sync_src'[0] = a /\ ack_sync_src'[1] = ack_sync_src[0]
  BY <1>1, <1>2, ShiftType DEF IInv, TypeOK
<1>4. src_req' = src_req /\ src_hold' = src_hold
  BY DEF SrcRun
<1>5. src_moving' = FALSE /\ dst_moving' = FALSE /\ src_data' = d
  BY <1>4 DEF SrcEdge
<1>6. src_rst_n' = 1 /\ src_rst_n = 1
  BY DEF SrcEdge, SrcRun
<1>7. /\ dst_req_seen # src_req => a # src_req
      /\ a # src_req => ack_sync_src[0] # src_req
  BY <1>2 DEF IInv, TypeOK, AtMostOneToggle, MovingUnseen, Bit, Sync
<1>8. TypeOK'
  BY <1>3, <1>4, <1>5 DEF SrcEdge, IInv, TypeOK
<1>9. (NeverTorn /\ AtMostOneToggle /\ SeenIsDelivered)'
  BY <1>3, <1>4, <1>7
     DEF SrcEdge, IInv, NeverTorn, AtMostOneToggle, SeenIsDelivered
<1>10. (MovingUnseen /\ ResetState)'
  BY <1>5, <1>6 DEF SrcEdge, IInv, MovingUnseen, ResetState
<1> QED
  BY <1>8, <1>9, <1>10 DEF IInv

\* A dst_clk edge in reset keeps every register at its reset value.
LEMMA DstResetIInv ==
  ASSUME IInv, DstEdge, DstReset
  PROVE  IInv'
<1>1. /\ dst_data' = dst_data /\ dst_ack' = dst_ack
      /\ dst_req_seen' = dst_req_seen /\ req_sync_dst' = req_sync_dst
  BY DEF IInv, ResetState, DstReset
<1>2. dst_moving' = FALSE /\ src_moving' = FALSE
  BY <1>1 DEF DstEdge
<1> QED
  BY <1>1, <1>2
     DEF IInv, TypeOK, NeverTorn, AtMostOneToggle, SeenIsDelivered,
         MovingUnseen, ResetState, DstEdge

\* A dst_clk edge shifts the request synchroniser one step along the loop.
LEMMA DstSample ==
  ASSUME IInv, DstRun
  PROVE  /\ req_sync_dst' \in Sync
         /\ req_sync_dst'[1] = req_sync_dst[0]
         /\ req_sync_dst[0] = src_req => req_sync_dst'[0] = src_req
<1>1. PICK r \in ReqSample : req_sync_dst' = Shift(req_sync_dst, r)
  BY DEF DstRun
<1>2. r \in Bit /\ (r = src_req \/ src_moving)
  BY <1>1 DEF ReqSample, IInv, TypeOK
<1>3. /\ req_sync_dst' \in Sync
      /\ req_sync_dst'[0] = r /\ req_sync_dst'[1] = req_sync_dst[0]
  BY <1>1, <1>2, ShiftType DEF IInv, TypeOK
<1> QED
  BY <1>2, <1>3 DEF IInv, MovingUnseen

\* A dst_clk edge on which a request arrives takes the whole snapshot.
LEMMA DstArriveIInv ==
  ASSUME IInv, DstEdge, DstRun, Arrived
  PROVE  IInv' /\ dst_data' = src_hold /\ dst_req_seen' = src_req
<1>1. /\ req_sync_dst[0] = src_req /\ req_sync_dst[1] = src_req
      /\ dst_req_seen # src_req /\ dst_ack # src_req
      /\ ack_sync_src[0] # src_req /\ ack_sync_src[1] # src_req
      /\ ~src_moving
  BY ArrivedMeansStill DEF IInv
<1>2. dst_data' = src_hold /\ dst_req_seen' = src_req /\ dst_ack' = src_req
  BY <1>1 DEF DstRun, HoldSample
<1>3. /\ req_sync_dst' \in Sync
      /\ req_sync_dst'[0] = src_req /\ req_sync_dst'[1] = src_req
  BY <1>1, DstSample
<1>4. dst_moving' = TRUE /\ src_moving' = FALSE
  BY <1>1, <1>2 DEF DstEdge
<1>5. dst_rst_n' = 1 /\ dst_rst_n = 1 /\ src_rst_n' = src_rst_n
  BY DEF DstEdge, DstRun
<1>6. src_hold # Torn
  BY BusAssumption DEF IInv, TypeOK
<1>7. TypeOK'
  BY <1>2, <1>3, <1>4, <1>5 DEF DstEdge, IInv, TypeOK
<1>8. (NeverTorn /\ AtMostOneToggle /\ SeenIsDelivered)'
  BY <1>1, <1>2, <1>3, <1>6
     DEF DstEdge, IInv, NeverTorn, AtMostOneToggle, SeenIsDelivered
<1>9. (MovingUnseen /\ ResetState)'
  BY <1>1, <1>2, <1>4, <1>5 DEF DstEdge, IInv, MovingUnseen, ResetState
<1> QED
  BY <1>2, <1>7, <1>8, <1>9 DEF IInv

\* A dst_clk edge on which nothing arrives only shifts the synchroniser.
LEMMA DstShiftIInv ==
  ASSUME IInv, DstEdge, DstRun, ~Arrived
  PROVE  IInv'
<1>1. dst_data' = dst_data /\ dst_req_seen' = dst_req_seen /\ dst_ack' = dst_ack
  BY DEF DstRun
<1>2. dst_moving' = FALSE /\ src_moving' = FALSE
  BY <1>1 DEF DstEdge
<1>3. dst_rst_n' = 1 /\ dst_rst_n = 1
  BY DEF DstEdge, DstRun
<1>4. /\ req_sync_dst' \in Sync
      /\ req_sync_dst'[1] = req_sync_dst[0]
      /\ req_sync_dst[0] = src_req => req_sync_dst'[0] = src_req
  BY DstSample
<1>5. req_sync_dst[1] = dst_req_seen
  BY DEF Arrived
<1>6. TypeOK'
  BY <1>1, <1>2, <1>3, <1>4 DEF DstEdge, IInv, TypeOK
<1>7. (NeverTorn /\ AtMostOneToggle /\ SeenIsDelivered)'
  BY <1>1, <1>4, <1>5
     DEF DstEdge, IInv, NeverTorn, AtMostOneToggle, SeenIsDelivered
<1>8. (MovingUnseen /\ ResetState)'
  BY <1>1, <1>2, <1>3 DEF DstEdge, IInv, MovingUnseen, ResetState
<1> QED
  BY <1>6, <1>7, <1>8 DEF IInv

LEMMA NextIInv ==
  ASSUME IInv, [Next]_vars
  PROVE  IInv'
<1>1. ASSUME NEW d \in Bus, SrcEdge(d) PROVE IInv'
  BY <1>1, SrcResetIInv, SrcLoadIInv, SrcShiftIInv DEF SrcEdge
<1>2. CASE DstEdge
  BY <1>2, DstResetIInv, DstArriveIInv, DstShiftIInv DEF DstEdge
<1>3. CASE ReleaseSrc
  BY <1>3
     DEF ReleaseSrc, srcVars, dstVars, IInv, TypeOK, NeverTorn,
         AtMostOneToggle, SeenIsDelivered, MovingUnseen, ResetState, Bit
<1>4. CASE ReleaseDst
  BY <1>4
     DEF ReleaseDst, srcVars, dstVars, IInv, TypeOK, NeverTorn,
         AtMostOneToggle, SeenIsDelivered, MovingUnseen, ResetState, Bit
<1>5. CASE UNCHANGED vars
  BY <1>5
     DEF vars, srcVars, dstVars, IInv, TypeOK, NeverTorn,
         AtMostOneToggle, SeenIsDelivered, MovingUnseen, ResetState
<1> QED
  BY <1>1, <1>2, <1>3, <1>4, <1>5 DEF Next

\* The strengthened invariant holds of every behaviour of the handshake.
THEOREM Invariance == Spec => []IInv
  BY InitIInv, NextIInv, PTL DEF Spec

-----------------------------------------------------------------------------
(* What it gives. *)

\* Every register keeps its type, whatever the bus carries.
THEOREM TypeCorrect == Spec => []TypeOK
  BY Invariance, PTL DEF IInv

\* For every bus, the DAC logic never receives a snapshot that was read while
\* the source was changing it (the tearing dac_out.v's comment rules out).
THEOREM NoTearing == Spec => []NeverTorn
  BY Invariance, PTL DEF IInv

\* For every bus, one toggle at a time runs round the request/acknowledge
\* loop, metastable samples included.
THEOREM OneToggle == Spec => []AtMostOneToggle
  BY Invariance, PTL DEF IInv

\* For every bus, a request that has been seen has been delivered.
THEOREM NothingSkipped == Spec => []SeenIsDelivered
  BY Invariance, PTL DEF IInv

\* For every bus, src_hold does not move while a request is unacknowledged.
THEOREM HoldStable == Spec => HoldStableInFlight
<1>1. ASSUME IInv, [Next]_vars, dst_req_seen # src_req
      PROVE  UNCHANGED src_hold
  <2>1. ~CanLoad
    BY <1>1, LoadMeansIdle DEF IInv
  <2>2. ASSUME NEW d \in Bus, SrcEdge(d) PROVE src_hold' = src_hold
    BY <1>1, <2>1, <2>2 DEF SrcEdge, SrcReset, SrcRun, IInv, ResetState
  <2> QED
    BY <1>1, <2>2
       DEF Next, DstEdge, ReleaseSrc, ReleaseDst, srcVars, vars
<1>2. IInv /\ [Next]_vars => [dst_req_seen # src_req => UNCHANGED src_hold]_vars
  BY <1>1
<1> QED
  BY <1>2, Invariance, PTL DEF Spec, HoldStableInFlight

\* A step of the handshake is a step of the mailbox or changes nothing in it.
LEMMA MailboxStep ==
  ASSUME IInv, [Next]_vars
  PROVE  [Mailbox!Next]_(Mailbox!mailVars)
<1> USE DEF Mailbox!Next, Mailbox!Write, Mailbox!Post, Mailbox!Deliver,
            Mailbox!mailVars
<1>1. ASSUME NEW d \in Bus, SrcEdge(d) PROVE Mailbox!Next
  <2>1. src_data' \in Bus /\ UNCHANGED <<dst_req_seen, dst_data>>
    BY <1>1 DEF SrcEdge
  <2>2. CASE SrcReset
    <3>1. src_hold' = src_hold /\ src_req' = src_req
      BY <2>2 DEF SrcReset, IInv, ResetState
    <3> QED BY <2>1, <3>1
  <2>3. CASE SrcRun /\ ~CanLoad
    <3>1. src_hold' = src_hold /\ src_req' = src_req
      BY <2>3 DEF SrcRun
    <3> QED BY <2>1, <3>1
  <2>4. CASE SrcRun /\ CanLoad
    <3>1. dst_req_seen = src_req /\ src_data # src_hold
      BY <2>4, LoadMeansIdle DEF IInv, CanLoad
    <3>2. src_hold' = src_data /\ src_req' # dst_req_seen
      BY <2>4, <3>1 DEF SrcRun, IInv, TypeOK, Bit
    <3> QED BY <2>1, <3>1, <3>2
  <2> QED BY <1>1, <2>2, <2>3, <2>4 DEF SrcEdge
<1>2. CASE DstEdge
  <2>1. UNCHANGED <<src_data, src_hold, src_req>>
    BY <1>2 DEF DstEdge
  <2>2. CASE DstReset
    <3>1. UNCHANGED <<dst_data, dst_req_seen>>
      BY <2>2 DEF DstReset, IInv, ResetState
    <3> QED BY <2>1, <3>1
  <2>3. CASE DstRun /\ ~Arrived
    <3>1. UNCHANGED <<dst_data, dst_req_seen>>
      BY <2>3 DEF DstRun
    <3> QED BY <2>1, <3>1
  <2>4. CASE DstRun /\ Arrived
    <3>1. dst_req_seen # src_req
      BY <2>4, ArrivedMeansStill DEF IInv
    <3>2. dst_data' = src_hold /\ dst_req_seen' = src_req
      BY <1>2, <2>4, DstArriveIInv
    <3>3. src_hold # Torn
      BY BusAssumption DEF IInv, TypeOK
    <3> QED BY <2>1, <3>1, <3>2, <3>3
  <2> QED BY <1>2, <2>2, <2>3, <2>4 DEF DstEdge
<1>3. CASE ReleaseSrc \/ ReleaseDst \/ UNCHANGED vars
  BY <1>3 DEF ReleaseSrc, ReleaseDst, srcVars, dstVars, vars
<1> QED
  BY <1>1, <1>2, <1>3 DEF Next

\* For every bus, the handshake implements the one-place mailbox: each
\* snapshot is handed over once, whole and in order.
THEOREM MailboxRefinement == Spec => ImplementsMailbox
<1>1. Init => Mailbox!Init
  BY DEF Init, Mailbox!Init
<1> QED
  BY <1>1, MailboxStep, Invariance, PTL
     DEF Spec, ImplementsMailbox, Mailbox!Spec

-----------------------------------------------------------------------------
(* The handshake when the clock wizard loses lock.  While the DAC domain is *)
(* in reset the source runs on and nothing is known of the loop; DstFlushed *)
(* says how the reset ends, and that is again a loop with one toggle in it. *)

LossInv ==
  /\ TypeOK
  /\ NeverTorn
  /\ src_rst_n = 0 => dst_rst_n = 0
  /\ dst_rst_n = 1 => AtMostOneToggle /\ MovingUnseen /\ LatestOrReset

\* A src_clk edge while the DAC domain runs.
LEMMA SrcLoss ==
  ASSUME LossInv, dst_rst_n = 1, NEW d \in Bus, SrcEdge(d)
  PROVE  LossInv'
<1>1. SrcRun /\ src_rst_n = 1
  BY DEF SrcEdge, SrcReset, SrcRun, LossInv
<1>2. PICK a \in AckSample : ack_sync_src' = Shift(ack_sync_src, a)
  BY <1>1 DEF SrcRun
<1>3. a \in Bit /\ (a = dst_ack \/ dst_moving)
  BY <1>2 DEF AckSample, LossInv, TypeOK
<1>4. /\ ack_sync_src' \in Sync
      /\ ack_sync_src'[0] = a /\ ack_sync_src'[1] = ack_sync_src[0]
  BY <1>2, <1>3, ShiftType DEF LossInv, TypeOK
<1>5. dst_moving' = FALSE /\ src_data' = d
      /\ UNCHANGED <<src_rst_n, dst_rst_n, dst_data, dst_ack, dst_req_seen, req_sync_dst>>
  BY DEF SrcEdge
<1>6. CASE CanLoad
  <2>1. /\ req_sync_dst[0] = src_req /\ req_sync_dst[1] = src_req
        /\ dst_req_seen = src_req /\ dst_ack = src_req
        /\ ack_sync_src[0] = src_req /\ ~dst_moving
    BY <1>6, LoadMeansIdle DEF LossInv
  <2>2. src_req' \in Bit /\ src_req' # src_req /\ src_hold' \in Bus
    BY <1>1, <1>6 DEF SrcRun, LossInv, TypeOK, Bit
  <2>3. src_moving' = TRUE
    BY <2>2 DEF SrcEdge
  <2>4. TypeOK'
    BY <1>4, <1>5, <2>2, <2>3 DEF LossInv, TypeOK
  <2>5. (AtMostOneToggle /\ MovingUnseen /\ LatestOrReset)'
    BY <1>3, <1>4, <1>5, <2>1, <2>2 DEF AtMostOneToggle, MovingUnseen, LatestOrReset
  <2> QED BY <1>1, <1>5, <2>4, <2>5 DEF LossInv, NeverTorn
<1>7. CASE ~CanLoad
  <2>1. src_req' = src_req /\ src_hold' = src_hold
    BY <1>1, <1>7 DEF SrcRun
  <2>2. src_moving' = FALSE
    BY <2>1 DEF SrcEdge
  <2>3. /\ dst_req_seen # src_req => a # src_req
        /\ a # src_req => ack_sync_src[0] # src_req
    BY <1>3 DEF LossInv, TypeOK, AtMostOneToggle, MovingUnseen, Bit, Sync
  <2>4. TypeOK'
    BY <1>4, <1>5, <2>1, <2>2 DEF LossInv, TypeOK
  <2>5. (AtMostOneToggle /\ MovingUnseen /\ LatestOrReset)'
    BY <1>4, <1>5, <2>1, <2>2, <2>3
       DEF LossInv, AtMostOneToggle, MovingUnseen, LatestOrReset
  <2> QED BY <1>1, <1>5, <2>4, <2>5 DEF LossInv, NeverTorn
<1> QED BY <1>6, <1>7

\* A dst_clk edge while the DAC domain runs.
LEMMA DstLoss ==
  ASSUME LossInv, dst_rst_n = 1, DstEdge
  PROVE  LossInv'
<1>1. DstRun
  BY DEF DstEdge, DstReset, DstRun
<1>2. PICK r \in ReqSample : req_sync_dst' = Shift(req_sync_dst, r)
  BY <1>1 DEF DstRun
<1>3. r \in Bit /\ (r = src_req \/ src_moving)
  BY <1>2 DEF ReqSample, LossInv, TypeOK
<1>4. /\ req_sync_dst' \in Sync
      /\ req_sync_dst'[0] = r /\ req_sync_dst'[1] = req_sync_dst[0]
  BY <1>2, <1>3, ShiftType DEF LossInv, TypeOK
<1>5. src_moving' = FALSE
      /\ UNCHANGED <<src_rst_n, dst_rst_n, src_data, src_hold, src_req, ack_sync_src>>
  BY DEF DstEdge
<1>6. req_sync_dst[0] = src_req => r = src_req
  BY <1>3 DEF LossInv, MovingUnseen
<1>7. CASE Arrived
  <2>1. /\ req_sync_dst[0] = src_req /\ req_sync_dst[1] = src_req
        /\ dst_req_seen # src_req /\ dst_ack # src_req
        /\ ack_sync_src[0] # src_req /\ ack_sync_src[1] # src_req
        /\ ~src_moving
    BY <1>7, ArrivedMeansStill DEF LossInv
  <2>2. dst_data' = src_hold /\ dst_req_seen' = src_req /\ dst_ack' = src_req
    BY <1>1, <1>7, <2>1 DEF DstRun, HoldSample
  <2>3. src_hold \in Bus /\ src_hold # Torn /\ src_req \in Bit
    BY BusAssumption DEF LossInv, TypeOK
  <2>4. dst_moving' = TRUE
    BY <2>1, <2>2 DEF DstEdge
  <2>5. TypeOK' /\ NeverTorn'
    BY <1>4, <1>5, <2>2, <2>3, <2>4 DEF LossInv, TypeOK, NeverTorn
  <2>6. (AtMostOneToggle /\ MovingUnseen /\ LatestOrReset)'
    BY <1>4, <1>5, <1>6, <2>1, <2>2 DEF AtMostOneToggle, MovingUnseen, LatestOrReset
  <2> QED BY <1>5, <2>5, <2>6 DEF LossInv
<1>8. CASE ~Arrived
  <2>1. dst_data' = dst_data /\ dst_req_seen' = dst_req_seen /\ dst_ack' = dst_ack
    BY <1>1, <1>8 DEF DstRun
  <2>2. dst_moving' = FALSE
    BY <2>1 DEF DstEdge
  <2>3. TypeOK' /\ NeverTorn'
    BY <1>4, <1>5, <2>1, <2>2 DEF LossInv, TypeOK, NeverTorn
  <2>4. req_sync_dst[1] = dst_req_seen
    BY <1>8 DEF Arrived
  <2>5. (AtMostOneToggle /\ MovingUnseen /\ LatestOrReset)'
    BY <1>4, <1>5, <1>6, <2>1, <2>2, <2>4
       DEF LossInv, AtMostOneToggle, MovingUnseen, LatestOrReset
  <2> QED BY <1>5, <2>3, <2>5 DEF LossInv
<1> QED BY <1>7, <1>8

\* While the DAC domain is in reset only the registers' types are known, and
\* that what it gives out is a whole configuration.
LEMMA ResetLoss ==
  ASSUME LossInv, dst_rst_n # 1, DstEdge \/ \E d \in Bus : SrcEdge(d)
  PROVE  LossInv'
<1>1. Cleared \in Sync /\ 0 \in Bit /\ Zero \in Bus /\ Zero # Torn
  BY ClearedType, BusAssumption DEF Bit
<1>2. CASE DstEdge
  <2>1. DstReset
    BY <1>2 DEF DstEdge, DstRun
  <2> QED BY <1>1, <1>2, <2>1 DEF DstEdge, DstReset, LossInv, TypeOK, NeverTorn
<1>3. ASSUME NEW d \in Bus, SrcEdge(d) PROVE LossInv'
  <2>1. UNCHANGED <<src_rst_n, dst_rst_n, dst_data, dst_ack, dst_req_seen, req_sync_dst>>
        /\ src_data' = d /\ dst_moving' = FALSE /\ src_moving' \in BOOLEAN
    BY <1>3 DEF SrcEdge
  <2>2. src_hold' \in Bus /\ src_req' \in Bit /\ ack_sync_src' \in Sync
    <3>1. CASE SrcReset
      BY <1>1, <3>1 DEF SrcReset
    <3>2. CASE SrcRun
      <4>1. \A a \in AckSample : Shift(ack_sync_src, a) \in Sync
        BY ShiftType DEF AckSample, LossInv, TypeOK
      <4> QED BY <3>2, <4>1 DEF SrcRun, LossInv, TypeOK, Bit
    <3> QED BY <1>3, <3>1, <3>2 DEF SrcEdge
  <2> QED BY <2>1, <2>2 DEF LossInv, TypeOK, NeverTorn
<1> QED BY <1>2, <1>3

LEMMA LossStep ==
  ASSUME LossInv, [Next \/ LoseLock]_vars
  PROVE  LossInv'
<1>1. ASSUME NEW d \in Bus, SrcEdge(d) PROVE LossInv'
  BY <1>1, SrcLoss, ResetLoss
<1>2. CASE DstEdge
  BY <1>2, DstLoss, ResetLoss
<1>3. CASE ReleaseSrc \/ LoseLock
  BY <1>3 DEF ReleaseSrc, LoseLock, srcVars, dstVars, LossInv, TypeOK, NeverTorn,
              AtMostOneToggle, MovingUnseen, LatestOrReset, Bit
<1>4. CASE ReleaseDst
  <2>1. TypeOK' /\ NeverTorn' /\ src_rst_n' = 1
    BY <1>4 DEF ReleaseDst, srcVars, dstVars, LossInv, TypeOK, NeverTorn, Bit
  <2>2. (AtMostOneToggle /\ MovingUnseen /\ LatestOrReset)'
    BY <1>4, ClearedType
       DEF ReleaseDst, DstFlushed, srcVars, dstVars, LossInv, TypeOK, Bit,
           AtMostOneToggle, MovingUnseen, LatestOrReset
  <2> QED BY <2>1, <2>2 DEF LossInv
<1>5. CASE UNCHANGED vars
  BY <1>5 DEF vars, srcVars, dstVars, LossInv, TypeOK, NeverTorn, AtMostOneToggle,
              MovingUnseen, LatestOrReset
<1> QED BY <1>1, <1>2, <1>3, <1>4, <1>5 DEF Next

\* For every bus, and however often and whenever lock is lost: the DAC logic
\* never runs on a torn bus, and once it has seen the latest request it runs
\* on the latest snapshot or on the reset configuration, on none before it.
THEOREM LockLossIsSafe == LockLossSpec => [](NeverTorn /\ LatestOrReset)
<1>1. Init => LossInv
  BY InitIInv DEF Init, IInv, LossInv
<1>2. LossInv => NeverTorn /\ LatestOrReset
  BY DEF LossInv, LatestOrReset
<1> QED BY <1>1, <1>2, LossStep, PTL DEF LockLossSpec
=============================================================================
