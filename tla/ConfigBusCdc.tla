---------------------------- MODULE ConfigBusCdc ----------------------------
(***************************************************************************)
(* config_bus_cdc of PL/src/dac_out.v: the toggle/acknowledge handshake    *)
(* that carries the configuration bus from the 50 MHz AXI GPIO domain      *)
(* (src) to the 125 MHz DAC domain (dst).                                  *)
(*                                                                         *)
(* Each always-block is one action, a clock edge of its domain.  The two   *)
(* clocks are unrelated, so the edges interleave freely.  A flop that      *)
(* samples a signal of the other domain within the settling time of its    *)
(* last change reads either value; a multi-bit bus sampled then is Torn.   *)
(* src_moving (dst_moving) says that the last edge of that domain changed  *)
(* its outputs and no edge of the other domain has come since: only that   *)
(* next edge can fall into the settling time.  The first synchroniser      *)
(* flop is assumed to resolve before the second one samples it, which is   *)
(* what ASYNC_REG pairs are for.                                           *)
(***************************************************************************)
EXTENDS Naturals

CONSTANTS
  Bus,     \* values of the configuration bus, opaque here
  Zero,    \* its value after reset
  Torn     \* a bus sampled while it was changing

ASSUME BusAssumption == Zero \in Bus /\ Torn \notin Bus

VARIABLES
  src_rst_n,     \* reset of the source domain, active low
  dst_rst_n,     \* reset of the destination domain, active low
  src_data,      \* input: what the AXI GPIO registers drive
  src_hold, src_req, ack_sync_src, src_moving,
  dst_data, dst_ack, dst_req_seen, req_sync_dst, dst_moving

srcVars == <<src_data, src_hold, src_req, ack_sync_src, src_moving>>
dstVars == <<dst_data, dst_ack, dst_req_seen, req_sync_dst, dst_moving>>
vars == <<src_rst_n, dst_rst_n, srcVars, dstVars>>

Bit == {0, 1}
Sync == [Bit -> Bit]                 \* a two-flop synchroniser
Cleared == [i \in Bit |-> 0]
Shift(sync, b) == [i \in Bit |-> IF i = 0 THEN b ELSE sync[0]]

TypeOK ==
  /\ src_rst_n \in Bit /\ dst_rst_n \in Bit
  /\ src_data \in Bus /\ src_hold \in Bus
  /\ src_req \in Bit /\ ack_sync_src \in Sync /\ src_moving \in BOOLEAN
  /\ dst_data \in Bus \cup {Torn}
  /\ dst_ack \in Bit /\ dst_req_seen \in Bit
  /\ req_sync_dst \in Sync /\ dst_moving \in BOOLEAN

Init ==
  /\ src_rst_n = 0 /\ dst_rst_n = 0
  /\ src_data = Zero /\ src_hold = Zero
  /\ src_req = 0 /\ ack_sync_src = Cleared /\ src_moving = FALSE
  /\ dst_data = Zero /\ dst_ack = 0 /\ dst_req_seen = 0
  /\ req_sync_dst = Cleared /\ dst_moving = FALSE

-----------------------------------------------------------------------------
(* What a flop of one domain may read from the other. *)

AckSample  == IF dst_moving THEN Bit ELSE {dst_ack}
ReqSample  == IF src_moving THEN Bit ELSE {src_req}
HoldSample == IF src_moving THEN {Torn, src_hold} ELSE {src_hold}

(* The source domain. *)

\* Mutant of CanLoad: idle only in one phase.
CanLoadOnePhase == ack_sync_src[1] = 0 /\ src_req = 0 /\ src_data # src_hold

\* The handshake is idle and the bus differs from the snapshot being held.
CanLoad == ack_sync_src[1] = src_req /\ src_data # src_hold

SrcReset ==
  /\ src_rst_n = 0
  /\ src_hold' = Zero
  /\ src_req' = 0
  /\ ack_sync_src' = Cleared

\* Mutant of SrcRun: src_hold follows the bus.
SrcRunHoldFollows ==
  /\ src_rst_n = 1
  /\ \E a \in AckSample : ack_sync_src' = Shift(ack_sync_src, a)
  /\ src_hold' = src_data
  /\ src_req' = IF CanLoad THEN 1 - src_req ELSE src_req

SrcRun ==
  /\ src_rst_n = 1
  /\ \E a \in AckSample : ack_sync_src' = Shift(ack_sync_src, a)
  /\ src_hold' = IF CanLoad THEN src_data ELSE src_hold
  /\ src_req' = IF CanLoad THEN 1 - src_req ELSE src_req

\* A src_clk edge, after which the GPIO registers drive d.
SrcEdge(d) ==
  /\ SrcReset \/ SrcRun
  /\ src_rst_n = 0 => d = Zero
  /\ src_data' = d
  /\ src_moving' = (src_req' # src_req \/ src_hold' # src_hold)
  /\ dst_moving' = FALSE
  /\ UNCHANGED <<src_rst_n, dst_rst_n, dst_data, dst_ack, dst_req_seen,
                 req_sync_dst>>

(* The destination domain. *)

Arrived == req_sync_dst[1] # dst_req_seen

DstReset ==
  /\ dst_rst_n = 0
  /\ dst_data' = Zero
  /\ dst_ack' = 0
  /\ dst_req_seen' = 0
  /\ req_sync_dst' = Cleared

\* Mutant of DstRun: the acknowledge never comes.

DstRunNoAck ==
  /\ dst_rst_n = 1
  /\ \E r \in ReqSample : req_sync_dst' = Shift(req_sync_dst, r)
  /\ IF Arrived
     THEN dst_data' \in HoldSample /\ dst_req_seen' = req_sync_dst[1]
     ELSE UNCHANGED <<dst_data, dst_req_seen>>
  /\ UNCHANGED dst_ack

DstRun ==
  /\ dst_rst_n = 1
  /\ \E r \in ReqSample : req_sync_dst' = Shift(req_sync_dst, r)
  /\ IF Arrived
     THEN /\ dst_data' \in HoldSample
          /\ dst_req_seen' = req_sync_dst[1]
          /\ dst_ack' = req_sync_dst[1]
     ELSE UNCHANGED <<dst_data, dst_req_seen, dst_ack>>

DstEdge ==
  /\ DstReset \/ DstRun
  /\ dst_moving' = (dst_ack' # dst_ack)
  /\ src_moving' = FALSE
  /\ UNCHANGED <<src_rst_n, dst_rst_n, src_data, src_hold, src_req,
                 ack_sync_src>>

(* Reset release.  rst_ps7_50M/peripheral_aresetn is also the reset of the
   clock wizard whose "locked" output gates rst_ps7_125M, so the DAC domain
   leaves reset after the GPIO domain, by any amount of time. *)
ReleaseSrc ==
  /\ src_rst_n = 0
  /\ src_rst_n' = 1
  /\ UNCHANGED <<dst_rst_n, srcVars, dstVars>>

\* Mutant of DstFlushed: a reset too short to flush the source's synchroniser.
DstFlushedShort ==
  dst_data = Zero /\ dst_ack = 0 /\ dst_req_seen = 0 /\ req_sync_dst = Cleared

\* A reset lasts at least 16 dst_clk cycles: longer than the src_clk cycles its
\* effect takes through ack_sync_src, and than src_req takes to settle when the
\* last of those cycles lets it fall.
DstFlushed ==
  /\ dst_data = Zero /\ dst_ack = 0 /\ dst_req_seen = 0
  /\ req_sync_dst = Cleared
  /\ ~dst_moving /\ ack_sync_src = Cleared
  /\ src_moving => src_req = 1

ReleaseDst ==
  /\ src_rst_n = 1
  /\ dst_rst_n = 0
  /\ DstFlushed
  /\ dst_rst_n' = 1
  /\ UNCHANGED <<src_rst_n, srcVars, dstVars>>

Next ==
  \/ \E d \in Bus : SrcEdge(d)
  \/ DstEdge
  \/ ReleaseSrc
  \/ ReleaseDst

Spec == Init /\ [][Next]_vars

\* Both clocks run forever and both resets are released.  What a src_clk edge
\* does to the flops does not depend on the value the bus takes in it, so its
\* fairness is about the flops only: it does not make the bus change.
srcFlops == <<src_hold, src_req, ack_sync_src, src_moving, dst_moving>>

Fairness ==
  /\ WF_srcFlops(\E d \in Bus : SrcEdge(d))
  /\ WF_vars(DstEdge)
  /\ WF_vars(ReleaseSrc)
  /\ WF_vars(ReleaseDst)

FairSpec == Spec /\ Fairness

(* The clock wizard may lose lock while the system runs: dcm_locked then
   resets the DAC domain alone. *)
LoseLock ==
  /\ dst_rst_n = 1
  /\ dst_rst_n' = 0
  /\ UNCHANGED <<src_rst_n, srcVars, dstVars>>

LockLossSpec == Init /\ [][Next \/ LoseLock]_vars /\ Fairness

-----------------------------------------------------------------------------
(* Properties *)

\* The DAC never runs on a bus that was sampled while it was changing: a
\* snapshot is read only when src_hold has been still since the request
\* (dac_out.v, "the source domain keeps the bus stable").
NeverTorn == dst_data # Torn

\* Around the loop src_req -> req_sync_dst -> dst_req_seen -> ack_sync_src
\* at most one toggle travels at a time, so no toggle can overtake or cancel
\* another.
AtMostOneToggle ==
  /\ dst_ack = dst_req_seen
  /\ req_sync_dst[0] # src_req => req_sync_dst[1] # src_req
  /\ req_sync_dst[1] # src_req => dst_req_seen # src_req
  /\ dst_req_seen # src_req => ack_sync_src[0] # src_req
  /\ ack_sync_src[0] # src_req => ack_sync_src[1] # src_req

\* Once the destination has seen the latest request, it holds the latest
\* snapshot: nothing posted is ever lost or skipped.
SeenIsDelivered == dst_req_seen = src_req => dst_data = src_hold

\* The source never moves the held bus while a request is unacknowledged.
HoldStableInFlight ==
  [][dst_req_seen # src_req => UNCHANGED src_hold]_vars

\* The handshake never wedges: a request in flight is always acknowledged.
RequestAcknowledged ==
  ack_sync_src[1] # src_req ~> ack_sync_src[1] = src_req

(* The mailbox it implements. *)
Mailbox == INSTANCE ConfigMailbox WITH
  bus <- src_data, hold <- src_hold, out <- dst_data, Empty <- Torn,
  flight <- IF dst_req_seen # src_req THEN src_hold ELSE Torn

\* The handshake hands over every snapshot once, whole and in order.
ImplementsMailbox == Mailbox!Spec

\* If lock is lost while a snapshot is handed over, the DAC domain restarts
\* from the reset configuration and then gets the latest snapshot, or keeps the
\* reset configuration; it never falls back to an older snapshot.
LatestOrReset ==
  dst_rst_n = 1 /\ dst_req_seen = src_req => dst_data \in {src_hold, Zero}

\* Losing lock never wedges the handshake: once lock stays, requests are
\* acknowledged again.
RecoversFromLockLoss == <>[](dst_rst_n = 1) => RequestAcknowledged

\* It also keeps handing snapshots over as long as the clocks run.
ImplementsFairMailbox == Mailbox!FairSpec
=============================================================================
