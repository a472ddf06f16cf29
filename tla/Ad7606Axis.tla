----------------------------- MODULE Ad7606Axis -----------------------------
(***************************************************************************)
(* The AD7606 driver PL/src/ad7606_axis.v, one step per clock edge: it     *)
(* starts a conversion, waits for BUSY to go up and down, reads the eight  *)
(* channels with pulses on RD, and sends the first two as one stream word. *)
(*                                                                         *)
(* The converter is external: BUSY rises within MaxRise clocks of the end  *)
(* of the CONVST pulse and falls some time later, with new results; each   *)
(* falling edge of RD puts the next channel on the data bus.  A datum is   *)
(* the conversion it is of (modulo 2) and its channel.                     *)
(***************************************************************************)
EXTENDS Naturals

CONSTANTS
  CONV_WAIT_CYCLES,
  ResetCycles,   \* 1000
  MaxRise        \* clocks until BUSY is up, 40 ns

ASSUME Ad7606Assumption ==
  /\ CONV_WAIT_CYCLES \in Nat \ {0} /\ ResetCycles \in Nat
  /\ MaxRise \in 1 .. 6

VARIABLES
  state, wait_cnt, rd_cnt, reset_cnt,
  chan,            \* the channel S_READ_CHn is about
  ad_cs, ad_rd, ad_convstab,
  ch1_data, ch2_data, tvalid,
  tready, ad_busy, \* inputs
  due,             \* converter: clocks left for BUSY to rise, 0 if not due
  conv, bus_chan,       \* converter: conversion it holds, channel on the bus
  started          \* history: the conversion last started

fsmVars == <<state, wait_cnt, rd_cnt, reset_cnt, chan>>
pinVars == <<ad_cs, ad_rd, ad_convstab>>
dataVars == <<ch1_data, ch2_data>>
converterVars == <<ad_busy, due, conv, bus_chan, started>>
axisVars == <<fsmVars, pinVars, dataVars, tvalid, tready, converterVars>>

Other(c) == 1 - c
ad_data == <<conv, bus_chan>>

AxisInit ==
  /\ state = "RESET" /\ wait_cnt = 0 /\ rd_cnt = 0 /\ reset_cnt = 0 /\ chan = 1
  /\ ad_cs = 1 /\ ad_rd = 1 /\ ad_convstab = 1
  /\ ch1_data = <<0, 0>> /\ ch2_data = <<0, 0>> /\ tvalid = 0
  /\ tready \in {0, 1} /\ ad_busy = 0 /\ due = 0 /\ conv = 0 /\ bus_chan = 0 /\ started = 0

----------------------------------------------------------------------------
(* The state machine.                                                      *)

Reset ==
  /\ state = "RESET"
  /\ IF reset_cnt >= ResetCycles THEN reset_cnt' = 0 /\ state' = "IDLE"
     ELSE reset_cnt' = reset_cnt + 1 /\ UNCHANGED state
  /\ ad_cs' = 1 /\ ad_rd' = 1 /\ ad_convstab' = 1
  /\ UNCHANGED <<wait_cnt, rd_cnt, chan, dataVars, tvalid>>

Idle ==
  /\ state = "IDLE"
  /\ IF wait_cnt >= CONV_WAIT_CYCLES - 1 THEN wait_cnt' = 0 /\ state' = "CONV"
     ELSE wait_cnt' = wait_cnt + 1 /\ UNCHANGED state
  /\ ad_cs' = 1 /\ ad_rd' = 1 /\ ad_convstab' = 1 /\ tvalid' = 0
  /\ UNCHANGED <<rd_cnt, reset_cnt, chan, dataVars>>

\* A state that lasts until rd_cnt has counted to n.
Counts(n, next) ==
  IF rd_cnt >= n THEN rd_cnt' = 0 /\ state' = next
  ELSE rd_cnt' = rd_cnt + 1 /\ UNCHANGED state

Conv ==
  /\ state = "CONV"
  /\ Counts(2, "WAIT_CONV")
  /\ ad_convstab' = IF rd_cnt >= 2 THEN 1 ELSE 0
  /\ UNCHANGED <<wait_cnt, reset_cnt, chan, ad_cs, ad_rd, dataVars, tvalid>>

\* Mutant of WaitConv: BUSY is looked at too early.
WaitConvShort ==
  /\ state = "WAIT_CONV"
  /\ Counts(2, "WAIT_BUSY")
  /\ UNCHANGED <<wait_cnt, reset_cnt, chan, pinVars, dataVars, tvalid>>

WaitConv ==
  /\ state = "WAIT_CONV"
  /\ Counts(5, "WAIT_BUSY")
  /\ UNCHANGED <<wait_cnt, reset_cnt, chan, pinVars, dataVars, tvalid>>

WaitBusy ==
  /\ state = "WAIT_BUSY" /\ ad_busy = 0
  /\ rd_cnt' = 0 /\ state' = "READ" /\ chan' = 1
  /\ UNCHANGED <<wait_cnt, reset_cnt, pinVars, dataVars, tvalid>>

\* S_READ_CH1 to S_READ_CH8: RD goes down, the datum of the first two
\* channels is taken three clocks later, and RD goes up.
Read ==
  /\ state = "READ"
  /\ ad_cs' = IF chan = 1 THEN 0 ELSE ad_cs
  /\ ad_rd' = IF rd_cnt = 0 THEN 0 ELSE IF rd_cnt <= 2 THEN ad_rd ELSE 1
  /\ rd_cnt' = IF rd_cnt <= 2 THEN rd_cnt + 1 ELSE 0
  /\ ch1_data' = IF rd_cnt > 2 /\ chan = 1 THEN ad_data ELSE ch1_data
  /\ ch2_data' = IF rd_cnt > 2 /\ chan = 2 THEN ad_data ELSE ch2_data
  /\ IF rd_cnt <= 2 THEN UNCHANGED <<state, chan>>
     ELSE IF chan = 8 THEN state' = "OUTPUT" /\ UNCHANGED chan
     ELSE chan' = chan + 1 /\ UNCHANGED state
  /\ UNCHANGED <<wait_cnt, reset_cnt, ad_convstab, tvalid>>

\* Mutant of Output: the word is not held until it is taken.
OutputOnce ==
  /\ state = "OUTPUT"
  /\ ad_cs' = 1
  /\ tvalid' = IF tready = 1 THEN 0 ELSE 1
  /\ state' = IF tvalid = 1 THEN "DONE" ELSE state
  /\ UNCHANGED <<wait_cnt, rd_cnt, reset_cnt, chan, ad_rd, ad_convstab, dataVars>>

\* The assignments under tready come last and prevail.
Output ==
  /\ state = "OUTPUT"
  /\ ad_cs' = 1
  /\ tvalid' = IF tready = 1 THEN 0 ELSE 1
  /\ state' = IF tready = 1 THEN "DONE" ELSE state
  /\ UNCHANGED <<wait_cnt, rd_cnt, reset_cnt, chan, ad_rd, ad_convstab, dataVars>>

Done ==
  /\ state = "DONE"
  /\ tvalid' = 0 /\ state' = "IDLE"
  /\ UNCHANGED <<wait_cnt, rd_cnt, reset_cnt, chan, pinVars, dataVars>>

\* A clock edge at which the machine stays where it is.
Waits ==
  /\ state = "WAIT_BUSY" /\ ad_busy = 1
  /\ UNCHANGED <<fsmVars, pinVars, dataVars, tvalid>>

----------------------------------------------------------------------------
(* The converter, which sees the pins after the edge.                      *)

Converter ==
  /\ started' = IF ad_convstab = 0 /\ ad_convstab' = 1 THEN Other(started) ELSE started
  /\ \/ /\ ad_convstab = 0 /\ ad_convstab' = 1
        /\ due' = MaxRise
        /\ UNCHANGED <<ad_busy, conv, bus_chan>>
     \/ /\ ~(ad_convstab = 0 /\ ad_convstab' = 1) /\ due > 0
        /\ \/ due' = 0 /\ ad_busy' = 1
           \/ due > 1 /\ due' = due - 1 /\ UNCHANGED ad_busy
        /\ UNCHANGED <<conv, bus_chan>>
     \/ /\ ~(ad_convstab = 0 /\ ad_convstab' = 1) /\ due = 0 /\ ad_busy = 1
        /\ UNCHANGED due
        /\ \/ ad_busy' = 0 /\ conv' = Other(conv) /\ bus_chan' = 0
           \/ UNCHANGED <<ad_busy, conv, bus_chan>>
     \/ /\ ~(ad_convstab = 0 /\ ad_convstab' = 1) /\ due = 0 /\ ad_busy = 0
        /\ bus_chan' = IF ad_rd = 1 /\ ad_rd' = 0 /\ ad_cs' = 0 THEN bus_chan + 1 ELSE bus_chan
        /\ UNCHANGED <<due, ad_busy, conv>>

Fsm == Reset \/ Idle \/ Conv \/ WaitConv \/ WaitBusy \/ Waits \/ Read \/ Output \/ Done
Clock == Fsm /\ Converter /\ tready' \in {0, 1}

AxisNext == Clock
AxisSpec == AxisInit /\ [][AxisNext]_axisVars

----------------------------------------------------------------------------
(* The word offered to the stream is the first two channels of the latest  *)
(* conversion, both of the same one, after all eight have been read: BUSY  *)
(* was not looked at before it was up, no channel was taken before it was  *)
(* on the bus, and no RD pulse was lost.                                   *)
WordIsLatest ==
  state = "OUTPUT" =>
    ch1_data = <<started, 1>> /\ ch2_data = <<started, 2>> /\ bus_chan = 8

(* A word once offered stays until it is taken, as AXI4-Stream demands.    *)
WordHeld ==
  [][tvalid = 1 /\ tready = 0 => tvalid' = 1 /\ UNCHANGED dataVars]_axisVars
=============================================================================
