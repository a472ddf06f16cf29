--------------------------- MODULE ConfigMailbox ---------------------------
(***************************************************************************)
(* What config_bus_cdc (PL/src/dac_out.v) promises, without clocks,        *)
(* synchronisers or handshake bits: a one-place mailbox between the AXI    *)
(* GPIO registers and the DAC logic.  The mailbox takes a snapshot of the  *)
(* whole configuration bus, holds at most one snapshot in flight, and      *)
(* hands each one over exactly once, unaltered and in order.  Changes of   *)
(* the bus made while a snapshot is in flight may be coalesced, but the    *)
(* last value is never lost.                                               *)
(***************************************************************************)
CONSTANTS
  Bus,     \* values of the 194-bit configuration bus
  Zero,    \* its value after reset
  Empty    \* "nothing in flight", not a value of the bus

VARIABLES
  bus,     \* what the GPIO registers drive now
  hold,    \* the latest snapshot taken
  flight,  \* the snapshot on its way, or Empty
  out      \* what the DAC logic uses

mailVars == <<bus, hold, flight, out>>

Init == bus = Zero /\ hold = Zero /\ flight = Empty /\ out = Zero

\* The PS stores a word: the bus changes, the mailbox does not.
Write == /\ bus' \in Bus
         /\ UNCHANGED <<hold, flight, out>>

\* A snapshot of a bus that differs from the last snapshot is posted; the
\* bus may be written in the same clock cycle.
Post == /\ flight = Empty
        /\ bus # hold
        /\ hold' = bus
        /\ flight' = bus
        /\ bus' \in Bus
        /\ UNCHANGED out

\* The snapshot in flight replaces the DAC's configuration in one step.
Deliver == /\ flight # Empty
           /\ out' = flight
           /\ flight' = Empty
           /\ UNCHANGED <<bus, hold>>

Next == Write \/ Post \/ Deliver

Spec == Init /\ [][Next]_mailVars

\* The mailbox keeps working as long as both clocks run.
FairSpec == Spec /\ WF_mailVars(Post) /\ WF_mailVars(Deliver)
=============================================================================
