-------------------------- MODULE ConverterProofs --------------------------
(***************************************************************************)
(* The three ways to and from a converter: the words of the DAC and their  *)
(* form, the driver of the AD7606, the sample stream of the AD9238.  Each  *)
(* has an inductive invariant of its own.                                  *)
(***************************************************************************)
EXTENDS DacConfig, Ad7606Axis, AdcStream, SequenceTheorems, TLAPS

-----------------------------------------------------------------------------
(* The DAC configuration, for any sets of words and requests and any number of *)
(* snapshots kept.  Between two calls each port's registers hold its last      *)
(* request.  In a call they hold the old form with the words stored so far     *)
(* until the select bit is stored, the last of the call; and what is still to  *)
(* be stored says how far it has come.  A snapshot taken in a call fits it,    *)
(* and what is applied is a snapshot.                                          *)

Fits(config, c) ==
  \A p \in Port :
    LET prev == c[p].last
        next == c[p].now
        form == SelectedForm(config, p)
        words == SelectedWords(config, p)
    IN \/ form = prev.form /\ form = next.form /\ words \subseteq {prev.word, next.word}
       \/ form = prev.form /\ form # next.form /\ words = {prev.word}
       \/ form # prev.form /\ form = next.form /\ words = {next.word}

DacType ==
  /\ bus \in Config /\ turn \in Port /\ calls \in PortCalls

\* A port no call is about runs on the words of its last call.
PortSettled(p) ==
  /\ calls[p].last = calls[p].now
  /\ SelectedForm(bus, p) = calls[p].now.form
  /\ SelectedWords(bus, p) = {calls[p].now.word}

\* In a call the select bit is still the old one; the words stored so far are
\* in place.
InCall(last, c) ==
  /\ SelectedForm(bus, turn) = last.form
  /\ IF c.form = last.form THEN SelectedWords(bus, turn) \subseteq {last.word, c.word}
     ELSE SelectedWords(bus, turn) = {last.word}
  /\ \/ todo = Stores(c)
     \/ /\ c.form = "SIN" /\ bus.freq[turn] = c.word
        /\ todo = <<Store("phase", c.word), Store("which", 1)>>
     \/ /\ c.form = "SIN" /\ bus.freq[turn] = c.word /\ bus.phase[turn] = c.word
        /\ todo = <<Store("which", 1)>>
     \/ /\ c.form = "TRI" /\ bus.step[turn] = c.word
        /\ todo = <<Store("which", 0)>>

BusFits ==
  /\ \A p \in Port : p # turn \/ todo = <<>> => PortSettled(p)
  /\ todo # <<>> => InCall(calls[turn].last, calls[turn].now)

SnapshotsFit ==
  /\ Fits(hold, hold_calls) /\ Fits(out, out_calls)
  /\ flight \in {Empty, hold}

DacInv == DacType /\ BusFits /\ SnapshotsFit

LEMMA BusSnapshotFits ==
  ASSUME DacType, BusFits
  PROVE  Fits(bus, calls)
<1> SUFFICES ASSUME NEW p \in Port
             PROVE  LET prev == calls[p].last
                        next == calls[p].now
                        form == SelectedForm(bus, p)
                        words == SelectedWords(bus, p)
                    IN \/ form = prev.form /\ form = next.form /\ words \subseteq {prev.word, next.word}
                       \/ form = prev.form /\ form # next.form /\ words = {prev.word}
                       \/ form # prev.form /\ form = next.form /\ words = {next.word}
  BY DEF Fits
<1>1. CASE p # turn \/ todo = <<>>
  BY <1>1 DEF BusFits, PortSettled
<1>2. CASE p = turn /\ todo # <<>>
  BY <1>2 DEF BusFits, InCall
<1> QED BY <1>1, <1>2

LEMMA InitDac == SystemInit => DacInv
<1> SUFFICES ASSUME SystemInit PROVE DacInv
  OBVIOUS
<1>1. bus = ResetConfig /\ hold = ResetConfig /\ out = ResetConfig /\ flight = Empty
  BY ConfigAssumption DEF SystemInit, Init
<1>2. ResetConfig \in Config /\ ResetCall \in AnyCall
  BY DEF ResetConfig, Config, AnyWord, AnyCall
<1>3. NoCalls \in PortCalls
  BY <1>2 DEF NoCalls, PortCalls
<1>4. DacType
  BY <1>1, <1>2, <1>3 DEF DacType, SystemInit, Port
<1>5. \A p \in Port : SelectedForm(ResetConfig, p) = "TRI" /\ SelectedWords(ResetConfig, p) = {ZeroWord}
  BY DEF ResetConfig, SelectedForm, SelectedWords
<1>6. BusFits
  BY <1>1, <1>5 DEF SystemInit, BusFits, PortSettled, NoCalls, ResetCall
<1>7. Fits(ResetConfig, NoCalls)
  BY <1>4, <1>6, <1>1, BusSnapshotFits DEF SystemInit
<1> QED BY <1>1, <1>4, <1>6, <1>7 DEF DacInv, SnapshotsFit, SystemInit

LEMMA BeginDac ==
  ASSUME DacInv, NEW c \in Call, BeginCall(c)
  PROVE  DacType' /\ BusFits'
<1>1. /\ UNCHANGED <<bus, turn>> /\ todo = <<>> /\ todo' = Stores(c)
      /\ calls' = [calls EXCEPT ![turn].now = c]
  BY DEF BeginCall, mailVars
<1>2. /\ calls' \in PortCalls /\ calls'[turn].now = c /\ calls'[turn].last = calls[turn].last
      /\ \A p \in Port \ {turn} : calls'[p] = calls[p]
  <2>1. c \in AnyCall /\ turn \in Port /\ calls \in PortCalls
    BY DEF AnyCall, DacInv, DacType
  <2> QED BY <1>1, <2>1 DEF PortCalls
<1>3. \A p \in Port : PortSettled(p)
  BY <1>1 DEF DacInv, BusFits
<1>4. \A p \in Port \ {turn'} : PortSettled(p)'
  BY <1>1, <1>2, <1>3, SMTT(40) DEF PortSettled, SelectedForm, SelectedWords
<1>5. InCall(calls[turn].last, calls[turn].now)'
  <2>1. PortSettled(turn)
    BY <1>3 DEF DacInv, DacType
  <2> QED BY <1>1, <1>2, <2>1, ZenonT(60) DEF InCall, PortSettled, SelectedForm, SelectedWords
<1>6. todo' # <<>>
  BY <1>1 DEF Stores
<1> QED BY <1>1, <1>2, <1>4, <1>5, <1>6 DEF DacType, BusFits, DacInv

\* What one store changes.
LEMMA StoredFields ==
  ASSUME NEW config \in Config, NEW p \in Port, NEW word
  PROVE  /\ Stored(config, p, Store("freq", word)) = [config EXCEPT !.freq[p] = word]
         /\ Stored(config, p, Store("phase", word)) = [config EXCEPT !.phase[p] = word]
         /\ Stored(config, p, Store("step", word)) = [config EXCEPT !.step[p] = word]
         /\ Stored(config, p, Store("which", word)) = [config EXCEPT !.which[p] = word]
  BY DEF Stored, Store, Config

\* A store of turn's call leaves the other port's bits alone.
OthersKept ==
  \A q \in Port \ {turn} : /\ bus'.freq[q] = bus.freq[q] /\ bus'.phase[q] = bus.phase[q]
                           /\ bus'.step[q] = bus.step[q] /\ bus'.which[q] = bus.which[q]

\* A store that is not the last one of its call.
LEMMA WordStore ==
  ASSUME DacInv, StoreNext, bus' \in Config, OthersKept, bus'.which = bus.which,
         Len(todo) # 1, todo' # <<>>, InCall(calls[turn].last, calls[turn].now)'
  PROVE  DacType' /\ BusFits'
<1>1. UNCHANGED <<calls, turn>> /\ todo # <<>>
  BY DEF StoreNext
<1>2. \A p \in Port \ {turn} : PortSettled(p)'
  BY <1>1 DEF DacInv, BusFits, OthersKept, PortSettled, SelectedForm, SelectedWords
<1> QED BY <1>1, <1>2 DEF DacInv, DacType, BusFits

\* The last store of a call, the select bit.
LEMMA SelectStore ==
  ASSUME DacInv, StoreNext, bus' \in Config, OthersKept, Len(todo) = 1, todo' = <<>>,
         SelectedForm(bus', turn) = calls[turn].now.form,
         SelectedWords(bus', turn) = {calls[turn].now.word}
  PROVE  DacType' /\ BusFits'
<1>1. /\ calls' = [calls EXCEPT ![turn].last = calls[turn].now]
      /\ turn' \in Port \ {turn}
  BY DEF StoreNext
<1>2. /\ calls' \in PortCalls /\ calls'[turn].now = calls[turn].now
      /\ calls'[turn].last = calls[turn].now
      /\ \A p \in Port \ {turn} : calls'[p] = calls[p]
  BY <1>1 DEF DacInv, DacType, PortCalls
<1>3. ASSUME NEW p \in Port \ {turn} PROVE PortSettled(p)'
  <2>1. PortSettled(p)
    BY DEF DacInv, BusFits
  <2>2. calls'[p] = calls[p]
    BY <1>2
  <2>3. SelectedForm(bus', p) = SelectedForm(bus, p) /\ SelectedWords(bus', p) = SelectedWords(bus, p)
    BY DEF OthersKept, SelectedForm, SelectedWords
  <2> QED BY <2>1, <2>2, <2>3 DEF PortSettled, SelectedForm, SelectedWords
<1>4. \A p \in Port : p = turn => PortSettled(p)'
  BY <1>2 DEF PortSettled, SelectedForm, SelectedWords
<1>5. \A p \in Port : PortSettled(p)'
  BY <1>3, <1>4
<1> QED BY <1>1, <1>2, <1>5 DEF DacType, BusFits

LEMMA StoreDac ==
  ASSUME DacInv, StoreNext
  PROVE  DacType' /\ BusFits'
<1> DEFINE c == calls[turn].now
           last == calls[turn].last
<1>1. /\ todo # <<>> /\ InCall(last, c) /\ turn \in Port /\ bus \in Config
      /\ calls \in PortCalls
  BY DEF StoreNext, DacInv, DacType, BusFits
<1>2. c \in AnyCall /\ c.word \in AnyWord /\ c.form \in Form
  BY <1>1 DEF PortCalls, AnyCall, Call, ResetCall, AnyWord, Form
<1>3. bus' = Stored(bus, turn, Head(todo)) /\ todo' = Tail(todo)
  BY DEF StoreNext
<1>4. CASE todo = Stores(c) /\ c.form = "SIN"
  <2>1. /\ Head(todo) = Store("freq", c.word) /\ Len(todo) # 1
        /\ todo' = <<Store("phase", c.word), Store("which", 1)>>
    BY <1>3, <1>4 DEF Stores
  <2>2. /\ bus' \in Config /\ bus'.which = bus.which /\ bus'.freq[turn] = c.word
        /\ bus'.phase = bus.phase /\ bus'.step = bus.step /\ OthersKept
    <3>1. bus' = [bus EXCEPT !.freq[turn] = c.word]
      BY <1>1, <1>3, <2>1, StoredFields
    <3> QED BY <1>1, <1>2, <3>1 DEF OthersKept, Config
  <2>3. UNCHANGED <<calls, turn>>
    BY <2>1 DEF StoreNext
  <2>4. InCall(calls[turn].last, calls[turn].now)'
    BY <1>1, <1>4, <2>1, <2>2, <2>3 DEF InCall, SelectedForm, SelectedWords
  <2> QED BY <2>1, <2>2, <2>4, WordStore
<1>5. CASE /\ c.form = "SIN" /\ bus.freq[turn] = c.word
           /\ todo = <<Store("phase", c.word), Store("which", 1)>>
  <2>1. /\ Head(todo) = Store("phase", c.word) /\ Len(todo) # 1
        /\ todo' = <<Store("which", 1)>>
    BY <1>3, <1>5
  <2>2. /\ bus' \in Config /\ bus'.which = bus.which /\ bus'.phase[turn] = c.word
        /\ bus'.freq = bus.freq /\ bus'.step = bus.step /\ OthersKept
    <3>1. bus' = [bus EXCEPT !.phase[turn] = c.word]
      BY <1>1, <1>3, <2>1, StoredFields
    <3> QED BY <1>1, <1>2, <3>1 DEF OthersKept, Config
  <2>3. UNCHANGED <<calls, turn>>
    BY <2>1 DEF StoreNext
  <2>4. InCall(calls[turn].last, calls[turn].now)'
    BY <1>1, <1>5, <2>1, <2>2, <2>3 DEF InCall, SelectedForm, SelectedWords
  <2> QED BY <2>1, <2>2, <2>4, WordStore
<1>6. CASE /\ c.form = "SIN" /\ bus.freq[turn] = c.word /\ bus.phase[turn] = c.word
           /\ todo = <<Store("which", 1)>>
  <2>1. Head(todo) = Store("which", 1) /\ Len(todo) = 1 /\ todo' = <<>>
    BY <1>3, <1>6
  <2>2. /\ bus' \in Config /\ bus'.which[turn] = 1
        /\ bus'.freq = bus.freq /\ bus'.phase = bus.phase /\ OthersKept
    <3>1. bus' = [bus EXCEPT !.which[turn] = 1]
      BY <1>1, <1>3, <2>1, StoredFields
    <3> QED BY <1>1, <1>2, <3>1 DEF OthersKept, Config
  <2>3. SelectedForm(bus', turn) = c.form /\ SelectedWords(bus', turn) = {c.word}
    BY <1>6, <2>2 DEF SelectedForm, SelectedWords
  <2> QED BY <2>1, <2>2, <2>3, SelectStore
<1>7. CASE todo = Stores(c) /\ c.form = "TRI"
  <2>1. /\ Head(todo) = Store("step", c.word) /\ Len(todo) # 1
        /\ todo' = <<Store("which", 0)>>
    BY <1>3, <1>7 DEF Stores
  <2>2. /\ bus' \in Config /\ bus'.which = bus.which /\ bus'.step[turn] = c.word
        /\ bus'.freq = bus.freq /\ bus'.phase = bus.phase /\ OthersKept
    <3>1. bus' = [bus EXCEPT !.step[turn] = c.word]
      BY <1>1, <1>3, <2>1, StoredFields
    <3> QED BY <1>1, <1>2, <3>1 DEF OthersKept, Config
  <2>3. UNCHANGED <<calls, turn>>
    BY <2>1 DEF StoreNext
  <2>4. InCall(calls[turn].last, calls[turn].now)'
    BY <1>1, <1>7, <2>1, <2>2, <2>3 DEF InCall, SelectedForm, SelectedWords
  <2> QED BY <2>1, <2>2, <2>4, WordStore
<1>8. CASE c.form = "TRI" /\ bus.step[turn] = c.word /\ todo = <<Store("which", 0)>>
  <2>1. Head(todo) = Store("which", 0) /\ Len(todo) = 1 /\ todo' = <<>>
    BY <1>3, <1>8
  <2>2. /\ bus' \in Config /\ bus'.which[turn] = 0
        /\ bus'.step = bus.step /\ OthersKept
    <3>1. bus' = [bus EXCEPT !.which[turn] = 0]
      BY <1>1, <1>3, <2>1, StoredFields
    <3> QED BY <1>1, <1>2, <3>1 DEF OthersKept, Config
  <2>3. SelectedForm(bus', turn) = c.form /\ SelectedWords(bus', turn) = {c.word}
    BY <1>8, <2>2 DEF SelectedForm, SelectedWords
  <2> QED BY <2>1, <2>2, <2>3, SelectStore
<1> QED BY <1>1, <1>2, <1>4, <1>5, <1>6, <1>7, <1>8 DEF InCall, Form

LEMMA DacStep ==
  ASSUME DacInv, [SystemNext]_dacVars
  PROVE  DacInv'
<1>1. ASSUME NEW c \in Call, BeginCall(c) PROVE DacInv'
  <2>1. UNCHANGED <<hold, out, flight, hold_calls, out_calls>>
    BY <1>1 DEF BeginCall, mailVars
  <2> QED BY <1>1, <2>1, BeginDac DEF DacInv, SnapshotsFit, Fits
<1>2. CASE StoreNext
  <2>1. UNCHANGED <<hold, out, flight, hold_calls, out_calls>>
    BY <1>2 DEF StoreNext, Write
  <2> QED BY <1>2, <2>1, StoreDac DEF DacInv, SnapshotsFit, Fits
<1>3. CASE PostSnapshot
  <2>1. /\ UNCHANGED <<bus, turn, todo, calls, out, out_calls>>
        /\ hold' = bus /\ flight' = bus /\ hold_calls' = calls
    BY <1>3 DEF PostSnapshot, Post, psVars
  <2>2. DacType' /\ BusFits'
    BY <2>1 DEF DacInv, DacType, BusFits, PortSettled, InCall
  <2>3. Fits(hold', hold_calls')
    BY <2>1, BusSnapshotFits DEF DacInv
  <2>4. SnapshotsFit'
    BY <2>1, <2>3 DEF DacInv, SnapshotsFit, Fits
  <2> QED BY <2>2, <2>4 DEF DacInv
<1>4. CASE DeliverSnapshot
  <2>1. /\ UNCHANGED <<bus, turn, todo, calls, hold, hold_calls>> /\ out' = flight
        /\ flight # Empty /\ flight' = Empty /\ out_calls' = hold_calls
    BY <1>4 DEF DeliverSnapshot, Deliver, psVars
  <2>2. DacType' /\ BusFits'
    BY <2>1 DEF DacInv, DacType, BusFits, PortSettled, InCall
  <2>3. out' = hold
    BY <2>1 DEF DacInv, SnapshotsFit
  <2>4. SnapshotsFit'
    BY <2>1, <2>3 DEF DacInv, SnapshotsFit, Fits
  <2> QED BY <2>2, <2>4 DEF DacInv
<1>5. CASE UNCHANGED dacVars
  BY <1>5 DEF dacVars, mailVars, psVars, DacInv, DacType, BusFits, PortSettled, InCall,
              SnapshotsFit, Fits
<1> QED BY <1>1, <1>2, <1>3, <1>4, <1>5 DEF SystemNext

\* amp_freq.c, set_dac_freq: the DAC never runs a wave form on words left over
\* from before the call that asked for it, whatever the calls are and wherever
\* between two stores the snapshots fall.
THEOREM WordsComeWithTheirForm == SystemSpec => []FormComesWithItsWords
<1>1. DacInv => FormComesWithItsWords
  BY DEF DacInv, SnapshotsFit, Fits, FormComesWithItsWords
<1> QED BY <1>1, InitDac, DacStep, PTL DEF SystemSpec

-----------------------------------------------------------------------------
(* The AD7606 driver reads the latest conversion and holds its word, for every *)
(* interval between conversions, length of reset and converter that raises     *)
(* BUSY within six clocks.  The inductive invariant has three parts.  Idle     *)
(* pins: outside the states that pulse them CONVST and RD are high, and the    *)
(* counter these states share is 0.  Converter: a conversion is under way only *)
(* in the two waiting states, and while WAIT_CONV counts the clocks left until *)
(* BUSY, at most MaxRise, run bus_chan.  Reading: in state READ the bus has    *)
(* come to the channel that is read.                                           *)

AxisType ==
  /\ state \in {"RESET", "IDLE", "CONV", "WAIT_CONV", "WAIT_BUSY", "READ", "OUTPUT", "DONE"}
  /\ rd_cnt \in Nat /\ chan \in 1 .. 8 /\ tvalid \in {0, 1} /\ tready \in {0, 1}
  /\ ad_cs \in {0, 1} /\ ad_rd \in {0, 1} /\ ad_convstab \in {0, 1} /\ ad_busy \in {0, 1}
  /\ due \in Nat /\ bus_chan \in Nat /\ conv \in {0, 1} /\ started \in {0, 1}

IdlePins ==
  /\ state \in {"RESET", "IDLE", "WAIT_BUSY", "OUTPUT", "DONE"} => state = "WAIT_BUSY" \/ rd_cnt = 0
  /\ ad_convstab = IF state = "CONV" /\ rd_cnt > 0 THEN 0 ELSE 1
  /\ state # "READ" => ad_rd = 1
  /\ tvalid = 1 => state = "OUTPUT"

Converting ==
  /\ state \notin {"WAIT_CONV", "WAIT_BUSY"} => due = 0 /\ ad_busy = 0
  /\ state = "WAIT_CONV" => rd_cnt <= 5 /\ due + rd_cnt <= 6
  /\ state = "WAIT_BUSY" => due = 0
  /\ due > 0 => ad_busy = 0
  /\ conv = IF due > 0 \/ ad_busy = 1 THEN Other(started) ELSE started
  /\ state \in {"WAIT_CONV", "WAIT_BUSY"} /\ due = 0 /\ ad_busy = 0 => bus_chan = 0

Reading ==
  /\ state = "READ" =>
       /\ rd_cnt <= 3
       /\ ad_rd = IF rd_cnt \in {1, 2, 3} THEN 0 ELSE 1
       /\ bus_chan = IF rd_cnt = 0 THEN chan - 1 ELSE chan
       /\ chan > 1 \/ rd_cnt > 0 => ad_cs = 0
       /\ chan > 1 => ch1_data = <<started, 1>>
       /\ chan > 2 => ch2_data = <<started, 2>>
  /\ state = "OUTPUT" =>
       ch1_data = <<started, 1>> /\ ch2_data = <<started, 2>> /\ bus_chan = 8

AxisInv == AxisType /\ IdlePins /\ Converting /\ Reading

LEMMA InitAxis == AxisInit => AxisInv
  BY Ad7606Assumption DEF AxisInit, AxisInv, AxisType, IdlePins, Converting, Reading, Other

-----------------------------------------------------------------------------
(* What the converter does at a clock edge, by what the machine does to    *)
(* its pins.                                                               *)

\* No conversion is under way and none is started: nothing but RD counts.
LEMMA ConverterIdle ==
  ASSUME AxisType, Converter, due = 0, ad_busy = 0, ~(ad_convstab = 0 /\ ad_convstab' = 1)
  PROVE  /\ UNCHANGED <<due, ad_busy, conv, started>>
         /\ bus_chan' = IF ad_rd = 1 /\ ad_rd' = 0 /\ ad_cs' = 0 THEN bus_chan + 1 ELSE bus_chan
  BY DEF Converter, AxisType

\* The machine waits, or a conversion is started.
LEMMA ConverterWaits ==
  ASSUME AxisType, Converting, Converter, ad_convstab = 1, ad_convstab' = 1, ad_rd' = 1
  PROVE  /\ started' = started /\ due' \in Nat /\ bus_chan' \in Nat /\ conv' \in {0, 1}
         /\ ad_busy' \in {0, 1} /\ (due' > 0 => ad_busy' = 0)
         /\ due' <= due /\ (due > 0 => due' < due)
         /\ conv' = IF due' > 0 \/ ad_busy' = 1 THEN Other(started') ELSE started'
         /\ (state \in {"WAIT_CONV", "WAIT_BUSY"} /\ due' = 0 /\ ad_busy' = 0 => bus_chan' = 0)
<1>1. CASE due > 0
  BY <1>1 DEF Converter, AxisType, Converting, Other
<1>2. CASE due = 0 /\ ad_busy = 1
  BY <1>2 DEF Converter, AxisType, Converting, Other
<1>3. CASE due = 0 /\ ad_busy = 0
  BY <1>3 DEF Converter, AxisType, Converting, Other
<1> QED BY <1>1, <1>2, <1>3 DEF AxisType

-----------------------------------------------------------------------------
(* One step per state of the machine.                                      *)

LEMMA AxisFsmStep ==
  ASSUME AxisInv, Clock
  PROVE  AxisInv'
<1> USE Ad7606Assumption
<1>0. Converter /\ AxisType /\ IdlePins /\ Converting /\ Reading /\ tready' \in {0, 1}
  BY DEF Clock, AxisInv
<1>1. CASE Reset
  <2>1. due = 0 /\ ad_busy = 0 /\ ad_convstab = 1 /\ ad_rd = 1
    BY <1>0, <1>1 DEF Reset, IdlePins, Converting
  <2>2. UNCHANGED <<due, ad_busy, conv, started, bus_chan>>
    BY <1>0, <1>1, <2>1, ConverterIdle DEF Reset
  <2> QED BY <1>0, <1>1, <2>1, <2>2 DEF Reset, AxisInv, AxisType, IdlePins, Converting, Reading
<1>2. CASE Idle
  <2>1. due = 0 /\ ad_busy = 0 /\ ad_convstab = 1 /\ ad_rd = 1
    BY <1>0, <1>2 DEF Idle, IdlePins, Converting
  <2>2. UNCHANGED <<due, ad_busy, conv, started, bus_chan>>
    BY <1>0, <1>2, <2>1, ConverterIdle DEF Idle
  <2> QED BY <1>0, <1>2, <2>1, <2>2 DEF Idle, AxisInv, AxisType, IdlePins, Converting, Reading
<1>3. CASE Conv /\ rd_cnt < 2
  <2>1. due = 0 /\ ad_busy = 0 /\ ad_convstab' = 0 /\ ad_rd = 1 /\ ad_rd' = 1
    BY <1>0, <1>3 DEF Conv, IdlePins, Converting, AxisType
  <2>2. UNCHANGED <<due, ad_busy, conv, started, bus_chan>>
    BY <1>0, <1>3, <2>1, ConverterIdle
  <2> QED BY <1>0, <1>3, <2>1, <2>2
          DEF Conv, Counts, AxisInv, AxisType, IdlePins, Converting, Reading
<1>4. CASE Conv /\ rd_cnt >= 2
  <2>1. ad_convstab = 0 /\ ad_convstab' = 1 /\ ad_rd = 1 /\ ad_rd' = 1 /\ ad_busy = 0 /\ due = 0
    BY <1>0, <1>4 DEF Conv, IdlePins, Converting, AxisType
  <2>2. due' = MaxRise /\ UNCHANGED <<ad_busy, conv, bus_chan>> /\ started' = Other(started)
    BY <1>0, <2>1 DEF Converter
  <2>3. conv' = Other(started') /\ started' \in {0, 1}
    BY <1>0, <2>1, <2>2 DEF Converting, AxisType, Other
  <2>4. state' = "WAIT_CONV" /\ rd_cnt' = 0 /\ UNCHANGED <<chan, tvalid>>
    BY <1>0, <1>4 DEF Conv, Counts, AxisType
  <2>5. AxisType' /\ IdlePins'
    BY <1>0, <1>4, <2>1, <2>2, <2>3, <2>4 DEF Conv, AxisType, IdlePins
  <2>6. Converting' /\ Reading'
    BY <2>1, <2>2, <2>3, <2>4 DEF Converting, Reading
  <2> QED BY <2>5, <2>6 DEF AxisInv
<1>5. CASE WaitConv
  <2>1. ad_convstab = 1 /\ ad_convstab' = 1 /\ ad_rd' = 1 /\ state = "WAIT_CONV" /\ rd_cnt <= 5
    BY <1>0, <1>5 DEF WaitConv, IdlePins, Converting, pinVars
  <2>2. due + rd_cnt <= 6 /\ rd_cnt \in Nat /\ due \in Nat
    BY <1>0, <2>1 DEF Converting, AxisType
  <2>3. IF rd_cnt >= 5 THEN rd_cnt' = 0 /\ state' = "WAIT_BUSY"
        ELSE rd_cnt' = rd_cnt + 1 /\ state' = "WAIT_CONV"
    BY <1>5, <2>1 DEF WaitConv, Counts
  <2>4. AxisType'
    BY <1>0, <1>5, <2>1, <2>2, <2>3, ConverterWaits DEF WaitConv, AxisType, pinVars
  <2>5. IdlePins'
    BY <1>0, <1>5, <2>1, <2>3 DEF WaitConv, IdlePins, pinVars
  <2>6. Converting'
    BY <1>0, <2>1, <2>2, <2>3, ConverterWaits DEF Converting
  <2>7. Reading'
    BY <2>3 DEF Reading
  <2> QED BY <2>4, <2>5, <2>6, <2>7 DEF AxisInv
<1>6. CASE Waits
  <2>1. /\ ad_convstab = 1 /\ ad_convstab' = 1 /\ ad_rd' = 1
        /\ state = "WAIT_BUSY" /\ state' = "WAIT_BUSY" /\ due = 0
    BY <1>0, <1>6 DEF Waits, IdlePins, Converting, pinVars, fsmVars
  <2>2. AxisType' /\ IdlePins'
    BY <1>0, <1>6, <2>1, ConverterWaits DEF Waits, AxisType, IdlePins, pinVars, fsmVars
  <2>3. Converting' /\ Reading'
    BY <1>0, <2>1, ConverterWaits DEF Converting, Reading, AxisType
  <2> QED BY <2>2, <2>3 DEF AxisInv
<1>7. CASE WaitBusy
  <2>1. /\ due = 0 /\ ad_busy = 0 /\ ad_convstab = 1 /\ ad_convstab' = 1
        /\ ad_rd = 1 /\ ad_rd' = 1 /\ bus_chan = 0
    BY <1>0, <1>7 DEF WaitBusy, IdlePins, Converting, pinVars
  <2>2. UNCHANGED <<due, ad_busy, conv, started, bus_chan>>
    BY <1>0, <2>1, ConverterIdle
  <2> QED BY <1>0, <1>7, <2>1, <2>2
          DEF WaitBusy, pinVars, dataVars, AxisInv, AxisType, IdlePins, Converting, Reading
<1>8. CASE Read
  <2>1. due = 0 /\ ad_busy = 0 /\ ad_convstab = 1 /\ ad_convstab' = 1 /\ conv = started
    BY <1>0, <1>8 DEF Read, IdlePins, Converting
  <2>2. /\ UNCHANGED <<due, ad_busy, conv, started>>
        /\ bus_chan' = IF ad_rd = 1 /\ ad_rd' = 0 /\ ad_cs' = 0 THEN bus_chan + 1 ELSE bus_chan
    BY <1>0, <2>1, ConverterIdle
  <2>3. CASE rd_cnt <= 2
    <3>1. /\ state' = "READ" /\ chan' = chan /\ rd_cnt' = rd_cnt + 1 /\ ad_rd' = 0
          /\ ad_cs' = 0 /\ UNCHANGED <<ch1_data, ch2_data, tvalid>>
      BY <1>0, <1>8, <2>3 DEF Read, Reading, AxisType
    <3>2. bus_chan' = chan
      BY <1>0, <1>8, <2>2, <2>3, <3>1 DEF Read, Reading, AxisType
    <3> QED BY <1>0, <1>8, <2>1, <2>2, <2>3, <3>1, <3>2
            DEF Read, AxisInv, AxisType, IdlePins, Converting, Reading
  <2>4. CASE rd_cnt > 2
    <3>1. /\ rd_cnt = 3 /\ rd_cnt' = 0 /\ ad_rd = 0 /\ ad_rd' = 1 /\ bus_chan = chan
          /\ ad_cs = 0 /\ ad_cs' = 0 /\ tvalid' = tvalid
      BY <1>0, <1>8, <2>4 DEF Read, Reading, AxisType
    <3>2. bus_chan' = chan
      BY <2>2, <3>1
    <3>3. /\ ch1_data' = IF chan = 1 THEN <<started, chan>> ELSE ch1_data
          /\ ch2_data' = IF chan = 2 THEN <<started, chan>> ELSE ch2_data
          /\ IF chan = 8 THEN state' = "OUTPUT" /\ chan' = 8
             ELSE chan' = chan + 1 /\ state' = "READ"
      BY <1>8, <2>1, <2>4, <3>1 DEF Read, ad_data
    <3>4. AxisType' /\ IdlePins' /\ Converting'
      BY <1>0, <1>8, <2>1, <2>2, <3>1, <3>2, <3>3
         DEF Read, AxisType, IdlePins, Converting
    <3>5. Reading'
      BY <1>0, <1>8, <2>2, <3>1, <3>2, <3>3 DEF Read, Reading, AxisType
    <3> QED BY <3>4, <3>5 DEF AxisInv
  <2> QED BY <1>0, <2>3, <2>4 DEF AxisType
<1>9. CASE Output
  <2>1. due = 0 /\ ad_busy = 0 /\ ad_convstab = 1 /\ ad_convstab' = 1 /\ ad_rd = 1 /\ ad_rd' = 1
    BY <1>0, <1>9 DEF Output, IdlePins, Converting
  <2>2. UNCHANGED <<due, ad_busy, conv, started, bus_chan>>
    BY <1>0, <2>1, ConverterIdle
  <2> QED BY <1>0, <1>9, <2>1, <2>2
          DEF Output, dataVars, AxisInv, AxisType, IdlePins, Converting, Reading
<1>10. CASE Done
  <2>1. due = 0 /\ ad_busy = 0 /\ ad_convstab = 1 /\ ad_convstab' = 1 /\ ad_rd = 1 /\ ad_rd' = 1
    BY <1>0, <1>10 DEF Done, IdlePins, Converting, pinVars
  <2>2. UNCHANGED <<due, ad_busy, conv, started, bus_chan>>
    BY <1>0, <2>1, ConverterIdle
  <2> QED BY <1>0, <1>10, <2>1, <2>2
          DEF Done, pinVars, dataVars, AxisInv, AxisType, IdlePins, Converting, Reading
<1> QED
  <2>1. Conv => rd_cnt < 2 \/ rd_cnt >= 2
    BY <1>0 DEF AxisType
  <2> QED BY <2>1, <1>1, <1>2, <1>3, <1>4, <1>5, <1>6, <1>7, <1>8, <1>9, <1>10 DEF Clock, Fsm

LEMMA AxisStuttering == ASSUME AxisInv, UNCHANGED axisVars PROVE AxisInv'
  BY DEF axisVars, fsmVars, pinVars, dataVars, converterVars, AxisInv, AxisType, IdlePins, Converting, Reading

LEMMA AxisInvariance == AxisSpec => []AxisInv
<1>1. AxisInv /\ [AxisNext]_axisVars => AxisInv'
  BY AxisFsmStep, AxisStuttering DEF AxisNext
<1> QED BY <1>1, InitAxis, PTL DEF AxisSpec

-----------------------------------------------------------------------------
(* What it gives. *)

\* ad7606_axis.v: the word offered holds the first two channels of the latest
\* conversion, whenever BUSY comes and goes.
THEOREM LatestWord == AxisSpec => []WordIsLatest
<1>1. AxisInv => WordIsLatest
  BY DEF AxisInv, Reading, WordIsLatest
<1> QED BY <1>1, AxisInvariance, PTL

\* A word offered stays offered, unchanged, until it is taken.
THEOREM WordStays == AxisSpec => WordHeld
<1>1. AxisInv /\ [AxisNext]_axisVars
        => [tvalid = 1 /\ tready = 0 => tvalid' = 1 /\ UNCHANGED dataVars]_axisVars
  <2> SUFFICES ASSUME AxisInv, Clock, tvalid = 1, tready = 0
               PROVE  tvalid' = 1 /\ UNCHANGED dataVars
    BY DEF AxisNext
  <2>1. state = "OUTPUT"
    BY DEF AxisInv, IdlePins
  <2>2. Output
    BY <2>1 DEF Clock, Fsm, Reset, Idle, Conv, WaitConv, WaitBusy, Waits, Read, Done
  <2> QED BY <2>2 DEF Output
<1> QED BY <1>1, AxisInvariance, PTL DEF AxisSpec, WordHeld

-----------------------------------------------------------------------------
(* The two channels stay in step and a capture is one packet, for chains of    *)
(* any depth and decimation, every length of packet and every pattern of       *)
(* back-pressure.  The channels accept the samples of a pair at different      *)
(* edges, so their chains need not agree.  What always agrees are the chains   *)
(* as they will be once each channel has taken its pending sample: accepting a *)
(* sample does not change that, and a new pair is loaded only when both have   *)
(* been taken, which adds the same tick to both.                               *)

StreamType ==
  /\ now \in 0 .. Ticks - 1
  /\ ch1_s16 \in Sample /\ ch2_s16 \in Sample
  /\ ch1_pending \in BOOLEAN /\ ch2_pending \in BOOLEAN
  /\ phase1 \in Nat /\ phase2 \in Nat
  /\ chain1 \in Seq(Sample) /\ chain2 \in Seq(Sample)
  /\ cnt \in 0 .. PktLen - 1 /\ capturing \in BOOLEAN

\* Channel and phase once the pending sample has been taken.
Settled(pending, phase, chain, s) == IF pending THEN Pushed(phase, chain, s) ELSE chain
SettledPhase(pending, phase) == IF pending THEN Advance(phase) ELSE phase
Settled1 == Settled(ch1_pending, phase1, chain1, ch1_s16)
Settled2 == Settled(ch2_pending, phase2, chain2, ch2_s16)

Agree(c, d) == Len(c) = Len(d) /\ \A i \in 1 .. Len(c) : c[i].at = d[i].at

InStep ==
  /\ ch1_s16.at = ch2_s16.at
  /\ SettledPhase(ch1_pending, phase1) = SettledPhase(ch2_pending, phase2)
  /\ Agree(Settled1, Settled2)

-----------------------------------------------------------------------------
(* Sequences of samples. *)

LEMMA PushedType ==
  ASSUME NEW chain \in Seq(Sample), NEW sample \in Sample, NEW phase \in Nat
  PROVE  Pushed(phase, chain, sample) \in Seq(Sample) /\ Advance(phase) \in Nat
  BY DEF Pushed, Advance

LEMMA PushedAgrees ==
  ASSUME NEW c \in Seq(Sample), NEW d \in Seq(Sample), Agree(c, d),
         NEW x \in Sample, NEW y \in Sample, x.at = y.at, NEW phase \in Nat
  PROVE  Agree(Pushed(phase, c, x), Pushed(phase, d, y))
<1>1. CASE LastOfWord(phase)
  <2>1. Agree(Append(c, x), Append(d, y))
    <3>1. Len(Append(c, x)) = Len(c) + 1 /\ Len(Append(d, y)) = Len(c) + 1
      BY DEF Agree
    <3>2. ASSUME NEW i \in 1 .. Len(c) + 1
          PROVE  Append(c, x)[i].at = Append(d, y)[i].at
      <4>1. CASE i = Len(c) + 1
        BY <4>1 DEF Agree
      <4>2. CASE i # Len(c) + 1
        BY <4>2 DEF Agree
      <4> QED BY <4>1, <4>2
    <3> QED BY <3>1, <3>2 DEF Agree
  <2> QED BY <1>1, <2>1 DEF Pushed
<1>2. CASE ~LastOfWord(phase)
  BY <1>2 DEF Pushed
<1> QED BY <1>1, <1>2

\* What a channel will hold agrees with what it holds.
LEMMA SettledKeeps ==
  ASSUME NEW chain \in Seq(Sample), NEW sample \in Sample, NEW phase \in Nat,
         NEW pending \in BOOLEAN
  PROVE  /\ Settled(pending, phase, chain, sample) \in Seq(Sample)
         /\ Len(Settled(pending, phase, chain, sample)) >= Len(chain)
         /\ \A i \in 1 .. Len(chain) : Settled(pending, phase, chain, sample)[i] = chain[i]
  BY DEF Settled, Pushed

\* Taking the head off a chain takes it off what the channel will hold.
LEMMA SettledTail ==
  ASSUME NEW chain \in Seq(Sample), chain # <<>>, NEW sample \in Sample,
         NEW phase \in Nat, NEW pending \in BOOLEAN
  PROVE  /\ Len(Settled(pending, phase, Tail(chain), sample))
              = Len(Settled(pending, phase, chain, sample)) - 1
         /\ \A i \in 1 .. Len(Settled(pending, phase, Tail(chain), sample)) :
              Settled(pending, phase, Tail(chain), sample)[i]
                = Settled(pending, phase, chain, sample)[i + 1]
<1>1. CASE pending /\ LastOfWord(phase)
  <2>1. /\ Tail(chain) \in Seq(Sample) /\ Len(Tail(chain)) = Len(chain) - 1
        /\ Len(chain) \in Nat \ {0}
        /\ \A i \in 1 .. Len(chain) - 1 : Tail(chain)[i] = chain[i + 1]
    BY EmptySeq, HeadTailProperties
  <2>2. ASSUME NEW i \in 1 .. Len(chain)
        PROVE  Append(Tail(chain), sample)[i] = Append(chain, sample)[i + 1]
    <3>1. CASE i = Len(chain)
      BY <2>1, <3>1
    <3>2. CASE i # Len(chain)
      <4>0. Len(chain) \in Nat
        OBVIOUS
      <4>1. i \in 1 .. Len(chain) - 1 /\ i + 1 \in 1 .. Len(chain)
        BY <3>2, <4>0
      <4>2. Append(Tail(chain), sample)[i] = Tail(chain)[i]
        BY <2>1, <4>1
      <4>3. Append(chain, sample)[i + 1] = chain[i + 1]
        BY <4>1
      <4> QED BY <2>1, <4>1, <4>2, <4>3
    <3> QED BY <3>1, <3>2
  <2>3. Len(Append(chain, sample)) = Len(chain) + 1 /\ Len(Append(Tail(chain), sample)) = Len(chain)
    BY <2>1
  <2>4. /\ Settled(pending, phase, chain, sample) = Append(chain, sample)
        /\ Settled(pending, phase, Tail(chain), sample) = Append(Tail(chain), sample)
    BY <1>1 DEF Settled, Pushed
  <2>5. Len(chain) \in Nat
    OBVIOUS
  <2>6. Len(Append(Tail(chain), sample)) = Len(Append(chain, sample)) - 1
    BY <2>3, <2>5
  <2>7. \A i \in 1 .. Len(Append(Tail(chain), sample)) :
          Append(Tail(chain), sample)[i] = Append(chain, sample)[i + 1]
    BY <2>2, <2>3
  <2> QED BY <2>4, <2>6, <2>7
<1>2. CASE ~(pending /\ LastOfWord(phase))
  <2>1. Len(Tail(chain)) = Len(chain) - 1 /\ \A i \in 1 .. Len(Tail(chain)) : Tail(chain)[i] = chain[i + 1]
    BY EmptySeq, HeadTailProperties
  <2> QED BY <1>2, <2>1 DEF Settled, Pushed
<1> QED BY <1>1, <1>2

-----------------------------------------------------------------------------
LEMMA InitStream == StreamInit => StreamType /\ InStep /\ CaptureIsPacket
<1> SUFFICES ASSUME StreamInit PROVE StreamType /\ InStep /\ CaptureIsPacket
  OBVIOUS
<1>1. StreamType
  <2>1. [at |-> 0, old |-> TRUE] \in Sample
    BY StreamAssumption DEF Sample
  <2>2. <<>> \in Seq(Sample)
    OBVIOUS
  <2>3. 0 \in 0 .. Ticks - 1 /\ 0 \in 0 .. PktLen - 1 /\ 0 \in Nat
    BY StreamAssumption
  <2>4. /\ ch1_s16 \in Sample /\ ch2_s16 \in Sample
        /\ chain1 \in Seq(Sample) /\ chain2 \in Seq(Sample)
    BY <2>1, <2>2 DEF StreamInit
  <2> QED BY <2>3, <2>4 DEF StreamInit, StreamType
<1>2. InStep
  BY DEF StreamInit, InStep, Settled1, Settled2, Settled, SettledPhase, Agree
<1>3. CaptureIsPacket
  BY DEF StreamInit, CaptureIsPacket
<1> QED BY <1>1, <1>2, <1>3

LEMMA TypeStep ==
  ASSUME StreamType, [StreamNext]_streamVars
  PROVE  StreamType'
<1> USE StreamAssumption
<1>1. ASSUME NEW tready1 \in BOOLEAN, NEW tready2 \in BOOLEAN, AdcEdge(tready1, tready2)
      PROVE  StreamType'
  <2>1. now' \in 0 .. Ticks - 1
    BY <1>1 DEF AdcEdge, StreamType
  <2>2. NewSample \in Sample
    BY DEF NewSample, Sample, StreamType
  <2>3. /\ phase1' \in Nat /\ chain1' \in Seq(Sample)
        /\ phase2' \in Nat /\ chain2' \in Seq(Sample)
    BY <1>1, PushedType DEF AdcEdge, StreamType
  <2>4. /\ ch1_s16' \in Sample /\ ch1_pending' \in BOOLEAN
        /\ ch2_s16' \in Sample /\ ch2_pending' \in BOOLEAN
    BY <1>1, <2>2 DEF AdcEdge, StreamType
  <2> QED BY <1>1, <2>1, <2>3, <2>4 DEF AdcEdge, StreamType, dmaVars
<1>2. CASE StreamWord
  BY <1>2 DEF StreamWord, StreamType, adcVars, TLast
<1>3. CASE StartCapture
  <2>1. \A x \in Sample : Aged(x) \in Sample
    BY DEF Aged, Sample
  <2>2. AllAged(chain1) \in Seq(Sample) /\ AllAged(chain2) \in Seq(Sample)
    BY <2>1, SMTT(40) DEF AllAged, StreamType
  <2> QED BY <1>3, <2>1, <2>2 DEF StartCapture, StreamType
<1>4. CASE UNCHANGED streamVars
  BY <1>4 DEF streamVars, adcVars, dmaVars, StreamType
<1> QED BY <1>1, <1>2, <1>3, <1>4 DEF StreamNext

-----------------------------------------------------------------------------
\* The channels' side of an adc_clk edge: accepting changes nothing of what a
\* channel will hold, a load adds the same sample to both.
LEMMA EdgeInStep ==
  ASSUME StreamType, StreamType', InStep,
         NEW tready1 \in BOOLEAN, NEW tready2 \in BOOLEAN, AdcEdge(tready1, tready2)
  PROVE  InStep'
<1>1. CASE SampleEmptyNext(tready1, tready2)
  <2>1. chain1' = Settled1 /\ phase1' = SettledPhase(ch1_pending, phase1)
    BY <1>1 DEF AdcEdge, SampleEmptyNext, EmptyNext, Accept, Settled1, Settled,
                SettledPhase, StreamType
  <2>2. chain2' = Settled2 /\ phase2' = SettledPhase(ch2_pending, phase2)
    BY <1>1 DEF AdcEdge, SampleEmptyNext, EmptyNext, Accept, Settled2, Settled,
                SettledPhase, StreamType
  <2>3. ch1_s16' = ch2_s16' /\ ch1_pending' = TRUE /\ ch2_pending' = TRUE
    BY <1>1 DEF AdcEdge
  <2>4. phase1' = phase2' /\ Agree(chain1', chain2')
    BY <2>1, <2>2 DEF InStep
  <2>5. Agree(Pushed(phase1', chain1', ch1_s16'), Pushed(phase2', chain2', ch2_s16'))
    BY <2>3, <2>4, PushedAgrees DEF StreamType
  <2> QED BY <2>3, <2>4, <2>5 DEF InStep, Settled1, Settled2, Settled, SettledPhase
<1>2. CASE ~SampleEmptyNext(tready1, tready2)
  <2>1. /\ ch1_pending' = (ch1_pending /\ ~tready1) /\ ch2_pending' = (ch2_pending /\ ~tready2)
        /\ UNCHANGED <<ch1_s16, ch2_s16>>
    BY <1>2 DEF AdcEdge
  <2>2. Settled1' = Settled1 /\ SettledPhase(ch1_pending, phase1)'
                                = SettledPhase(ch1_pending, phase1)
    BY <2>1 DEF AdcEdge, Accept, Settled1, Settled, SettledPhase, StreamType
  <2>3. Settled2' = Settled2 /\ SettledPhase(ch2_pending, phase2)'
                                = SettledPhase(ch2_pending, phase2)
    BY <2>1 DEF AdcEdge, Accept, Settled2, Settled, SettledPhase, StreamType
  <2> QED BY <2>1, <2>2, <2>3 DEF InStep
<1> QED BY <1>1, <1>2

LEMMA WordInStep ==
  ASSUME StreamType, InStep, StreamWord
  PROVE  InStep'
<1>1. /\ chain1 # <<>> /\ chain1' = Tail(chain1)
      /\ chain2 # <<>> /\ chain2' = Tail(chain2) /\ UNCHANGED adcVars
  BY DEF StreamWord
<1>2. Len(Settled1') = Len(Settled1) - 1 /\ \A i \in 1 .. Len(Settled1') : Settled1'[i] = Settled1[i + 1]
  BY <1>1, SettledTail, ZenonT(60) DEF StreamType, Settled1, adcVars
<1>3. Len(Settled2') = Len(Settled2) - 1 /\ \A i \in 1 .. Len(Settled2') : Settled2'[i] = Settled2[i + 1]
  BY <1>1, SettledTail, ZenonT(60) DEF StreamType, Settled2, adcVars
<1>4. Settled1 \in Seq(Sample) /\ Settled2 \in Seq(Sample)
  BY SettledKeeps DEF StreamType, Settled1, Settled2
<1>5. Agree(Settled1', Settled2')
  BY <1>2, <1>3, <1>4 DEF InStep, Agree
<1> QED BY <1>1, <1>5 DEF InStep, adcVars, SettledPhase

\* Ageing leaves the ticks alone.
LEMMA SettledAged ==
  ASSUME NEW chain \in Seq(Sample), NEW sample \in Sample, NEW phase \in Nat,
         NEW pending \in BOOLEAN
  PROVE  Agree(Settled(pending, phase, AllAged(chain), Aged(sample)),
               Settled(pending, phase, chain, sample))
<1>1. \A x \in Sample : Aged(x) \in Sample /\ Aged(x).at = x.at
  BY DEF Aged, Sample
<1>2. AllAged(chain) \in Seq(Sample) /\ Agree(AllAged(chain), chain)
  BY <1>1 DEF AllAged, Agree
<1> QED BY <1>1, <1>2, PushedAgrees DEF Settled

LEMMA StartInStep ==
  ASSUME StreamType, InStep, StartCapture
  PROVE  InStep'
<1>1. Agree(Settled1', Settled1) /\ Agree(Settled2', Settled2)
  BY SettledAged DEF StreamType, StartCapture, Settled1, Settled2
<1>2. ch1_s16'.at = ch1_s16.at /\ ch2_s16'.at = ch2_s16.at
  BY DEF StartCapture, Aged, StreamType, Sample
<1> QED BY <1>1, <1>2 DEF InStep, Agree, StartCapture, SettledPhase

LEMMA StreamInvariance == StreamSpec => [](StreamType /\ InStep)
<1>1. StreamType /\ InStep /\ [StreamNext]_streamVars => (StreamType /\ InStep)'
  <2> SUFFICES ASSUME StreamType, InStep, [StreamNext]_streamVars PROVE StreamType' /\ InStep'
    OBVIOUS
  <2>1. StreamType'
    BY TypeStep
  <2>2. CASE UNCHANGED streamVars
    BY <2>1, <2>2 DEF streamVars, adcVars, InStep, Settled1, Settled2, Settled, SettledPhase
  <2> QED BY <2>1, <2>2, EdgeInStep, WordInStep, StartInStep DEF StreamNext
<1> QED BY <1>1, InitStream, PTL DEF StreamSpec

\* an9238_axis.v: "CH1 and CH2 do not get duplicated or misaligned", whatever
\* the two TREADYs do.
THEOREM StaysInStep == StreamSpec => []ChannelsInStep
<1>1. StreamType /\ InStep => ChannelsInStep
  <2> SUFFICES ASSUME StreamType, InStep, NEW i \in DOMAIN chain1 \cap DOMAIN chain2
               PROVE  chain1[i].at = chain2[i].at
    BY DEF ChannelsInStep
  <2>1. i \in 1 .. Len(chain1) /\ i \in 1 .. Len(chain2)
    BY DEF StreamType
  <2>2. Settled1[i] = chain1[i] /\ Settled2[i] = chain2[i] /\ i \in 1 .. Len(Settled1)
    <3>1. /\ Len(Settled1) >= Len(chain1) /\ Settled1 \in Seq(Sample)
          /\ \A j \in 1 .. Len(chain1) : Settled1[j] = chain1[j]
      BY SettledKeeps DEF StreamType, Settled1
    <3>2. \A j \in 1 .. Len(chain2) : Settled2[j] = chain2[j]
      BY SettledKeeps DEF StreamType, Settled2
    <3>3. Len(Settled1) \in Nat /\ Len(chain1) \in Nat
      BY <3>1 DEF StreamType
    <3> QED BY <2>1, <3>1, <3>2, <3>3
  <2> QED BY <2>2 DEF InStep, Agree
<1> QED BY <1>1, StreamInvariance, PTL

\* axis_tlast_gen.v: what a transfer receives is one whole packet.
THEOREM OnePacket == StreamSpec => []CaptureIsPacket
<1>1. StreamType /\ CaptureIsPacket /\ [StreamNext]_streamVars => CaptureIsPacket'
  <2> SUFFICES ASSUME StreamType, CaptureIsPacket, [StreamNext]_streamVars PROVE CaptureIsPacket'
    OBVIOUS
  <2>1. CASE UNCHANGED dmaVars
    BY <2>1 DEF CaptureIsPacket, dmaVars
  <2>2. CASE StreamWord
    <3>1. cnt = received /\ cnt \in Nat /\ received' = received + 1 /\ PktLen \in Nat
      BY <2>2, StreamAssumption DEF StreamWord, CaptureIsPacket, StreamType
    <3>2. CASE cnt = PktLen - 1
      <4>1. received' = PktLen
        BY <3>1, <3>2
      <4> QED BY <2>2, <3>2, <4>1 DEF StreamWord, TLast, CaptureIsPacket
    <3>3. CASE cnt # PktLen - 1
      BY <2>2, <3>1, <3>3 DEF StreamWord, TLast, CaptureIsPacket
    <3> QED BY <3>2, <3>3
  <2>3. CASE StartCapture
    BY <2>3 DEF StartCapture, CaptureIsPacket
  <2> QED BY <2>1, <2>2, <2>3 DEF StreamNext, AdcEdge, streamVars
<1> QED BY <1>1, StreamInvariance, InitStream, PTL DEF StreamSpec

-----------------------------------------------------------------------------
(* Words of samples taken before the capture come first: in what a channel *)
(* will hold they are a prefix, of length k, the same in both channels.    *)
(* With the words already received they are no more than a full chain and  *)
(* the pending sample made.                                                *)

OldUpTo(c, k) == k \in 0 .. Len(c) /\ \A i \in 1 .. Len(c) : c[i].old <=> i <= k

ChainsBounded == Len(chain1) <= Depth /\ Len(chain2) <= Depth

OldFirst ==
  /\ olds \in 0 .. Depth + 1
  /\ capturing => \E k \in Nat :
       /\ OldUpTo(Settled1, k) /\ OldUpTo(Settled2, k)
       /\ olds + k <= Depth + 1
       /\ seen_new => k = 0

\* A new sample goes behind the old ones.
LEMMA PushedNew ==
  ASSUME NEW c \in Seq(Sample), NEW k, OldUpTo(c, k),
         NEW sample \in Sample, ~sample.old, NEW phase \in Nat
  PROVE  OldUpTo(Pushed(phase, c, sample), k)
<1>1. CASE LastOfWord(phase)
  <2>1. Len(Append(c, sample)) = Len(c) + 1 /\ Len(c) \in Nat /\ k \in 0 .. Len(c)
    BY DEF OldUpTo
  <2>2. ASSUME NEW i \in 1 .. Len(c) + 1
        PROVE  Append(c, sample)[i].old <=> i <= k
    <3>1. CASE i = Len(c) + 1
      BY <2>1, <3>1
    <3>2. CASE i # Len(c) + 1
      <4>1. i \in 1 .. Len(c)
        BY <2>1, <3>2
      <4>2. Append(c, sample)[i] = c[i]
        BY <4>1
      <4> QED BY <4>1, <4>2 DEF OldUpTo
    <3> QED BY <3>1, <3>2
  <2>3. OldUpTo(Append(c, sample), k)
    BY <2>1, <2>2 DEF OldUpTo
  <2> QED BY <1>1, <2>3 DEF Pushed
<1>2. CASE ~LastOfWord(phase)
  BY <1>2 DEF Pushed
<1> QED BY <1>1, <1>2

\* Taking a word off the chain takes it off the old ones.
LEMMA TailOld ==
  ASSUME NEW chain \in Seq(Sample), chain # <<>>, NEW sample \in Sample,
         NEW phase \in Nat, NEW pending \in BOOLEAN, NEW k \in Nat,
         OldUpTo(Settled(pending, phase, chain, sample), k)
  PROVE  /\ Head(chain).old <=> k > 0
         /\ OldUpTo(Settled(pending, phase, Tail(chain), sample), IF k = 0 THEN 0 ELSE k - 1)
<1> DEFINE c == Settled(pending, phase, chain, sample)
           d == Settled(pending, phase, Tail(chain), sample)
<1>1. c \in Seq(Sample) /\ Len(c) >= Len(chain) /\ c[1] = chain[1] /\ Len(c) \in Nat
      /\ Len(chain) \in Nat /\ Len(chain) >= 1
  <2>1. Len(chain) \in Nat \ {0}
    BY EmptySeq
  <2>2. c \in Seq(Sample) /\ Len(c) >= Len(chain) /\ \A i \in 1 .. Len(chain) : c[i] = chain[i]
    BY SettledKeeps
  <2> HIDE DEF c
  <2> QED BY <2>1, <2>2
<1>2. d \in Seq(Sample) /\ Len(d) \in Nat
  <2>1. Tail(chain) \in Seq(Sample)
    BY HeadTailProperties
  <2>2. d \in Seq(Sample)
    BY <2>1 DEF Settled, Pushed
  <2> QED BY <2>2
<1>3. Len(d) = Len(c) - 1 /\ \A i \in 1 .. Len(d) : d[i] = c[i + 1]
  BY SettledTail
<1> HIDE DEF c, d
<1>4. Head(chain).old <=> k > 0
  <2>1. Head(chain) = c[1] /\ 1 \in 1 .. Len(c)
    BY <1>1
  <2>2. c[1].old <=> 1 <= k
    BY <2>1 DEF c, OldUpTo
  <2> QED BY <2>1, <2>2
<1>5. OldUpTo(d, IF k = 0 THEN 0 ELSE k - 1)
  <2>1. k \in 0 .. Len(c) /\ \A i \in 1 .. Len(c) : c[i].old <=> i <= k
    BY DEF c, OldUpTo
  <2>2. ASSUME NEW i \in 1 .. Len(d) PROVE d[i].old <=> i + 1 <= k
    BY <1>1, <1>2, <1>3, <2>1
  <2> QED BY <1>1, <1>2, <1>3, <2>1, <2>2 DEF OldUpTo
<1> QED BY <1>4, <1>5 DEF d

\* What the stream holds when a capture starts is old to the last word.
LEMMA AgedOld ==
  ASSUME NEW chain \in Seq(Sample), NEW sample \in Sample, NEW phase \in Nat,
         NEW pending \in BOOLEAN
  PROVE  LET c == Settled(pending, phase, AllAged(chain), Aged(sample))
         IN /\ OldUpTo(c, Len(c)) /\ Len(c) \in Nat
            /\ Len(c) = Len(Settled(pending, phase, chain, sample))
            /\ Len(c) <= Len(chain) + 1
<1> DEFINE c == Settled(pending, phase, AllAged(chain), Aged(sample))
<1>1. \A x \in Sample : Aged(x) \in Sample /\ Aged(x).old
  BY DEF Aged, Sample
<1>2. /\ AllAged(chain) \in Seq(Sample) /\ Len(AllAged(chain)) = Len(chain)
      /\ \A i \in 1 .. Len(chain) : AllAged(chain)[i].old
  BY <1>1 DEF AllAged
<1>3. CASE pending /\ LastOfWord(phase)
  <2>1. c = Append(AllAged(chain), Aged(sample))
        /\ Settled(pending, phase, chain, sample) = Append(chain, sample)
    BY <1>3 DEF Settled, Pushed
  <2>2. Len(c) = Len(chain) + 1 /\ Len(chain) \in Nat
        /\ Len(Settled(pending, phase, chain, sample)) = Len(chain) + 1
    BY <1>1, <1>2, <2>1
  <2>3. ASSUME NEW i \in 1 .. Len(chain) + 1 PROVE c[i].old
    <3>1. CASE i = Len(chain) + 1
      BY <1>1, <1>2, <2>1, <3>1
    <3>2. CASE i # Len(chain) + 1
      <4>1. i \in 1 .. Len(chain)
        BY <2>2, <3>2
      <4>2. c[i] = AllAged(chain)[i]
        BY <1>2, <2>1, <4>1
      <4> QED BY <1>2, <4>1, <4>2
    <3> QED BY <3>1, <3>2
  <2> HIDE DEF c
  <2>4. OldUpTo(c, Len(c))
    BY <2>2, <2>3 DEF OldUpTo
  <2> QED BY <2>2, <2>4 DEF c
<1>4. CASE ~(pending /\ LastOfWord(phase))
  <2>1. c = AllAged(chain) /\ Settled(pending, phase, chain, sample) = chain
    BY <1>4 DEF Settled, Pushed
  <2> HIDE DEF c
  <2>2. OldUpTo(c, Len(c)) /\ Len(c) = Len(chain) /\ Len(chain) \in Nat
    BY <1>2, <2>1 DEF OldUpTo
  <2> QED BY <2>1, <2>2 DEF c
<1> QED BY <1>3, <1>4

LEMMA EdgeOld ==
  ASSUME StreamType, StreamType', InStep, OldFirst,
         NEW tready1 \in BOOLEAN, NEW tready2 \in BOOLEAN, AdcEdge(tready1, tready2)
  PROVE  OldFirst'
<1>1. UNCHANGED <<olds, capturing, seen_new>>
  BY DEF AdcEdge, dmaVars
<1> SUFFICES ASSUME capturing, NEW k \in Nat, OldUpTo(Settled1, k), OldUpTo(Settled2, k)
             PROVE  OldUpTo(Settled1, k)' /\ OldUpTo(Settled2, k)'
  <2>1. \A k : OldUpTo(Settled1, k)' = OldUpTo(Settled1', k)
               /\ OldUpTo(Settled2, k)' = OldUpTo(Settled2', k)
    BY DEF OldUpTo
  <2> QED BY <1>1, <2>1 DEF OldFirst
<1>2. CASE SampleEmptyNext(tready1, tready2)
  <2>1. chain1' = Settled1 /\ chain2' = Settled2
    BY <1>2 DEF AdcEdge, SampleEmptyNext, EmptyNext, Accept, Settled1, Settled2, Settled,
                StreamType
  <2>2. ch1_s16' = NewSample /\ ch2_s16' = NewSample /\ ch1_pending' /\ ch2_pending'
    BY <1>2 DEF AdcEdge
  <2>3. NewSample \in Sample /\ ~NewSample.old
    BY DEF NewSample, Sample, StreamType
  <2>4. OldUpTo(Pushed(phase1', chain1', ch1_s16'), k)
    BY <2>1, <2>2, <2>3, PushedNew DEF StreamType
  <2>5. OldUpTo(Pushed(phase2', chain2', ch2_s16'), k)
    BY <2>1, <2>2, <2>3, PushedNew DEF StreamType
  <2> QED BY <2>2, <2>4, <2>5 DEF Settled1, Settled2, Settled, OldUpTo
<1>3. CASE ~SampleEmptyNext(tready1, tready2)
  <2>1. /\ ch1_pending' = (ch1_pending /\ ~tready1) /\ ch2_pending' = (ch2_pending /\ ~tready2)
        /\ UNCHANGED <<ch1_s16, ch2_s16>>
    BY <1>3 DEF AdcEdge
  <2>2. Settled1' = Settled1
    BY <2>1 DEF AdcEdge, Accept, Settled1, Settled, StreamType
  <2>3. Settled2' = Settled2
    BY <2>1 DEF AdcEdge, Accept, Settled2, Settled, StreamType
  <2> QED BY <2>2, <2>3 DEF OldUpTo
<1> QED BY <1>2, <1>3

LEMMA WordOld ==
  ASSUME StreamType, StreamType', InStep, OldFirst, StreamWord
  PROVE  OldFirst'
<1>1. PICK k \in Nat : /\ OldUpTo(Settled1, k) /\ OldUpTo(Settled2, k)
                       /\ olds + k <= Depth + 1 /\ (seen_new => k = 0)
  BY DEF StreamWord, OldFirst
<1> DEFINE l == IF k = 0 THEN 0 ELSE k - 1
<1>2. (Head(chain1).old <=> k > 0) /\ OldUpTo(Settled1', l)
  <2>1. chain1 # <<>> /\ Settled1' = Settled(ch1_pending, phase1, Tail(chain1), ch1_s16)
    BY DEF StreamWord, adcVars, Settled1, Settled
  <2> QED BY <1>1, <2>1, TailOld DEF StreamType, Settled1
<1>3. OldUpTo(Settled2', l)
  <2>1. chain2 # <<>> /\ Settled2' = Settled(ch2_pending, phase2, Tail(chain2), ch2_s16)
    BY DEF StreamWord, adcVars, Settled2, Settled
  <2> QED BY <1>1, <2>1, TailOld DEF StreamType, Settled2
<1>4. l \in Nat /\ olds' \in Nat /\ olds' + l = olds + k /\ (seen_new' => l = 0)
  <2>1. olds \in Nat
    BY StreamAssumption DEF OldFirst
  <2>2. CASE k = 0
    BY <1>2, <2>1, <2>2 DEF StreamWord
  <2>3. CASE k # 0
    <3>1. olds' = olds + 1 /\ ~seen_new /\ Head(chain1).old
      BY <1>1, <1>2, <2>3 DEF StreamWord
    <3>2. ~seen_new'
      BY <3>1 DEF StreamWord
    <3> QED BY <2>1, <2>3, <3>1, <3>2
  <2> QED BY <2>2, <2>3
<1>5. olds' + l <= Depth + 1 /\ olds' \in 0 .. Depth + 1
  <2>1. olds' + l <= Depth + 1
    BY <1>1, <1>4
  <2>2. l \in Nat /\ olds' \in Nat /\ Depth \in Nat
    BY <1>4, StreamAssumption
  <2> HIDE DEF l
  <2>3. \A a, b, d \in Nat : a + b <= d + 1 => a \in 0 .. d + 1
    OBVIOUS
  <2> QED BY <2>1, <2>2, <2>3
<1> HIDE DEF l
<1>6. OldUpTo(Settled1, l)' /\ OldUpTo(Settled2, l)'
  BY <1>2, <1>3 DEF OldUpTo
<1> QED BY <1>2, <1>3, <1>4, <1>5 DEF OldFirst, OldUpTo

LEMMA StartOld ==
  ASSUME StreamType, InStep, ChainsBounded, StartCapture
  PROVE  OldFirst'
<1> DEFINE k == Len(Settled1')
<1>1. /\ Settled1' = Settled(ch1_pending, phase1, AllAged(chain1), Aged(ch1_s16))
      /\ Settled2' = Settled(ch2_pending, phase2, AllAged(chain2), Aged(ch2_s16))
  BY DEF StartCapture, Settled1, Settled2, Settled
<1>2. /\ OldUpTo(Settled1', k) /\ k \in Nat /\ k = Len(Settled1) /\ k <= Len(chain1) + 1
  BY <1>1, AgedOld DEF StreamType, Settled1
<1>3. OldUpTo(Settled2', Len(Settled2')) /\ Len(Settled2') = Len(Settled2)
  BY <1>1, AgedOld DEF StreamType, Settled2
<1>4. Len(Settled1) = Len(Settled2)
  BY DEF InStep, Agree
<1>5. k <= Depth + 1 /\ Len(chain1) \in Nat
  BY <1>2, StreamAssumption DEF ChainsBounded, StreamType
<1>6. olds' = 0 /\ seen_new' = FALSE
  BY DEF StartCapture
<1> HIDE DEF k
<1>7. OldUpTo(Settled1', k) /\ OldUpTo(Settled2', k)
  BY <1>2, <1>3, <1>4
<1>8. olds' \in 0 .. Depth + 1 /\ olds' + k <= Depth + 1 /\ k \in Nat
  BY <1>2, <1>5, <1>6, StreamAssumption
<1> QED BY <1>6, <1>7, <1>8 DEF OldFirst, OldUpTo

\* A chain takes a word only when it has room for it.
LEMMA BoundedStep ==
  ASSUME StreamType, ChainsBounded, [StreamNext]_streamVars
  PROVE  ChainsBounded'
<1>0. Len(chain1) \in Nat /\ Len(chain2) \in Nat /\ Depth \in Nat
  BY StreamAssumption DEF StreamType
<1>1. ASSUME NEW tready1 \in BOOLEAN, NEW tready2 \in BOOLEAN, AdcEdge(tready1, tready2)
      PROVE  ChainsBounded'
  <2>1. Len(chain1') <= Depth
    BY <1>0, <1>1 DEF AdcEdge, MayAccept, Accept, Pushed, ChainsBounded, StreamType
  <2>2. Len(chain2') <= Depth
    BY <1>0, <1>1 DEF AdcEdge, MayAccept, Accept, Pushed, ChainsBounded, StreamType
  <2> QED BY <2>1, <2>2 DEF ChainsBounded
<1>2. CASE StreamWord
  BY <1>0, <1>2, EmptySeq, HeadTailProperties DEF StreamWord, ChainsBounded, StreamType
<1>3. CASE StartCapture
  <2>1. Len(AllAged(chain1)) = Len(chain1) /\ Len(AllAged(chain2)) = Len(chain2)
    <3>1. \A x \in Sample : Aged(x) \in Sample
      BY DEF Aged, Sample
    <3> QED BY <3>1 DEF AllAged, StreamType
  <2> QED BY <1>3, <2>1 DEF StartCapture, ChainsBounded
<1>4. CASE UNCHANGED streamVars
  BY <1>4 DEF streamVars, ChainsBounded
<1> QED BY <1>1, <1>2, <1>3, <1>4 DEF StreamNext

LEMMA OldInvariance == StreamSpec => [](StreamType /\ InStep /\ ChainsBounded /\ OldFirst)
<1>1. StreamInit => ChainsBounded /\ OldFirst
  BY StreamAssumption DEF StreamInit, ChainsBounded, OldFirst
<1>2. ASSUME StreamType, StreamType', InStep, ChainsBounded, OldFirst, [StreamNext]_streamVars
      PROVE  OldFirst'
  <2>1. CASE UNCHANGED streamVars
    BY <1>2, <2>1 DEF streamVars, adcVars, dmaVars, OldFirst, OldUpTo, Settled1, Settled2,
                      Settled
  <2> QED BY <1>2, <2>1, EdgeOld, WordOld, StartOld DEF StreamNext
<1> QED BY <1>1, <1>2, BoundedStep, StreamInvariance, PTL DEF StreamSpec

\* The samples taken before a capture come first in it, and make no more words
\* than the stream holds, whatever the depth of the chains, the decimation and
\* the back-pressure.
THEOREM FewOldWords == StreamSpec => []OldWordsAreFew
<1>1. ASSUME StreamType, OldFirst PROVE OldWordsAreFew
  <2>1. olds <= Depth + 1
    BY <1>1, StreamAssumption DEF OldFirst
  <2>2. ASSUME capturing, seen_new, NEW i \in DOMAIN chain1 \cap DOMAIN chain2
        PROVE  ~chain1[i].old /\ ~chain2[i].old
    <3>1. OldUpTo(Settled1, 0) /\ OldUpTo(Settled2, 0)
      BY <1>1, <2>2 DEF OldFirst
    <3>2. i \in 1 .. Len(chain1) /\ i \in 1 .. Len(chain2)
      BY <1>1, <2>2 DEF StreamType
    <3>3. Settled1[i] = chain1[i] /\ i \in 1 .. Len(Settled1)
      <4>1. /\ Len(Settled1) >= Len(chain1) /\ Settled1 \in Seq(Sample)
            /\ \A j \in 1 .. Len(chain1) : Settled1[j] = chain1[j]
        BY <1>1, SettledKeeps DEF StreamType, Settled1
      <4>2. Len(Settled1) \in Nat /\ Len(chain1) \in Nat
        BY <1>1, <4>1 DEF StreamType
      <4> QED BY <3>2, <4>1, <4>2
    <3>4. Settled2[i] = chain2[i] /\ i \in 1 .. Len(Settled2)
      <4>1. /\ Len(Settled2) >= Len(chain2) /\ Settled2 \in Seq(Sample)
            /\ \A j \in 1 .. Len(chain2) : Settled2[j] = chain2[j]
        BY <1>1, SettledKeeps DEF StreamType, Settled2
      <4>2. Len(Settled2) \in Nat /\ Len(chain2) \in Nat
        BY <1>1, <4>1 DEF StreamType
      <4> QED BY <3>2, <4>1, <4>2
    <3>5. ~(i <= 0)
      BY <3>2
    <3> QED BY <3>1, <3>3, <3>4, <3>5 DEF OldUpTo
  <2> QED BY <2>1, <2>2 DEF OldWordsAreFew
<1> QED BY <1>1, OldInvariance, PTL

\* Both together: a capture gets one packet, and of samples taken before it no
\* more than the stream held.
THEOREM WholeCaptures == StreamSpec => []CapturesAreWhole
  BY FewOldWords, OnePacket, PTL DEF CapturesAreWhole
=============================================================================
