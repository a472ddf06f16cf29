----------------------------- MODULE DacConfig -----------------------------
(***************************************************************************)
(* From a call of set_dac_freq (PS/src/amp_freq.c) to the configuration    *)
(* the DAC logic runs on (PL/src/dac_out.v).                               *)
(*                                                                         *)
(* set_dac_freq stores its words one AXI GPIO register at a time: a sine   *)
(* needs a frequency word, a phase word and the select bit, a triangle a   *)
(* step and the select bit.  All registers together are the bus that       *)
(* config_bus_cdc samples whenever its handshake is idle, so a snapshot    *)
(* may fall between any two stores.  The handshake is represented by the   *)
(* mailbox that ConfigBusCdc implements.  The words of a call are one      *)
(* value: the frequency word of a call for w is w, and so on.              *)
(***************************************************************************)
EXTENDS ConfigMailbox, Naturals, Sequences

CONSTANTS
  Word,       \* the words calls may ask for
  ZeroWord,   \* a register after reset
  Requests    \* for each port the calls get_ab's results may lead to

VARIABLES
  turn,       \* the port main() configures next
  todo,       \* the stores the current call has still to make
  calls,      \* for each port the last completed call and the current one
  hold_calls, \* history: calls when the snapshot hold was taken
  out_calls   \* history: calls when the snapshot in out was taken

psVars == <<turn, todo, calls>>
dacVars == <<mailVars, psVars, hold_calls, out_calls>>

Port == {"PORTA", "PORTB"}

Form == {"SIN", "TRI"}
Call == [form : Form, word : Word]
ResetCall == [form |-> "TRI", word |-> ZeroWord]   \* which = 0, step = 0
Register == {"freq", "phase", "step", "which"}

\* The GPIO registers: three words and a select bit (1 = DDS, 0 = triangle)
\* for each port.
AnyWord == Word \cup {ZeroWord}
Config == [freq : [Port -> AnyWord], phase : [Port -> AnyWord],
           step : [Port -> AnyWord], which : [Port -> {0, 1}]]
ResetConfig == [freq |-> [p \in Port |-> ZeroWord],
                phase |-> [p \in Port |-> ZeroWord],
                step |-> [p \in Port |-> ZeroWord],
                which |-> [p \in Port |-> 0]]

ASSUME ConfigAssumption ==
  /\ Bus = Config
  /\ Zero = ResetConfig
  /\ Empty \notin Bus
  /\ ZeroWord \notin Word
  /\ Requests \in [Port -> SUBSET Call]

AnyCall == Call \cup {ResetCall}
PortCalls == [Port -> [last : AnyCall, now : AnyCall]]

NoCalls == [p \in Port |-> [last |-> ResetCall, now |-> ResetCall]]

\* main() configures PORTA first.
SystemInit ==
  /\ Init
  /\ turn = "PORTA"
  /\ todo = <<>>
  /\ calls = NoCalls /\ hold_calls = NoCalls /\ out_calls = NoCalls

-----------------------------------------------------------------------------
(* set_dac_freq *)

Store(reg, val) == [reg |-> reg, val |-> val]

\* Mutant of Stores: the select bit comes first.
StoresSelectFirst(c) ==
  IF c.form = "SIN"
  THEN <<Store("which", 1), Store("freq", c.word), Store("phase", c.word)>>
  ELSE <<Store("which", 0), Store("step", c.word)>>

\* The stores of one call, in program order.
Stores(c) ==
  IF c.form = "SIN"
  THEN <<Store("freq", c.word), Store("phase", c.word), Store("which", 1)>>
  ELSE <<Store("step", c.word), Store("which", 0)>>

\* Mutant of Stored: a store that does not keep the other port's bits.
StoredBothPorts(config, p, st) ==
  [config EXCEPT ![st.reg] = [q \in Port |-> st.val]]

\* A store changes the port's register.  The select bits of both ports share
\* a register, which the code reads, changes in one bit and writes back.
Stored(config, p, st) == [config EXCEPT ![st.reg][p] = st.val]

\* main() calls set_dac_freq for port turn.
BeginCall(c) ==
  /\ todo = <<>>
  /\ c \in Requests[turn]
  /\ todo' = Stores(c)
  /\ calls' = [calls EXCEPT ![turn].now = c]
  /\ UNCHANGED <<mailVars, turn, hold_calls, out_calls>>

\* A store reaches its GPIO register; after the last one main() goes on to
\* the other port.
StoreNext ==
  /\ todo # <<>>
  /\ bus' = Stored(bus, turn, Head(todo))
  /\ Write
  /\ todo' = Tail(todo)
  /\ IF Len(todo) = 1
     THEN /\ calls' = [calls EXCEPT ![turn].last = calls[turn].now]
          /\ turn' \in Port \ {turn}
     ELSE UNCHANGED <<calls, turn>>
  /\ UNCHANGED <<hold_calls, out_calls>>

\* The handshake takes a snapshot of all registers, and delivers it.
PostSnapshot ==
  /\ UNCHANGED bus
  /\ Post
  /\ hold_calls' = calls
  /\ UNCHANGED <<psVars, out_calls>>

DeliverSnapshot ==
  /\ Deliver
  /\ out_calls' = hold_calls
  /\ UNCHANGED <<psVars, hold_calls>>

SystemNext ==
  \/ \E c \in Call : BeginCall(c)
  \/ StoreNext
  \/ PostSnapshot
  \/ DeliverSnapshot

SystemSpec == SystemInit /\ [][SystemNext]_dacVars

\* main() finishes the calls it begins, though it need not begin any; the
\* handshake keeps working (ConfigBusCdc, ImplementsFairMailbox).
FairSystemSpec ==
  /\ SystemSpec
  /\ WF_dacVars(StoreNext) /\ WF_dacVars(PostSnapshot) /\ WF_dacVars(DeliverSnapshot)

-----------------------------------------------------------------------------
(* Properties *)

SelectedForm(config, p) == IF config.which[p] = 1 THEN "SIN" ELSE "TRI"

\* The words the selected generator of port p runs on.
SelectedWords(config, p) ==
  IF config.which[p] = 1 THEN {config.freq[p], config.phase[p]}
  ELSE {config.step[p]}

\* The DAC never runs a wave form on words left over from before the call
\* that asked for it.  When a call changes the form, all its words arrive with
\* the form; when it does not, old words mix with new ones of that call only.
\* The store order in set_dac_freq and the whole-bus snapshot give this
\* together, and one port's calls never disturb the other port.
FormComesWithItsWords ==
  \A p \in Port :
    LET last == out_calls[p].last
        now == out_calls[p].now
        form == SelectedForm(out, p)
        words == SelectedWords(out, p)
    IN \/ form = last.form /\ form = now.form
            /\ words \subseteq {last.word, now.word}
       \/ form = last.form /\ form # now.form /\ words = {last.word}
       \/ form # last.form /\ form = now.form /\ words = {now.word}

\* The words of a port whose request stays the same reach the DAC, however
\* often the request is stored again and whatever the other port does.
SettlesOnRequest ==
  \A p \in Port, c \in Call :
    <>[](calls[p].now = c)
      => <>[](SelectedForm(out, p) = c.form
              /\ SelectedWords(out, p) = {c.word})
=============================================================================
