----------------------------- MODULE AdcStream -----------------------------
(***************************************************************************)
(* The sample stream from the AD9238 to the DMA: the two-channel driver    *)
(* an9238_axis.v, one decimating chain per channel (two CIC filters and a  *)
(* clock converter of PL/build.tcl), the AXIS combiner that joins the      *)
(* channels again, axis_tlast_gen.v and the DMA's S2MM channel.            *)
(*                                                                         *)
(* A chain stalls its input whenever it likes, and must when it is full,   *)
(* so the two channels' TREADYs differ at any time.  build.tcl sets no     *)
(* output TREADY on the CIC filters: that they pass a stall on and drop no *)
(* word is an assumption.  A sample is the tick it was taken at, counted   *)
(* modulo Ticks, and whether it was taken before the capture began.        *)
(***************************************************************************)
EXTENDS Naturals, Sequences

CONSTANTS
  Ticks,   \* modulus of the sample clock, longer than the stream is deep
  Decim,   \* samples a chain makes one word of (5 x 5 in build.tcl)
  Depth,   \* words a chain holds
  PktLen   \* words between two TLASTs

ASSUME StreamAssumption ==
  Ticks \in Nat \ {0} /\ Decim \in Nat \ {0} /\ Depth \in Nat \ {0}
    /\ PktLen \in Nat \ {0}

VARIABLES
  now,                       \* the tick of the sample at the ADC's pins
  ch1_s16, ch1_pending,      \* an9238_axis, channel 1
  ch2_s16, ch2_pending,      \* an9238_axis, channel 2
  phase1, chain1,            \* channel 1's chain: samples of the next word,
  phase2, chain2,            \*   words it holds; and channel 2's
  cnt,                       \* axis_tlast_gen
  capturing, received,       \* the DMA: transfer running, its words so far
  olds, seen_new             \* history: old words, any new word among them

adcVars == <<now, ch1_s16, ch1_pending, ch2_s16, ch2_pending,
             phase1, phase2>>
dmaVars == <<cnt, capturing, received, olds, seen_new>>
streamVars == <<adcVars, chain1, chain2, dmaVars>>

Sample == [at : 0 .. Ticks - 1, old : BOOLEAN]

StreamInit ==
  /\ now = 0
  /\ ch1_s16 = [at |-> 0, old |-> TRUE] /\ ch1_pending = FALSE
  /\ ch2_s16 = [at |-> 0, old |-> TRUE] /\ ch2_pending = FALSE
  /\ phase1 = 0 /\ chain1 = <<>> /\ phase2 = 0 /\ chain2 = <<>>
  /\ cnt = 0 /\ capturing = FALSE /\ received = 0
  /\ olds = 0 /\ seen_new = FALSE

-----------------------------------------------------------------------------
(* The chains, outside this code: Decim samples in, one word out. *)

LastOfWord(phase) == phase = Decim - 1
MayAccept(phase, chain) == LastOfWord(phase) => Len(chain) < Depth
Advance(phase) == IF LastOfWord(phase) THEN 0 ELSE phase + 1
Pushed(phase, chain, s) == IF LastOfWord(phase) THEN Append(chain, s) ELSE chain

(* an9238_axis *)

Accept(pending, tready) == pending /\ tready

\* A channel is empty after this edge unless its sample stays unaccepted; a
\* new pair is loaded only when both are.
EmptyNext(pending, tready) == ~pending \/ Accept(pending, tready)
\* Mutants of SampleEmptyNext: the pair is loaded when channel 1 is empty; a
\* pair is loaded only as the last one leaves.
SampleEmptyNextOne(tready1, tready2) == EmptyNext(ch1_pending, tready1)
SampleEmptyNextAccepted(tready1, tready2) ==
  Accept(ch1_pending, tready1) /\ Accept(ch2_pending, tready2)

SampleEmptyNext(tready1, tready2) ==
  EmptyNext(ch1_pending, tready1) /\ EmptyNext(ch2_pending, tready2)

NewSample == [at |-> now, old |-> ~capturing]

\* An adc_clk edge.  Samples that find the pair register occupied are dropped.
AdcEdge(tready1, tready2) ==
  /\ tready1 => MayAccept(phase1, chain1)
  /\ tready2 => MayAccept(phase2, chain2)
  /\ now' = (now + 1) % Ticks
  /\ IF SampleEmptyNext(tready1, tready2)
     THEN /\ ch1_s16' = NewSample /\ ch1_pending' = TRUE
          /\ ch2_s16' = NewSample /\ ch2_pending' = TRUE
     ELSE /\ ch1_pending' = (ch1_pending /\ ~tready1)
          /\ ch2_pending' = (ch2_pending /\ ~tready2)
          /\ UNCHANGED <<ch1_s16, ch2_s16>>
  /\ IF Accept(ch1_pending, tready1)
     THEN phase1' = Advance(phase1) /\ chain1' = Pushed(phase1, chain1, ch1_s16)
     ELSE UNCHANGED <<phase1, chain1>>
  /\ IF Accept(ch2_pending, tready2)
     THEN phase2' = Advance(phase2) /\ chain2' = Pushed(phase2, chain2, ch2_s16)
     ELSE UNCHANGED <<phase2, chain2>>
  /\ UNCHANGED dmaVars

(* The combiner, axis_tlast_gen and the DMA *)

\* Mutant of TLast: one word early.
TLastEarly == cnt = PktLen - 2

TLast == cnt = PktLen - 1

\* An aclk edge with a handshake: the combiner joins the heads of the chains,
\* axis_tlast_gen passes the word on and counts it, and TLAST ends the DMA's
\* transfer.
StreamWord ==
  /\ capturing
  /\ chain1 # <<>> /\ chain2 # <<>>
  /\ chain1' = Tail(chain1) /\ chain2' = Tail(chain2)
  /\ cnt' = IF TLast THEN 0 ELSE cnt + 1
  /\ received' = received + 1
  /\ capturing' = ~TLast
  /\ olds' = IF Head(chain1).old THEN olds + 1 ELSE olds
  /\ seen_new' = (seen_new \/ ~Head(chain1).old)
  /\ UNCHANGED adcVars

Aged(s) == [s EXCEPT !.old = TRUE]
AllAged(chain) == [i \in DOMAIN chain |-> Aged(chain[i])]

\* The PS starts a transfer; what the stream holds was sampled before it.
StartCapture ==
  /\ ~capturing
  /\ capturing' = TRUE /\ received' = 0 /\ olds' = 0 /\ seen_new' = FALSE
  /\ ch1_s16' = Aged(ch1_s16) /\ ch2_s16' = Aged(ch2_s16)
  /\ chain1' = AllAged(chain1) /\ chain2' = AllAged(chain2)
  /\ UNCHANGED <<now, ch1_pending, ch2_pending, phase1, phase2, cnt>>

-----------------------------------------------------------------------------
StreamNext ==
  \/ \E tready1, tready2 \in BOOLEAN : AdcEdge(tready1, tready2)
  \/ StreamWord
  \/ StartCapture

StreamSpec == StreamInit /\ [][StreamNext]_streamVars

\* The ADC clock runs; a chain that can accept does not stall its channel for
\* ever; the DMA takes words while it captures.
Accepting1 == \E tready2 \in BOOLEAN : AdcEdge(TRUE, tready2)
Accepting2 == \E tready1 \in BOOLEAN : AdcEdge(tready1, TRUE)

StreamFairSpec ==
  /\ StreamSpec
  /\ WF_streamVars(Accepting1) /\ WF_streamVars(Accepting2)
  /\ WF_streamVars(StreamWord)

-----------------------------------------------------------------------------
(* Properties *)

\* The channels stay in step: the words the combiner joins were sampled at the
\* same tick, however the two TREADYs went (an9238_axis.v, "CH1 and CH2 do not
\* get duplicated or misaligned").
ChannelsInStep ==
  \A i \in DOMAIN chain1 \cap DOMAIN chain2 : chain1[i].at = chain2[i].at

\* The samples taken before a capture come first in it, and are no more than
\* the stream holds.
OldWordsAreFew ==
  /\ olds <= Depth + 1
  /\ capturing /\ seen_new =>
       \A i \in DOMAIN chain1 \cap DOMAIN chain2 :
          ~chain1[i].old /\ ~chain2[i].old

\* A capture is one whole packet, and the next one begins with the next packet.
CaptureIsPacket ==
  /\ capturing => cnt = received
  /\ ~capturing => cnt = 0 /\ received \in {0, PktLen}

\* A capture gets one packet, and of samples taken before it no more than the
\* stream held: the two above.
CapturesAreWhole == OldWordsAreFew /\ CaptureIsPacket

\* A capture that has begun gets its packet.
CaptureCompletes == capturing ~> ~capturing
=============================================================================
