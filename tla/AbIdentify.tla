----------------------------- MODULE AbIdentify -----------------------------
(***************************************************************************)
(* Which two waves a mixture is made of: get_delta, which collects the     *)
(* peaks of the power spectrum, and get_ab, which reads frequencies and    *)
(* forms off them (PS/src/amp_freq.c).                                     *)
(*                                                                         *)
(* Power is normalised and counted in units of 1e-5; fft_out has the bins  *)
(* with power only.  A bin below the threshold does nothing in get_delta's *)
(* loop, so a step of the search goes on to the next bin above it.  deltas *)
(* is not cleared when it is allocated: a position get_delta did not store *)
(* may hold anything.                                                      *)
(***************************************************************************)
EXTENDS Naturals, Sequences

CONSTANTS
  FftEnd,     \* bins searched, half the length of the FFT
  Start,      \* the bin of MIN_FREQ, where the search begins
  Width,      \* get_delta's 2.5 kHz in bins
  Near,       \* get_ab's 1 kHz in bins
  Inputs,     \* what the ADC may see: its power spectrum and what it is
  Garbage     \* what uninitialised memory may hold

Bin == 0 .. FftEnd - 1

Form == {"SIN", "TRI"}
Wave == [freq : Nat, form : Form]
Waves == [a : Wave, b : Wave]
NoWave == [freq |-> 0, form |-> "SIN"]
NoWaves == [a |-> NoWave, b |-> NoWave]

ASSUME IdentifyAssumption ==
  /\ FftEnd \in Nat /\ Start \in Nat \ {0} /\ Width \in Nat /\ Near \in Nat
  /\ \A input \in Inputs :
       /\ input.truth \in Waves
       /\ DOMAIN input.power \subseteq Bin
       /\ input.power \in [DOMAIN input.power -> Nat]
  /\ Garbage \subseteq Nat

VARIABLES
  doing,      \* "search" in get_delta, "identify" in get_ab, "done"
  truth,      \* what the ADC sees (NoWaves if it is not two waves)
  fft_out,    \* the power of every bin that has any
  scan,       \* i of the loop: bins below this one have been searched
  delta_pos,  \* positions stored so far
  ab          \* the result

vars == <<doing, truth, fft_out, scan, delta_pos, ab>>

Init ==
  /\ doing = "search"
  /\ \E input \in Inputs : fft_out = input.power /\ truth = input.truth
  /\ scan = Start
  /\ delta_pos = <<>>
  /\ ab = NoWaves

-----------------------------------------------------------------------------
(* get_delta *)

Threshold == 300      \* 3e-3
Above(j) == fft_out[j] > Threshold
LastPos == delta_pos[Len(delta_pos)]

\* The bins the loop has still to act on, and the next of them.
ToSearch == {j \in DOMAIN fft_out : scan <= j /\ Above(j)}
IsNext(j) == j \in ToSearch /\ \A k \in ToSearch : j <= k

\* Mutants of IsNewPeak: any bin not at the last peak; Width not added.
IsNewPeakAny(j) == TRUE
IsNewPeakNear(j) == delta_pos = <<>> \/ LastPos + 1 < j

IsNewPeak(j) == delta_pos = <<>> \/ LastPos + Width < j

\* Mutants of IsTaller: the comparison the other way round; none.
IsLower(j) == LastPos + Width > j /\ fft_out[LastPos] > fft_out[j]
IsLater(j) == LastPos + Width > j

IsTaller(j) == LastPos + Width > j /\ fft_out[LastPos] < fft_out[j]

Stored(j) ==
  IF IsNewPeak(j) THEN Append(delta_pos, j)
  ELSE IF IsTaller(j) THEN [delta_pos EXCEPT ![Len(delta_pos)] = j]
  ELSE delta_pos

Search ==
  /\ doing = "search"
  /\ \E j \in ToSearch :
       /\ IsNext(j)
       /\ delta_pos' = Stored(j)
       /\ scan' = j + 1
  /\ UNCHANGED <<doing, truth, fft_out, ab>>

EndSearch ==
  /\ doing = "search"
  /\ ToSearch = {}
  /\ doing' = "identify"
  /\ UNCHANGED <<truth, fft_out, scan, delta_pos, ab>>

-----------------------------------------------------------------------------
(* get_ab *)

\* ADC_CLK/CIC_SAMPLE_RATE/FFT_SAMPLE_LEN in integers: 156 for 156.25 Hz.
freq_step == (64000000 \div 25) \div 16384

\* deltas as get_ab sees it, from position 0 on; it reads the first three
\* positions whether or not get_delta stored them.
Deltas ==
  {[k \in 0 .. Len(delta_pos) + 2 |->
      IF k < Len(delta_pos) THEN delta_pos[k + 1] ELSE rest[k - Len(delta_pos)]] :
   rest \in [0 .. 2 -> Garbage]}

\* The last stored position after p within 1 kHz of three times p's, or 0.
Third(d, p) ==
  LET thirds == {k \in p + 1 .. Len(delta_pos) - 1 :
                   d[k] + Near > 3 * d[p] /\ d[k] < 3 * d[p] + Near}
  IN IF thirds = {} THEN 0 ELSE CHOOSE k \in thirds : \A l \in thirds : l <= k

HasFifth(d) ==
  \E k \in DOMAIN fft_out :
    k + Near >= 5 * d[0] /\ k < 5 * d[0] + Near /\ fft_out[k] > 40   \* 4e-4

\* Mutant of FormA: a third harmonic alone makes a triangle.
FormAThirdOnly(d) == IF Third(d, 0) = 0 THEN "SIN" ELSE "TRI"

FormA(d) ==
  IF Third(d, 0) = 0 THEN "SIN"
  ELSE IF 10 * fft_out[d[Third(d, 0)]] < fft_out[d[0]] \/ HasFifth(d) THEN "TRI"
  ELSE "SIN"

PosB(d) ==
  IF FormA(d) = "SIN" \/ Third(d, 0) > 1 THEN 1
  ELSE IF d[2] * freq_step < 110000 THEN 2 ELSE 1

FormB(d) == IF Third(d, PosB(d)) # 0 THEN "TRI" ELSE "SIN"

\* To the nearest multiple of 5 kHz.
Rounded(freq) ==
  LET tmp == freq \div 5000
  IN IF freq - tmp * 5000 > 2500 THEN (tmp + 1) * 5000 ELSE tmp * 5000

Identify ==
  /\ doing = "identify"
  /\ doing' = "done"
  /\ \E d \in Deltas :
       ab' = [a |-> [freq |-> Rounded(d[0] * freq_step), form |-> FormA(d)],
              b |-> [freq |-> Rounded(d[PosB(d)] * freq_step),
                     form |-> FormB(d)]]
  /\ UNCHANGED <<truth, fft_out, scan, delta_pos>>

-----------------------------------------------------------------------------
Next == Search \/ EndSearch \/ Identify

Spec == Init /\ [][Next]_vars

-----------------------------------------------------------------------------
(* Properties *)

Peaks == {delta_pos[k] : k \in 1 .. Len(delta_pos)}
Searched == {j \in DOMAIN fft_out : Start <= j /\ j < scan}

\* Peaks are stored in rising order and more than 2.5 kHz apart, so leakage
\* around one line is not taken for several.
PeaksApart ==
  \A k, l \in 1 .. Len(delta_pos) :
    k < l => delta_pos[k] + Width < delta_pos[l]

\* A stored peak is the tallest bin of the 2.5 kHz that begin with it.
TallestOfItsWidth ==
  \A p \in Peaks : \A j \in Searched :
    p <= j /\ j < p + Width => fft_out[j] <= fft_out[p]

\* A bin above the threshold is left out only for a peak at most 2.5 kHz below
\* it or for a taller bin less than 2.5 kHz above it.
NothingForgotten ==
  \A j \in Searched :
    Above(j) =>
      \/ \E p \in Peaks : p <= j /\ j <= p + Width
      \/ \E k \in Searched : j < k /\ k < j + Width /\ fft_out[j] < fft_out[k]

\* A triangle's third harmonic hides under a sine three times as high.
Hidden == truth.a.form = "TRI" /\ truth.b.form = "SIN"
            /\ truth.b.freq = 3 * truth.a.freq

\* Every mixture of two waves is identified, frequencies and forms, except
\* where B covers A's third harmonic.
IdentifiedUnlessHidden ==
  doing = "done" /\ truth # NoWaves /\ ~Hidden => ab = truth

=============================================================================
