---------------------------- MODULE MCAbIdentify ----------------------------
(***************************************************************************)
(* AbIdentify for TLC, with the bins, widths and thresholds of the code:   *)
(* every mixture of two waves the device is made for (20 kHz to 100 kHz in *)
(* steps of 5 kHz, each a sine or a triangle of 1 V), and every spectrum   *)
(* of a few lines close together.                                          *)
(***************************************************************************)
EXTENDS AbIdentify, Integers, FiniteSetsExt

CONSTANTS
  Crowd,    \* bins of the crowded spectra
  Powers    \* their powers

\* A mixture; sign says whether B's harmonics add to A's where they coincide.
Mixture == {m \in [fa : 4 .. 20, fb : 4 .. 20, a : Form, b : Form, sign : {-1, 1}] :
              m.fa < m.fb}

\* Amplitudes of the harmonics, the sine's 1000: a triangle's are 8/pi^2/n^2.
\* Above the seventh all are below every threshold.
Amplitude(form, n) ==
  CASE n = 1 -> IF form = "SIN" THEN 1000 ELSE 811
    [] n \in {3, 5, 7} /\ form = "TRI" -> 811 \div (n * n)
    [] OTHER -> 0

\* 5 kHz are 32 bins: every harmonic of a wave falls on a bin.
Harmonics == {1, 3, 5, 7}
Line(f, form, j) ==
  IF j > 0 /\ j % (32 * f) = 0 THEN Amplitude(form, j \div (32 * f)) ELSE 0

MixtureBins(m) == {32 * m.fa * n : n \in Harmonics} \cup {32 * m.fb * n : n \in Harmonics}
MixtureAmplitude(m, j) ==
  LET s == Line(m.fa, m.a, j) + m.sign * Line(m.fb, m.b, j)
  IN IF s < 0 THEN -s ELSE s

SpectrumOf(m) ==
  LET bins == MixtureBins(m)
      largest == Max({MixtureAmplitude(m, j) : j \in bins})
      relative(j) == (1000 * MixtureAmplitude(m, j)) \div largest
  IN [j \in bins |-> (relative(j) * relative(j)) \div 10]

Hz(f) == 5000 * f

\* The mixtures, and crowded spectra that are no mixture.
MCInputs ==
  {[power |-> SpectrumOf(m),
    truth |-> [a |-> [freq |-> Hz(m.fa), form |-> m.a],
               b |-> [freq |-> Hz(m.fb), form |-> m.b]]] : m \in Mixture}
  \cup {[power |-> powers, truth |-> NoWaves] : powers \in [Crowd -> Powers]}
=============================================================================
