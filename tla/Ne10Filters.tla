---------------------------- MODULE Ne10Filters ----------------------------
(***************************************************************************)
(* The filters of the NE10 library in plain C (ne10/modules/dsp/           *)
(* NE10_fir.c, NE10_iir.c and their *_init.c): each is called with one     *)
(* block of a signal after the other and carries what it needs of the      *)
(* earlier ones in its state array.                                        *)
(*                                                                         *)
(* One step is one call.  Most filters work on four samples at a time and  *)
(* then on single ones; both are a group here.  Arithmetic is modulo       *)
(* Modulus, so exact; rounding is not modelled.  Every filter is linear,   *)
(* so signals that are 1 at one place and 0 elsewhere stand for all.       *)
(***************************************************************************)
EXTENDS Integers, Sequences, SequencesExt

CONSTANTS
  Modulus,
  Filters,    \* filters to be tried
  Signal,     \* samples of the signal
  MaxBlock    \* blockSize given to the init functions

(* What a filter is: kind, pCoeffs (1-based), and                          *)
(* ratio: M or L; delays: pTapDelay; ladder: pvCoeffs.                     *)
Kinds == {"fir", "decimate", "interpolate", "lattice", "sparse", "iir"}

ASSUME FiltersAssumption ==
  /\ Modulus \in Nat \ {0} /\ Signal \in Nat /\ MaxBlock \in Nat \ {0}
  /\ \A f \in Filters :
       /\ f.kind \in Kinds /\ f.ratio \in 1 .. MaxBlock
       /\ f.coeffs \in Seq(Int) \ {<<>>}
       \* What the init functions check, or their comments ask for.
       /\ f.kind = "decimate" => MaxBlock % f.ratio = 0
       /\ f.kind = "interpolate" => Len(f.coeffs) % f.ratio = 0
       /\ f.kind = "sparse" => f.delays \in [DOMAIN f.coeffs -> 0 .. f.maxDelay]
       /\ f.kind = "iir" => f.ladder \in Seq(Int) /\ Len(f.ladder) = Len(f.coeffs) + 1

VARIABLES
  filter,        \* S, without pState and stateIndex
  impulse,       \* the place of the 1 in the signal
  taken,         \* samples filtered so far
  pState,        \* the state array
  stateIndex,    \* of the sparse filter
  result         \* everything written to pDst

filterVars == <<filter, impulse, taken, pState, stateIndex, result>>

-----------------------------------------------------------------------------
kind == filter.kind
coeffs == filter.coeffs
ratio == filter.ratio
Sample(n) == IF n = impulse THEN 1 ELSE 0
\* The next w samples from offset p of the block on.
Source(p, w) == [j \in 1 .. w |-> Sample(taken + p + j)]

MulAdd(a, b, c) == (a + b * c) % Modulus

\* Consecutive stores from offset p on.
Held(s, p, xs) ==
  [k \in DOMAIN s |-> IF k - p \in 0 .. Len(xs) - 1 THEN xs[k - p + 1] ELSE s[k]]

\* Mutant of Kept: nothing is copied.
NothingKept(s, p, n) == s

\* The copy that ends a call: what is at p is needed by the next one.
Kept(s, p, n) == [k \in DOMAIN s |-> IF k < n THEN s[p + k] ELSE s[k]]

\* blockSize >> 2 groups of four, then blockSize % 4 single samples.
Groups(blockSize) ==
  [g \in 1 .. blockSize \div 4 + (blockSize % 4) |-> IF g <= blockSize \div 4 THEN 4 ELSE 1]
Ones(n) == [g \in 1 .. n |-> 1]

phaseLength == Len(coeffs) \div ratio

\* The init functions: how long pState is, and that it is cleared.
StateLength(f) ==
  CASE f.kind \in {"fir", "decimate"} -> Len(f.coeffs) + MaxBlock - 1
    [] f.kind = "interpolate" -> Len(f.coeffs) \div f.ratio + MaxBlock - 1
    [] f.kind = "lattice" -> Len(f.coeffs)
    [] f.kind = "sparse" -> f.maxDelay + MaxBlock
    [] f.kind = "iir" -> Len(f.coeffs) + MaxBlock

FilterInit ==
  /\ filter \in Filters
  /\ impulse \in 1 .. Signal
  /\ taken = 0
  /\ pState = [k \in 0 .. StateLength(filter) - 1 |-> 0]
  /\ stateIndex = 0
  /\ result = <<>>

-----------------------------------------------------------------------------
(* A group's step is from a record [s, p, out]: the state array, the       *)
(* offset of its first sample and what was written; Filtering runs the groups.  *)

Filtering(Group(_, _), groups) ==
  FoldLeft(Group, [s |-> pState, p |-> 0, out |-> <<>>], groups)

\* Accumulators of w samples at once, over a window that slides tap by tap.
Accumulate(s, p, w) ==
  LET Tap(a, t) ==
        LET window == Append(a.window, s[p + w + t - 2])
        IN [acc |-> [j \in 1 .. w |-> MulAdd(a.acc[j], window[j], coeffs[t])],
            window |-> Tail(window)]
      start == [acc |-> [j \in 1 .. w |-> 0], window |-> [j \in 1 .. w - 1 |-> s[p + j - 1]]]
  IN FoldLeftDomain(Tap, start, coeffs).acc

FirGroup(r, w) ==
  LET s == Held(r.s, r.p + Len(coeffs) - 1, Source(r.p, w))
  IN [s |-> s, p |-> r.p + w, out |-> r.out \o Accumulate(s, r.p, w)]

\* ne10_fir_float_c
Fir(blockSize) ==
  /\ kind = "fir"
  /\ LET end == Filtering(FirGroup, Groups(blockSize))
     IN /\ pState' = Kept(end.s, end.p, Len(coeffs) - 1)
        /\ result' = result \o end.out
  /\ UNCHANGED stateIndex

DecimateGroup(r, w) ==
  LET s == Held(r.s, r.p + Len(coeffs) - 1, Source(r.p, ratio))
  IN [s |-> s, p |-> r.p + ratio, out |-> r.out \o Accumulate(s, r.p, 1)]

\* ne10_fir_decimate_float_c
Decimate(blockSize) ==
  /\ kind = "decimate"
  /\ blockSize % ratio = 0
  /\ LET end == Filtering(DecimateGroup, Ones(blockSize \div ratio))
     IN /\ pState' = Kept(end.s, end.p, Len(coeffs) - 1)
        /\ result' = result \o end.out
  /\ UNCHANGED stateIndex

\* One sample in, one out of every phase of the coefficients.
InterpolateGroup(r, w) ==
  LET s == Held(r.s, r.p + phaseLength - 1, Source(r.p, 1))
      Phase(j) == FoldLeft(LAMBDA acc, t : MulAdd(acc, s[r.p + t - 1],
                                                  coeffs[(ratio - j) + (t - 1) * ratio + 1]),
                           0, [t \in 1 .. phaseLength |-> t])
  IN [s |-> s, p |-> r.p + 1, out |-> r.out \o [j \in 1 .. ratio |-> Phase(j)]]

\* ne10_fir_interpolate_float_c
Interpolate(blockSize) ==
  /\ kind = "interpolate"
  /\ LET end == Filtering(InterpolateGroup, Ones(blockSize))
     IN /\ pState' = Kept(end.s, end.p, phaseLength - 1)
        /\ result' = result \o end.out
  /\ UNCHANGED stateIndex

\* A group through all stages; g of the last sample stays in the state.
LatticeGroup(r, w) ==
  LET Stage(a, m) ==
        LET g == <<a.s[m - 1]>> \o SubSeq(a.g, 1, w - 1)
        IN [f |-> [j \in 1 .. w |-> MulAdd(a.f[j], coeffs[m], g[j])],
            g |-> [j \in 1 .. w |-> MulAdd(g[j], a.f[j], coeffs[m])],
            s |-> [a.s EXCEPT ![m - 1] = a.g[w]]]
      xs == Source(r.p, w)
      end == FoldLeftDomain(Stage, [f |-> xs, g |-> xs, s |-> r.s], coeffs)
  IN [s |-> end.s, p |-> r.p + w, out |-> r.out \o end.f]

\* ne10_fir_lattice_float_c
Lattice(blockSize) ==
  /\ kind = "lattice"
  /\ LET end == Filtering(LatticeGroup, Groups(blockSize))
     IN pState' = end.s /\ result' = result \o end.out
  /\ UNCHANGED stateIndex

-----------------------------------------------------------------------------
(* The sparse filter, whose state is a ring of maxDelay + blockSize.       *)

Wrapped(index, size) == IF index >= size THEN index - size ELSE index

CircularWrite(s, size, offset, xs) ==
  FoldLeft(LAMBDA r, x : [s |-> [r.s EXCEPT ![r.offset] = x],
                          offset |-> Wrapped(r.offset + 1, size)],
           [s |-> s, offset |-> offset], xs)

CircularRead(s, size, offset, n) ==
  FoldLeft(LAMBDA r, x : [dst |-> Append(r.dst, s[r.offset]),
                          offset |-> Wrapped(r.offset + 1, size)],
           [dst |-> <<>>, offset |-> offset], Ones(n)).dst

ReadIndex(index, delay, blockSize, size) ==
  LET k == (index - blockSize) - delay IN IF k < 0 THEN k + size ELSE k

\* ne10_fir_sparse_float_c, with the blockSize of its init at every call: the
\* size of the ring depends on it.
Sparse(blockSize) ==
  /\ kind = "sparse"
  /\ blockSize = MaxBlock
  /\ LET size == filter.maxDelay + blockSize
         ring == CircularWrite(pState, size, stateIndex, Source(0, blockSize))
         Tap(acc, t) ==
           LET px == CircularRead(ring.s, size,
                       ReadIndex(ring.offset, filter.delays[t], blockSize, size), blockSize)
           IN [j \in 1 .. blockSize |-> MulAdd(acc[j], px[j], coeffs[t])]
     IN /\ pState' = ring.s
        /\ stateIndex' = ring.offset
        /\ result' = result \o FoldLeftDomain(Tap, [j \in 1 .. blockSize |-> 0], coeffs)

-----------------------------------------------------------------------------
(* The recursive lattice.  A sample leaves its values of g one place       *)
(* before where the next sample looks for them, and the state moves on.    *)

IirGroup(r, w) ==
  LET N == Len(coeffs)
      Stage(a, m) ==
        LET gcurr == a.s[r.p + m - 1]
            fnext == MulAdd(a.f, -coeffs[m], gcurr)
            gnext == MulAdd(gcurr, fnext, coeffs[m])
        IN [f |-> fnext, s |-> [a.s EXCEPT ![r.p + m - 1] = gnext],
            acc |-> MulAdd(a.acc, gnext, filter.ladder[N + 2 - m])]
      end == FoldLeftDomain(Stage, [f |-> Source(r.p, 1)[1], s |-> r.s, acc |-> 0], coeffs)
  IN [s |-> [end.s EXCEPT ![r.p + N] = end.f], p |-> r.p + 1,
      out |-> Append(r.out, MulAdd(end.acc, end.f, filter.ladder[1]))]

\* ne10_iir_lattice_float_c
Iir(blockSize) ==
  /\ kind = "iir"
  /\ LET end == Filtering(IirGroup, Ones(blockSize))
     IN /\ pState' = Kept(end.s, blockSize, Len(coeffs))
        /\ result' = result \o end.out
  /\ UNCHANGED stateIndex

-----------------------------------------------------------------------------
FilterNext ==
  \E blockSize \in 1 .. MaxBlock :
    /\ taken + blockSize <= Signal
    /\ \/ Fir(blockSize) \/ Decimate(blockSize) \/ Interpolate(blockSize)
       \/ Lattice(blockSize) \/ Sparse(blockSize) \/ Iir(blockSize)
    /\ taken' = taken + blockSize
    /\ UNCHANGED <<filter, impulse>>

-----------------------------------------------------------------------------
(* Properties *)

\* y[n] = b[0] x[n] + ... + b[N-1] x[n-N+1]; pCoeffs is in reverse order.
Convolution(n, x(_)) ==
  FoldLeftDomain(LAMBDA acc, t : MulAdd(acc, coeffs[t], x(n - (Len(coeffs) - t))), 0, coeffs)

\* Every sample on its own through the lattices, from g values of 0; g[m] is
\* g_m-1 of the sample before.
LatticeSample(r, n) ==
  LET Stage(a, m) == [f |-> MulAdd(a.f, coeffs[m], r.g[m]),
                      g |-> Append(a.g, MulAdd(r.g[m], coeffs[m], a.f))]
      end == FoldLeftDomain(Stage, [f |-> Sample(n), g |-> <<Sample(n)>>], coeffs)
  IN [g |-> end.g, y |-> Append(r.y, end.f)]

\* Here the coefficients begin with the last stage: a.g grows from g_N down.
IirSample(r, n) ==
  LET Stage(a, m) ==
        LET f == MulAdd(a.f, -coeffs[m], r.g[m + 1])
        IN [f |-> f, g |-> Append(a.g, MulAdd(r.g[m + 1], coeffs[m], f))]
      end == FoldLeftDomain(Stage, [f |-> Sample(n), g |-> <<>>], coeffs)
      g == Append(end.g, end.f)
  IN [g |-> g,
      y |-> Append(r.y, FoldLeftDomain(LAMBDA acc, m :
                          MulAdd(acc, g[m], filter.ladder[Len(g) + 1 - m]), 0, g))]

SampleBySample(Step(_, _)) ==
  FoldLeftDomain(Step, [g |-> [m \in 1 .. Len(coeffs) + 1 |-> 0], y |-> <<>>],
                 Ones(taken)).y

Filtered ==
  CASE kind = "fir" -> [n \in 1 .. taken |-> Convolution(n, Sample)]
    [] kind = "decimate" ->
         [n \in 1 .. taken \div ratio |-> Convolution((n - 1) * ratio + 1, Sample)]
    [] kind = "interpolate" ->
         [n \in 1 .. taken * ratio |->
            Convolution(n, LAMBDA m : IF m % ratio = 1 % ratio
                                      THEN Sample((m - 1) \div ratio + 1) ELSE 0)]
    [] kind = "sparse" ->
         [n \in 1 .. taken |->
            FoldLeftDomain(LAMBDA acc, t : MulAdd(acc, coeffs[t], Sample(n - filter.delays[t])),
                           0, coeffs)]
    [] kind = "lattice" -> SampleBySample(LatticeSample)
    [] kind = "iir" -> SampleBySample(IirSample)

(* However the signal is cut into blocks, a filter's output is that of the *)
(* whole signal from a state of zeros: what it keeps between two calls is  *)
(* what the next one needs, and groups of four agree with single samples.  *)
BlocksDoNotShow == result = Filtered
=============================================================================
