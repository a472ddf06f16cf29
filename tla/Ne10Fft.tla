------------------------------ MODULE Ne10Fft ------------------------------
(***************************************************************************)
(* The Fourier transforms of the NE10 library in plain C, as built for 32  *)
(* bits (ne10/modules/dsp/NE10_fft*.c): r2c, which fft_volt calls, its     *)
(* inverse c2r and c2c both ways, in 32-bit floats and in fixed point of   *)
(* 32 and 16 bits.  One step is one stage of butterflies, in the buffers   *)
(* the code uses.                                                          *)
(*                                                                         *)
(* Numbers are replaced by arithmetic modulo Prime, which is exact: there  *)
(* the cosines and sines of the multiples of a full turn / Order exist and *)
(* obey the same laws.  Rounding and overflow are not modelled.  A complex *)
(* number is <<r, i>>.  Every stage is linear in its input, so inputs that *)
(* are 1 at one place and 0 elsewhere stand for all of a length.           *)
(***************************************************************************)
EXTENDS Integers, Sequences, SequencesExt

CONSTANTS
  Prime, Order, Root,  \* Root has order Order, a multiple of 4, modulo Prime
  Jobs                 \* records of, "real" or "complex"; format, "float32",
                       \* "int32" or "int16"; scaled, the scaled_flag of the
                       \* fixed-point calls; nfft; and at, the place of the 1
                       \* among the real numbers of the input

VARIABLES
  job,
  cfg,                 \* what the alloc function made: factors, twiddles
  dir,                 \* "forward" (r2c) or "inverse" (c2r)
  stage,               \* what is to be done next
  mem,                 \* the arrays: in, buffer, buffer2, out, and the inverse's back
  src, dst,            \* of the next stage: in and out of the code
  stage_count, fstride, mstride, step,
  tw                   \* the twiddles pointer, as an offset

fftVars == <<job, cfg, dir, stage, mem, src, dst, stage_count, fstride, mstride, step, tw>>

-----------------------------------------------------------------------------
(* Arithmetic *)

Power[k \in 0 .. Order - 1] ==
  IF k = 0 THEN 1
  ELSE LET h == Power[k \div 2]
       IN (((h * h) % Prime) * (IF k % 2 = 1 THEN Root ELSE 1)) % Prime
RootPowers == [k \in 0 .. Order - 1 |-> Power[k]]
Reciprocal == [n \in {2, 3, 4, 5, 8} \cup {j.nfft : j \in Jobs} \cup {j.nfft \div 2 : j \in Jobs} |->
                 CHOOSE m \in 1 .. Prime - 1 : (m * n) % Prime = 1]
Half == Reciprocal[2]
MinusImaginary == RootPowers[(3 * Order) \div 4]

\* cos + i sin of 2 pi k / n.
Turn(k, n) ==
  LET g == RootPowers[(k * (Order \div n)) % Order]
      h == RootPowers[(-k * (Order \div n)) % Order]
  IN <<((g + h) * Half) % Prime, ((((g - h) * Half) % Prime) * MinusImaginary) % Prime>>

Plus(a, b) == <<(a[1] + b[1]) % Prime, (a[2] + b[2]) % Prime>>
Minus(a, b) == <<(a[1] - b[1]) % Prime, (a[2] - b[2]) % Prime>>
Times(a, b) == <<(a[1] * b[1] - a[2] * b[2]) % Prime, (a[1] * b[2] + a[2] * b[1]) % Prime>>
Scaled(a, c) == <<(a[1] * c) % Prime, (a[2] * c) % Prime>>
Conj(a) == <<a[1], (-a[2]) % Prime>>
QuarterForth(a) == <<(-a[2]) % Prime, a[1]>>
QuarterBack(a) == <<a[2], (-a[1]) % Prime>>
\* Back in the transform and forth in the inverse.
Quarter(a, d) == IF d = "forward" THEN QuarterBack(a) ELSE QuarterForth(a)

-----------------------------------------------------------------------------
(* ne10_factor: the radices.  Any: NE10_FFT_ALG_ANY, the generic stages,   *)
(* for which the radix 8 is switched off again.                            *)

IsAny(n) == \E p \in {3, 5} : n % p = 0

FirstFactor(n, eight) ==
  CASE eight /\ n = 8 -> 8
    [] ~(eight /\ n = 8) /\ n % 4 = 0 -> 4
    [] n % 4 = 2 -> 2
    [] n % 2 = 1 /\ n % 5 = 0 -> 5
    [] n % 2 = 1 /\ n % 5 # 0 /\ n % 3 = 0 -> 3
    [] OTHER -> n

\* eight: NE10_FACTOR_EIGHT_FIRST_STAGE is passed.
Factors(size, eight) ==
  LET f[n \in Nat] ==
        LET p == FirstFactor(n, eight)
        IN <<[radix |-> p, rest |-> n \div p]>> \o (IF n > p THEN f[n \div p] ELSE <<>>)
  IN f[size]

(* The twiddles, stage after stage; within a stage radix - 1 rows of       *)
(* mstride.                                                                *)
StageTwiddles(n, f, stride) ==
  [p \in 1 .. (f.radix - 1) * f.rest |->
     LET k == 1 + (p - 1) \div f.rest
         j == (p - 1) % f.rest
     IN Turn(-stride * k * j, n)]

LaterTwiddles(n, fs) ==
  LET later == Reverse(SubSeq(fs, 1, Len(fs) - 1))
      \* fstride in the generator's loop
      stride(i) == FoldLeft(LAMBDA m, f : m \div f.radix,
                            n \div Last(fs).radix, SubSeq(later, 1, i))
  IN FlattenSeq([i \in DOMAIN later |-> StageTwiddles(n, later[i], stride(i))])

\* The place of a first stage with an odd radix, in any lengths: a first
\* entry and a row of one column.
FirstTwiddles(fs, entry) ==
  LET radix == Last(fs).radix
  IN IF radix % 2 = 1 THEN <<entry>> \o StageTwiddles(1, [radix |-> radix, rest |-> 1], 1) ELSE <<>>

\* The integers' generator leaves that entry as malloc gave it.
ne10_fft_generate_twiddles_float32(n, fs) == FirstTwiddles(fs, <<1, 0>>) \o LaterTwiddles(n, fs)
ne10_fft_generate_twiddles_int32(n, fs) == FirstTwiddles(fs, "unset") \o LaterTwiddles(n, fs)

\* room: the complex numbers the alloc functions ask for, for the twiddles.
ne10_fft_alloc_c2c_float32_c(nfft) ==
  LET fs == Factors(nfft, ~IsAny(nfft))
  IN [factors |-> fs, twiddles |-> ne10_fft_generate_twiddles_float32(nfft, fs), room |-> nfft]
ne10_fft_alloc_c2c_int32_c(nfft) ==
  LET fs == Factors(nfft, ~IsAny(nfft))
  IN [factors |-> fs, twiddles |-> ne10_fft_generate_twiddles_int32(nfft, fs), room |-> nfft]
ne10_fft_alloc_c2c_int16(nfft) ==
  LET fs == Factors(nfft, TRUE)
  IN [factors |-> fs, twiddles |-> LaterTwiddles(nfft, fs), room |-> nfft]

SuperTwiddles(ncfft) == [k \in 1 .. ncfft \div 2 |-> Turn(-(k + ncfft \div 2), 2 * ncfft)]
RealConfig(ncfft) ==
  LET fs == Factors(ncfft, TRUE)
  IN [factors |-> fs, twiddles |-> LaterTwiddles(ncfft, fs), room |-> ncfft,
      super_twiddles |-> SuperTwiddles(ncfft)]
ne10_fft_alloc_r2c_float32(nfft) == RealConfig(nfft \div 2)
ne10_fft_alloc_r2c_int32(nfft) == RealConfig(nfft \div 2)
ne10_fft_alloc_r2c_int16(nfft) == RealConfig(nfft \div 2)

Alloc(of, format, nfft) ==
  CASE of = "real" /\ format = "float32" -> ne10_fft_alloc_r2c_float32(nfft)
    [] of = "real" /\ format = "int32" -> ne10_fft_alloc_r2c_int32(nfft)
    [] of = "real" /\ format = "int16" -> ne10_fft_alloc_r2c_int16(nfft)
    [] of = "complex" /\ format = "float32" -> ne10_fft_alloc_c2c_float32_c(nfft)
    [] of = "complex" /\ format = "int32" -> ne10_fft_alloc_c2c_int32_c(nfft)
    [] of = "complex" /\ format = "int16" -> ne10_fft_alloc_c2c_int16(nfft)
Config == [k \in {<<j.of, j.format, j.nfft>> : j \in Jobs} |-> Alloc(k[1], k[2], k[3])]

\* The complex numbers a job's stages work on: ncfft, or nfft of c2c.
PointsOf(j) == IF j.of = "real" THEN j.nfft \div 2 ELSE j.nfft
points == PointsOf(job)
FirstRadix == Last(cfg.factors).radix

-----------------------------------------------------------------------------
(* Butterflies *)

RadixTwo(x) == <<Plus(x[1], x[2]), Minus(x[1], x[2])>>

RadixFour(x, d) ==
  LET a == RadixTwo(<<x[1], x[3]>>)
      b == RadixTwo(<<x[2], x[4]>>)
      r == Quarter(b[2], d)
  IN <<Plus(a[1], b[1]), Plus(a[2], r), Minus(a[1], b[1]), Minus(a[2], r)>>

RadixEight(x, d) ==
  LET TW_81 == Turn(1, 8)[1]
      pair(k) == RadixTwo(<<x[k], x[k + 4]>>)
      s3 == Scaled(Plus(pair(2)[2], Quarter(pair(2)[2], d)), TW_81)
      s7 == Scaled(Minus(pair(4)[2], Quarter(pair(4)[2], d)), TW_81)
      even == RadixFour(<<pair(1)[1], pair(2)[1], pair(3)[1], pair(4)[1]>>, d)
      s9 == Plus(pair(1)[2], Quarter(pair(3)[2], d))
      s11 == Minus(pair(1)[2], Quarter(pair(3)[2], d))
      s13 == Minus(s3, s7)
      s15 == Quarter(Plus(s3, s7), d)
  IN <<even[1], Plus(s9, s13), even[2], Plus(s11, s15),
       even[3], Minus(s9, s13), even[4], Minus(s11, s15)>>

RadixThree(x) ==
  LET TW_3I == Turn(1, 3)[2]
      sum == Plus(x[2], x[3])
      middle == Minus(x[1], Scaled(sum, Half))
      side == Scaled(QuarterForth(Minus(x[2], x[3])), -TW_3I)
  IN <<Plus(x[1], sum), Plus(middle, side), Minus(middle, side)>>

RadixFive(x) ==
  LET TW_5A == Turn(-1, 5)
      TW_5B == Turn(-2, 5)
      s7 == Plus(x[2], x[5])
      s8 == Plus(x[3], x[4])
      s9 == Minus(x[3], x[4])
      s10 == Minus(x[2], x[5])
      Mixed(u, a, v, b) == Plus(Scaled(u, a), Scaled(v, b))
      s5 == Plus(x[1], Mixed(s7, TW_5A[1], s8, TW_5B[1]))
      s6 == QuarterBack(Mixed(s10, TW_5A[2], s9, TW_5B[2]))
      s11 == Plus(x[1], Mixed(s7, TW_5B[1], s8, TW_5A[1]))
      s12 == QuarterForth(Mixed(s10, TW_5B[2], s9, -TW_5A[2]))
  IN <<Plus(x[1], Plus(s7, s8)), Minus(s5, s6), Plus(s11, s12), Minus(s11, s12), Plus(s5, s6)>>

(* A stage: n butterflies one after the other, as one array may be both    *)
(* read and written.  Out gives the first offset of a butterfly's results. *)
Pass(n, radix, Calc(_, _), instep, Out(_), outstep) ==
  LET after[c \in 0 .. n] ==
        IF c = 0 THEN mem
        ELSE LET m == after[c - 1]
                 y == Calc([q \in 1 .. radix |-> m[src][c - 1 + instep * (q - 1)]], c - 1)
                 off(p) == p - Out(c - 1)
             IN [m EXCEPT ![dst] =
                   [p \in DOMAIN @ |->
                      IF off(p) \in 0 .. outstep * (radix - 1) /\ off(p) % outstep = 0
                      THEN y[off(p) \div outstep + 1] ELSE @[p]]]
  IN after[n]

-----------------------------------------------------------------------------
(* The buffers *)

FinalOut ==
  IF dir = "inverse" THEN "back" ELSE IF job.of = "real" THEN "buffer" ELSE "out"
Spare ==
  IF job.of = "complex" THEN "buffer" ELSE IF dir = "forward" THEN "out" ELSE "buffer2"
Other(array) == IF array = FinalOut THEN Spare ELSE FinalOut

AfterStages ==
  IF dir = "inverse" THEN "finished" ELSE IF job.of = "real" THEN "split" ELSE "transformed"

-----------------------------------------------------------------------------
(* Powers of two: the ne10_mixed_radix_butterfly functions                 *)

IsFixed == job.format # "float32"

\* NE10_F2I32_FIXDIV, NE10_F2I16_FIXDIV: every stage divides by its radix.
FixDiv(x, radix) ==
  IF job.scaled THEN [q \in DOMAIN x |-> Scaled(x[q], Reciprocal[radix])] ELSE x

\* Mutant of Twiddled: the inverse takes the twiddles of the transform.
TwiddledForward(a, w) == Times(a, w)

Twiddled(a, w) == Times(a, IF dir = "forward" THEN w ELSE Conj(w))

FirstButterfly(x) ==
  LET y == FixDiv(x, FirstRadix)
  IN CASE FirstRadix = 8 -> RadixEight(y, dir)
       [] FirstRadix = 4 -> RadixFour(y, dir)
       [] FirstRadix = 2 -> RadixTwo(y)

\* Multiply by the stage's three rows of twiddles, j places into them, first.
LaterButterfly(y, j) ==
  LET x == FixDiv(y, 4)
  IN RadixFour(<<x[1]>> \o [k \in 1 .. 3 |->
                 Twiddled(x[k + 1], cfg.twiddles[tw + 1 + mstride * (k - 1) + j])], dir)

\* one_by_nfft, in the last stage of the inverse, of floats only.
ScaledAll(m) ==
  IF dir = "forward" \/ IsFixed THEN m
  ELSE [m EXCEPT ![dst] = [p \in DOMAIN @ |-> Scaled(@[p], Reciprocal[points])]]

\* A first stage of radix 8 divides in the array it reads.
DividedInPlace(m) ==
  IF FirstRadix = 8
  THEN [m EXCEPT ![src] = [p \in DOMAIN @ |-> FixDiv(<<@[p]>>, 8)[1]]] ELSE m

StageFor(count) ==
  IF count > 1 THEN "middle" ELSE IF count = 1 THEN "last" ELSE AfterStages

FirstStage ==
  /\ stage = "first"
  /\ LET m == DividedInPlace(Pass(fstride, FirstRadix, LAMBDA x, c : FirstButterfly(x),
                                  fstride, LAMBDA c : c * FirstRadix, 1))
     IN mem' = IF stage_count = 1 THEN ScaledAll(m) ELSE m
  /\ step' = IF FirstRadix = 8 THEN fstride * 2 ELSE fstride
  /\ stage_count' = stage_count - 1
  /\ fstride' = fstride \div 4
  /\ src' = FinalOut /\ dst' = IF stage_count = 2 THEN FinalOut ELSE Spare
  /\ stage' = StageFor(stage_count - 1)
  /\ UNCHANGED <<job, cfg, dir, mstride, tw>>

MiddleStage ==
  /\ stage = "middle"
  /\ mem' = Pass(fstride * mstride, 4, LAMBDA x, c : LaterButterfly(x, c % mstride), step,
                 LAMBDA c : (c \div mstride) * mstride * 4 + (c % mstride), mstride)
  /\ stage_count' = stage_count - 1
  /\ tw' = tw + mstride * 3
  /\ mstride' = mstride * 4
  /\ fstride' = fstride \div 4
  /\ src' = dst /\ dst' = IF stage_count = 2 THEN FinalOut ELSE src
  /\ stage' = StageFor(stage_count - 1)
  /\ UNCHANGED <<job, cfg, dir, step>>

(* Always into the final output, also when it is what the stage reads.     *)
LastStage ==
  /\ stage = "last"
  /\ mem' = ScaledAll(Pass(fstride * mstride, 4, LAMBDA x, c : LaterButterfly(x, c % mstride),
                           step, LAMBDA c : c, step))
  /\ stage_count' = 0
  /\ stage' = AfterStages
  /\ UNCHANGED <<job, cfg, dir, src, dst, fstride, mstride, step, tw>>

-----------------------------------------------------------------------------
(* Other lengths: ne10_mixed_radix_generic_butterfly_float32_impl_c and    *)
(* the template for int32; there are none of int16.                        *)

\* The inverse is the transform between two conjugations.
Taken(x) == IF dir = "forward" THEN x ELSE [q \in DOMAIN x |-> Conj(x[q])]
Returned(y) == Taken(y)
Turned(x, j, first) ==
  [q \in DOMAIN x |-> IF first \/ q = 1 THEN x[q]
                      ELSE Times(x[q], cfg.twiddles[tw + 1 + mstride * (q - 2) + j])]

\* Floats: the first stage of the inverse divides by nfft.
Loaded(x, j, first) ==
  Turned([q \in DOMAIN x |-> Scaled(Taken(x)[q], IF first /\ dir = "inverse"
                                                  THEN Reciprocal[points] ELSE 1)], j, first)
ne10_radix_2_butterfly(x, j, first) == Returned(RadixTwo(Loaded(x, j, first)))
ne10_radix_3_butterfly(x, j, first) == Returned(RadixThree(Loaded(x, j, first)))
ne10_radix_4_butterfly(x, j, first) == Returned(RadixFour(Loaded(x, j, first), "forward"))
ne10_radix_5_butterfly(x, j, first) == Returned(RadixFive(Loaded(x, j, first)))

\* One template for the radices; every stage divides by its own.
FFT_FCU(x) ==
  CASE Len(x) = 2 -> RadixTwo(x)
    [] Len(x) = 3 -> RadixThree(x)
    [] Len(x) = 4 -> RadixFour(x, "forward")
    [] Len(x) = 5 -> RadixFive(x)
ne10_radix_butterfly_int32_c(x, j, first) ==
  Returned(FFT_FCU(Turned(FixDiv(Taken(x), Len(x)), j, first)))

GenericButterfly(x, j, first) ==
  CASE IsFixed -> ne10_radix_butterfly_int32_c(x, j, first)
    [] ~IsFixed /\ Len(x) = 2 -> ne10_radix_2_butterfly(x, j, first)
    [] ~IsFixed /\ Len(x) = 3 -> ne10_radix_3_butterfly(x, j, first)
    [] ~IsFixed /\ Len(x) = 4 -> ne10_radix_4_butterfly(x, j, first)
    [] ~IsFixed /\ Len(x) = 5 -> ne10_radix_5_butterfly(x, j, first)

GenericStage ==
  /\ stage = "generic"
  /\ LET first == stage_count = Len(cfg.factors)
         radix == cfg.factors[stage_count].radix
         stride == IF first THEN fstride ELSE fstride \div radix
     IN /\ mem' = Pass(stride * mstride, radix,
                       LAMBDA x, c : GenericButterfly(x, c % mstride, first),
                       points \div radix,
                       LAMBDA c : (c \div mstride) * mstride * radix + (c % mstride), mstride)
        /\ fstride' = stride
        /\ mstride' = mstride * radix
        /\ tw' = IF ~first THEN tw + mstride * (radix - 1)
                 ELSE IF radix % 2 = 1 THEN radix ELSE 0
  /\ stage_count' = stage_count - 1
  /\ src' = dst /\ dst' = Other(dst)
  /\ stage' = IF stage_count = 1 THEN AfterStages ELSE "generic"
  /\ UNCHANGED <<job, cfg, dir, step>>

-----------------------------------------------------------------------------
(* Between ncfft complex numbers and the spectrum of nfft real ones *)

SplitPair(a, k, w) ==
  LET f1k == Plus(a[k], Conj(a[points - k]))
      f2k == Times(Minus(a[k], Conj(a[points - k])), w)
  IN [low |-> Plus(f1k, f2k), high |-> Conj(Minus(f1k, f2k))]

\* The loop over k <= ncfft / 2 writes places k and then ncfft - k.
Place(pair, p) == IF 2 * p < points THEN pair[p].low ELSE pair[points - p].high

Split ==
  /\ stage = "split"
  /\ LET a == [p \in DOMAIN mem.buffer |-> FixDiv(<<mem.buffer[p]>>, 2)[1]]
         pair == [k \in 1 .. points \div 2 |-> SplitPair(a, k, cfg.super_twiddles[k])]
     IN mem' = [mem EXCEPT !.out =
          [p \in 0 .. points |->
             CASE p = 0 -> <<(a[0][1] + a[0][2]) % Prime, 0>>
               [] p = points -> <<(a[0][1] - a[0][2]) % Prime, 0>>
               [] OTHER -> Scaled(Place(pair, p), Half)]]
  /\ stage' = "transformed"
  /\ UNCHANGED <<job, cfg, dir, src, dst, stage_count, fstride, mstride, step, tw>>

\* What c2r makes of a spectrum before its stages; fixed point without
\* scaling leaves out the half.
Unsplit(a) ==
  LET pair == [k \in 1 .. points \div 2 |-> SplitPair(a, k, Conj(cfg.super_twiddles[k]))]
  IN [p \in 0 .. points - 1 |->
        Scaled(IF p = 0 THEN <<a[0][1] + a[points][1], a[0][1] - a[points][1]>>
               ELSE Place(pair, p),
               IF IsFixed /\ ~job.scaled THEN 1 ELSE Half)]

\* Where the stages of a transform into final begin; spare is the other array.
Begun(final, spare) ==
  [stage |-> IF IsAny(points) THEN "generic" ELSE "first",
   dst |-> IF IsAny(points) /\ Len(cfg.factors) % 2 = 0 THEN spare ELSE final,
   stage_count |-> Len(cfg.factors),
   fstride |-> points \div FirstRadix,
   mstride |-> IF IsAny(points) THEN 1 ELSE FirstRadix]

(* The inverse of the spectrum just made.                                  *)
Invert ==
  /\ stage = "transformed"
  /\ dir' = "inverse"
  /\ IF job.of = "real"
     THEN mem' = [mem EXCEPT !.buffer = Unsplit(mem.out)] /\ src' = "buffer"
     ELSE UNCHANGED mem /\ src' = "out"
  /\ LET b == Begun("back", IF job.of = "real" THEN "buffer2" ELSE "buffer")
     IN /\ stage' = b.stage /\ dst' = b.dst
        /\ stage_count' = b.stage_count /\ fstride' = b.fstride /\ mstride' = b.mstride
  /\ step' = 0 /\ tw' = 0
  /\ UNCHANGED <<job, cfg>>

-----------------------------------------------------------------------------
\* What an array holds that nobody has written; no stage may read it.
Unset(n) == [p \in 0 .. n |-> "unset"]
Input(j) == [p \in 0 .. PointsOf(j) - 1 |->
               <<IF j.at = 2 * p THEN 1 ELSE 0, IF j.at = 2 * p + 1 THEN 1 ELSE 0>>]

FftInit ==
  /\ job \in Jobs
  /\ cfg = Config[<<job.of, job.format, job.nfft>>]
  /\ dir = "forward"
  /\ mem = [in |-> Input(job), buffer |-> Unset(points - 1), buffer2 |-> Unset(points - 1),
            out |-> Unset(IF job.of = "real" THEN points ELSE points - 1),
            back |-> Unset(points - 1)]
  /\ src = "in"
  /\ LET b == Begun(FinalOut, Spare)
     IN /\ stage = b.stage /\ dst = b.dst
        /\ stage_count = b.stage_count /\ fstride = b.fstride /\ mstride = b.mstride
  /\ step = 0 /\ tw = 0

\* One action per function of the library and kind of stage in it.
Of(format, direction) == job.format = format /\ dir = direction

butterfly_float32_radix8 == Of("float32", "forward") /\ FirstRadix = 8 /\ FirstStage
butterfly_float32_first == Of("float32", "forward") /\ FirstRadix # 8 /\ FirstStage
butterfly_float32_middle == Of("float32", "forward") /\ MiddleStage
butterfly_float32_last == Of("float32", "forward") /\ LastStage
ne10_mixed_radix_butterfly_float32_c ==
  \/ butterfly_float32_radix8 \/ butterfly_float32_first
  \/ butterfly_float32_middle \/ butterfly_float32_last

butterfly_inverse_float32_radix8 == Of("float32", "inverse") /\ FirstRadix = 8 /\ FirstStage
butterfly_inverse_float32_first == Of("float32", "inverse") /\ FirstRadix # 8 /\ FirstStage
butterfly_inverse_float32_middle == Of("float32", "inverse") /\ MiddleStage
butterfly_inverse_float32_last == Of("float32", "inverse") /\ LastStage
ne10_mixed_radix_butterfly_inverse_float32_c ==
  \/ butterfly_inverse_float32_radix8 \/ butterfly_inverse_float32_first
  \/ butterfly_inverse_float32_middle \/ butterfly_inverse_float32_last

butterfly_int32_radix8 == Of("int32", "forward") /\ FirstRadix = 8 /\ FirstStage
butterfly_int32_first == Of("int32", "forward") /\ FirstRadix # 8 /\ FirstStage
butterfly_int32_middle == Of("int32", "forward") /\ MiddleStage
butterfly_int32_last == Of("int32", "forward") /\ LastStage
ne10_mixed_radix_butterfly_int32_c ==
  \/ butterfly_int32_radix8 \/ butterfly_int32_first
  \/ butterfly_int32_middle \/ butterfly_int32_last

butterfly_inverse_int32_radix8 == Of("int32", "inverse") /\ FirstRadix = 8 /\ FirstStage
butterfly_inverse_int32_first == Of("int32", "inverse") /\ FirstRadix # 8 /\ FirstStage
butterfly_inverse_int32_middle == Of("int32", "inverse") /\ MiddleStage
butterfly_inverse_int32_last == Of("int32", "inverse") /\ LastStage
ne10_mixed_radix_butterfly_inverse_int32_c ==
  \/ butterfly_inverse_int32_radix8 \/ butterfly_inverse_int32_first
  \/ butterfly_inverse_int32_middle \/ butterfly_inverse_int32_last

butterfly_int16_radix8 == Of("int16", "forward") /\ FirstRadix = 8 /\ FirstStage
butterfly_int16_first == Of("int16", "forward") /\ FirstRadix # 8 /\ FirstStage
butterfly_int16_middle == Of("int16", "forward") /\ MiddleStage
butterfly_int16_last == Of("int16", "forward") /\ LastStage
ne10_mixed_radix_butterfly_int16_c ==
  \/ butterfly_int16_radix8 \/ butterfly_int16_first
  \/ butterfly_int16_middle \/ butterfly_int16_last

butterfly_inverse_int16_radix8 == Of("int16", "inverse") /\ FirstRadix = 8 /\ FirstStage
butterfly_inverse_int16_first == Of("int16", "inverse") /\ FirstRadix # 8 /\ FirstStage
butterfly_inverse_int16_middle == Of("int16", "inverse") /\ MiddleStage
butterfly_inverse_int16_last == Of("int16", "inverse") /\ LastStage
ne10_mixed_radix_butterfly_inverse_int16_c ==
  \/ butterfly_inverse_int16_radix8 \/ butterfly_inverse_int16_first
  \/ butterfly_inverse_int16_middle \/ butterfly_inverse_int16_last

ne10_mixed_radix_generic_butterfly_float32_c == Of("float32", "forward") /\ GenericStage
ne10_mixed_radix_generic_butterfly_inverse_float32_c == Of("float32", "inverse") /\ GenericStage
ne10_mixed_radix_generic_butterfly_int32_c == Of("int32", "forward") /\ GenericStage
ne10_mixed_radix_generic_butterfly_inverse_int32_c == Of("int32", "inverse") /\ GenericStage

ne10_fft_split_r2c_1d_float32 == job.format = "float32" /\ Split
ne10_fft_split_r2c_1d_int32 == job.format = "int32" /\ Split
ne10_fft_split_r2c_1d_int16 == job.format = "int16" /\ Split
ne10_fft_c2r_1d_float32_c == job.format = "float32" /\ job.of = "real" /\ Invert
ne10_fft_c2c_1d_float32_c == job.format = "float32" /\ job.of = "complex" /\ Invert
ne10_fft_c2r_1d_int32_c == job.format = "int32" /\ job.of = "real" /\ Invert
ne10_fft_c2c_1d_int32_c == job.format = "int32" /\ job.of = "complex" /\ Invert
ne10_fft_c2r_1d_int16_c == job.format = "int16" /\ job.of = "real" /\ Invert
ne10_fft_c2c_1d_int16_c == job.format = "int16" /\ job.of = "complex" /\ Invert

FftNext ==
  \/ ne10_mixed_radix_butterfly_float32_c \/ ne10_mixed_radix_butterfly_inverse_float32_c
  \/ ne10_mixed_radix_butterfly_int32_c \/ ne10_mixed_radix_butterfly_inverse_int32_c
  \/ ne10_mixed_radix_butterfly_int16_c \/ ne10_mixed_radix_butterfly_inverse_int16_c
  \/ ne10_mixed_radix_generic_butterfly_float32_c \/ ne10_mixed_radix_generic_butterfly_inverse_float32_c
  \/ ne10_mixed_radix_generic_butterfly_int32_c \/ ne10_mixed_radix_generic_butterfly_inverse_int32_c
  \/ ne10_fft_split_r2c_1d_float32 \/ ne10_fft_c2r_1d_float32_c
  \/ ne10_fft_c2c_1d_float32_c \/ ne10_fft_split_r2c_1d_int32
  \/ ne10_fft_c2r_1d_int32_c \/ ne10_fft_c2c_1d_int32_c
  \/ ne10_fft_split_r2c_1d_int16 \/ ne10_fft_c2r_1d_int16_c
  \/ ne10_fft_c2c_1d_int16_c

-----------------------------------------------------------------------------
(* r2c and c2c compute the Fourier transform of their input, and c2r and   *)
(* the inverse c2c the input from it: for every number of stages, whatever *)
(* radix comes first, whichever array the stages begin in, and with the    *)
(* last stage in place when the buffers have been swapped an even number   *)
(* of times.  In fixed point each direction divides by nfft if scaled, and *)
(* neither does if not, so that the input comes back divided by nfft or    *)
(* multiplied by it.  The twiddles fit in the room asked for them.         *)
Impulse(k) ==
  IF job.of = "real" THEN Turn(-job.at * k, job.nfft)
  ELSE Times(Turn(-(job.at \div 2) * k, job.nfft), IF job.at % 2 = 0 THEN <<1, 0>> ELSE <<0, 1>>)

ByNfft(a) == Scaled(a, IF job.scaled THEN Reciprocal[job.nfft] ELSE 1)
RoundTrip(a) == Scaled(ByNfft(a), IF IsFixed /\ ~job.scaled THEN job.nfft ELSE 1)

TransformsAreExact ==
  /\ stage # "idle" => Len(cfg.twiddles) <= cfg.room
  /\ stage = "transformed" => \A k \in DOMAIN mem.out : mem.out[k] = ByNfft(Impulse(k))
  /\ stage = "finished" =>
       \A p \in DOMAIN mem.back : mem.back[p] = RoundTrip(Input(job)[p])
=============================================================================
