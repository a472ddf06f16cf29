------------------------------ MODULE MCSignal ------------------------------
(***************************************************************************)
(* The signal processing for TLC: AbIdentify with the values of            *)
(* MCAbIdentify, and of the NE10 library the transforms, the filters, the  *)
(* arithmetic and the images.  They share no state; a behaviour is one of  *)
(* them.                                                                   *)
(***************************************************************************)
EXTENDS MCAbIdentify, Ne10Fft, Ne10Filters, Ne10Math, Ne10Image

VARIABLE part   \* "identify", "transform", "filter", "arithmetic" or "image"

libraryVars == <<fftVars, filterVars, mathVars, imgVars>>
signalVars == <<part, vars, libraryVars>>

IdentifyIdle ==
  /\ doing = "done" /\ truth = NoWaves /\ fft_out = <<>> /\ scan = Start
  /\ delta_pos = <<>> /\ ab = NoWaves

FftIdle ==
  /\ job = CHOOSE j \in Jobs : TRUE
  /\ cfg = <<>> /\ dir = "forward" /\ stage = "idle" /\ mem = <<>> /\ src = "in" /\ dst = "in"
  /\ stage_count = 0 /\ fstride = 0 /\ mstride = 0 /\ step = 0 /\ tw = 0

FilterIdle ==
  /\ filter = CHOOSE f \in Filters : TRUE
  /\ impulse = 1 /\ taken = 0 /\ pState = <<>> /\ stateIndex = 0 /\ result = <<>>

MathIdle ==
  /\ call = CHOOSE c \in Calls : TRUE
  /\ array = <<>> /\ itr = 0 /\ before = <<>>

ImageIdle ==
  /\ task = CHOOSE t \in Images : TRUE
  /\ picture = <<>> /\ image = <<>> /\ phase = "idle" /\ at = 0 /\ dst_buf = <<>>
  /\ sum_row = <<>> /\ rows = <<>> /\ prev_sy = <<>>

SignalInit ==
  \/ part = "identify" /\ FftIdle /\ FilterIdle /\ MathIdle /\ ImageIdle /\ Init
  \/ part = "transform" /\ IdentifyIdle /\ FilterIdle /\ MathIdle /\ ImageIdle /\ FftInit
  \/ part = "filter" /\ IdentifyIdle /\ FftIdle /\ MathIdle /\ ImageIdle /\ FilterInit
  \/ part = "arithmetic" /\ IdentifyIdle /\ FftIdle /\ FilterIdle /\ ImageIdle /\ MathInit
  \/ part = "image" /\ IdentifyIdle /\ FftIdle /\ FilterIdle /\ MathIdle /\ ImageInit

SignalNext ==
  /\ UNCHANGED part
  /\ \/ part = "identify" /\ Next /\ UNCHANGED libraryVars
     \/ part = "transform" /\ FftNext /\ UNCHANGED <<vars, filterVars, mathVars, imgVars>>
     \/ part = "filter" /\ FilterNext /\ UNCHANGED <<vars, fftVars, mathVars, imgVars>>
     \/ part = "arithmetic" /\ MathNext /\ UNCHANGED <<vars, fftVars, filterVars, imgVars>>
     \/ part = "image" /\ ImageNext /\ UNCHANGED <<vars, fftVars, filterVars, mathVars>>

SignalSpec == SignalInit /\ [][SignalNext]_signalVars

-----------------------------------------------------------------------------
(* Transforms.  Every place of the 1 in short inputs, a few in long ones.  *)

PlacesOf(n) == IF n <= 16 THEN 0 .. n - 1 ELSE {1, n \div 2, n - 1}
JobsOf(of, n, numbers, format, scaled) ==
  {[of |-> of, nfft |-> n, at |-> k, format |-> format, scaled |-> scaled] :
     k \in PlacesOf(numbers)}

RealJobs(lengths, format, scaled) ==
  UNION {JobsOf("real", n, n, format, scaled) : n \in lengths}
ComplexJobs(lengths, format, scaled) ==
  UNION {JobsOf("complex", n, 2 * n, format, scaled) : n \in lengths}

MCJobs ==
  RealJobs({4, 8, 16, 32, 64, 128, 256, 512}, "float32", FALSE)
  \cup ComplexJobs({2, 4, 8, 16, 32, 64, 6, 10, 12, 20, 24, 60, 80, 120}, "float32", FALSE)
  \cup UNION {RealJobs({4, 8, 16, 32, 64, 128}, f, d)
              \cup ComplexJobs({2, 4, 8, 16, 32, 64}, f, d) :
                f \in {"int32", "int16"}, d \in BOOLEAN}
  \cup UNION {ComplexJobs({6, 10, 12, 20, 24, 60}, "int32", d) : d \in BOOLEAN}

-----------------------------------------------------------------------------
(* Filters *)

Coefficients(n) == SubSeq(<<2, 3, 5, 7, 11, 13, 17, 19, 23, 29>>, 1, n)
FilterOf(k, n, r) == [kind |-> k, coeffs |-> Coefficients(n), ratio |-> r]

\* Fewer taps than a group of four, as many, more, and more than a block.
MCFilters ==
  {FilterOf("fir", n, 1) : n \in {1, 2, 3, 4, 5, 7, 8, 9}}
  \cup {FilterOf("lattice", n, 1) : n \in {1, 2, 5, 6, 9}}
  \cup {FilterOf("decimate", n, r) : n \in {1, 4, 6}, r \in {2, 3}}
  \cup {FilterOf("interpolate", n * r, r) : n \in {1, 2, 5}, r \in {1, 2}}
  \cup {FilterOf("sparse", 2, 1) @@ [delays |-> d, maxDelay |-> m] :
          d \in {<<0, 3>>, <<3, 1>>}, m \in {3, 7}}
  \cup {FilterOf("iir", n, 1) @@ [ladder |-> Coefficients(n + 1)] : n \in {1, 2, 5, 6}}

-----------------------------------------------------------------------------
(* Arithmetic: of every shape, fewer elements than a round takes and more, *)
(* in place where the header allows it.                                    *)

Vectors == {"float", "vec2f", "vec3f", "vec4f"}
Matrices == {"mat2x2f", "mat3x3f", "mat4x4f"}
CallsOf(names, impls, shapes, counts, places, seeds) ==
  {[fn |-> f, impl |-> i, shape |-> s, count |-> m, inplace |-> p, seed |-> x] :
     f \in names, i \in impls, s \in shapes, m \in counts, p \in places, x \in seeds}
Counts == {0, 1, 2, 3, 4, 5, 7, 9}
MCCalls ==
  CallsOf({"add", "sub", "mul", "div"}, {"c"}, Vectors, {0, 3}, {"no", "src1", "src2"}, {1})
  \cup CallsOf({"mla"}, {"c"}, Vectors, {3}, {"no", "acc", "src1", "src2"}, {1})
  \cup CallsOf({"abs"}, {"c"}, Vectors, {3}, {"no", "src1"}, {1, 2})
  \cup CallsOf({"addc", "subc", "rsbc", "mulc", "divc"}, {"c", "neon"}, Vectors,
              Counts, {"no", "src1"}, {1})
  \cup CallsOf({"mlac"}, {"c", "neon"}, Vectors, Counts, {"no", "acc", "src1"}, {1})
  \cup CallsOf({"setc"}, {"c", "neon"}, Vectors, Counts, {"no"}, {1})
  \cup CallsOf({"normalize"}, {"c"}, Vectors \ {"float"}, {3}, {"no", "src1"}, {1, 2})
  \cup CallsOf({"len", "dot"}, {"c"}, Vectors \ {"float"}, {3}, {"no"}, {1})
  \cup CallsOf({"cross"}, {"c"}, {"vec3f"}, {3}, {"no"}, {1, 2})
  \cup CallsOf({"addmat", "submat"}, {"c", "neon"}, Matrices, {2}, {"no", "src1", "src2"}, {1})
  \cup CallsOf({"identitymat", "transmat", "mulmat"}, {"c"}, Matrices, {2}, {"no"}, {1})
  \cup CallsOf({"detmat", "invmat"}, {"c"}, Matrices, {2}, {"no"}, {0, 1, 2})
  \cup CallsOf({"mulcmatvec"}, {"c"}, Vectors \ {"float"}, {3}, {"no"}, {1, 2})
  \cup CallsOf({"aabb"}, {"c", "neon"}, {"vec2f"}, 1 .. 9, {"no"}, {0, 1, 2})
  \cup CallsOf({"relative_v", "impulse"}, {"c"}, {"vec2f"}, {3}, {"no"}, {1})

-----------------------------------------------------------------------------
(* Images: odd and even sides, kernels on both sides of what the vector    *)
(* version takes, sizes up and down, angles in all quadrants.              *)

Task(o, i, s, w, h) == [op |-> o, impl |-> i, seed |-> s, w |-> w, h |-> h]
Impls == {"c", "neon"}
Kernels == {<<1, 3>>, <<3, 1>>, <<2, 2>>, <<3, 4>>, <<5, 3>>, <<4, 5>>}
Angles == {<<0, 25>>, <<25, 0>>, <<0, -25>>, <<15, 20>>, <<7, 24>>, <<-20, 15>>, <<24, -7>>}
MCImages ==
  {Task("box", i, "mixed", w, h) @@ [kx |-> k[1], ky |-> k[2]] :
     i \in Impls, w \in {5, 6}, h \in {5, 6}, k \in Kernels}
  \cup {Task("box", i, "flat", w, h) @@ [kx |-> 1, ky |-> 1] :
     i \in Impls, w \in {1, 3}, h \in {1, 3}}
  \cup {Task("box", "neon", "flat", 128, 2) @@ [kx |-> k, ky |-> 1] : k \in {127, 128}}
  \cup {Task("box", "neon", "flat", 2, 128) @@ [kx |-> 2, ky |-> 127]}
  \cup {Task("resize", i, s, w, h) @@ [dstw |-> dw, dsth |-> dh] :
     i \in Impls, s \in {"mixed"}, w \in {1, 3, 6}, h \in {1, 3, 5},
     dw \in {1, 4, 7}, dh \in {1, 3, 8}}
  \cup {Task("rotate", "c", s, z[1], z[2]) @@ [sine |-> a[1], cosine |-> a[2], unit |-> 25] :
     s \in {"flat", "mixed"}, z \in {<<4, 7>>, <<7, 4>>, <<10, 9>>}, a \in Angles}

\* The two halves of the library that keep no state between their calls.
LibraryIsExact == ArraysAreExact /\ ImagesAreFaithful
=============================================================================
