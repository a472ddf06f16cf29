------------------------------ MODULE Ne10Math ------------------------------
(***************************************************************************)
(* The arithmetic on arrays of the NE10 library: the .c files of           *)
(* ne10/modules/math in plain C, its .neon.c files in vector instructions  *)
(* by way of ne10/common/macros.h and factor.h, and ne10/modules/physics.  *)
(*                                                                         *)
(* An array is its floats one after the other.  A step is one round of a   *)
(* function's loop.  Arithmetic is modulo Field, written with the residues *)
(* nearest to 0, so exact; rounding is not modelled.  Where the header     *)
(* allows it, dst may be one of the sources.                               *)
(***************************************************************************)
EXTENDS Integers, Sequences, SequencesExt, FiniteSetsExt

CONSTANTS
  Field,      \* a prime
  Calls,      \* the calls to be tried
  Room        \* floats in an array

(* A call: fn, impl ("c" or "neon"), shape, count, inplace (the source     *)
(* that dst is, or "no"), seed (of the numbers in the arrays).             *)
Shapes == {"float", "vec2f", "vec3f", "vec4f", "mat2x2f", "mat3x3f", "mat4x4f"}

WidthOf(shape) ==
  CASE shape = "float" -> 1 [] shape = "vec2f" -> 2 [] shape = "vec3f" -> 3
    [] shape \in {"vec4f", "mat2x2f"} -> 4
    [] shape = "mat3x3f" -> 9 [] shape = "mat4x4f" -> 16
SideOf(shape) == CASE shape \in {"vec2f", "mat2x2f"} -> 2
                 [] shape \in {"vec3f", "mat3x3f"} -> 3
                 [] shape \in {"vec4f", "mat4x4f"} -> 4

ASSUME MathAssumption ==
  /\ Field \in Nat \ {0, 1} /\ Room \in Nat
  /\ \A c \in Calls :
       /\ c.shape \in Shapes /\ c.impl \in {"c", "neon"} /\ c.count \in Nat
       /\ c.count * WidthOf(c.shape) <= Room
       /\ c.inplace \in {"no", "acc", "src1", "src2"}

VARIABLES
  call,
  array,     \* the floats of every operand
  itr,       \* elements done
  before     \* array as it was at the call

mathVars == <<call, array, itr, before>>

-----------------------------------------------------------------------------
(* Numbers *)

Near0(x) == LET r == x % Field IN IF 2 * r > Field THEN r - Field ELSE r
Mul(a, b) == Near0(a * b)
Total(xs) == FoldLeft(LAMBDA s, x : Near0(s + x), 0, xs)

\* The power an exponent gives, by squaring.
Raised(x, exponent) ==
  LET P[n \in 0 .. exponent] ==
        IF n = 0 THEN 1
        ELSE LET h == P[n \div 2] IN IF n % 2 = 0 THEN Mul(h, h) ELSE Mul(Mul(h, h), x)
  IN P[exponent]
Over(a, b) == Mul(a, Raised(b, Field - 2))
\* sqrt of math.h: some number that depends on s alone.
Sqrt(s) == Raised(s, (Field + 1) \div 4)
Abs(x) == IF x < 0 THEN -x ELSE x

-----------------------------------------------------------------------------
(* Memory *)

fn == call.fn
shape == call.shape
count == call.count
width == WidthOf(shape)

\* Where an operand is: dst may be one of the sources.
ArrayOf(operand) == IF operand = call.inplace THEN "dst" ELSE operand
\* Float k of the element in hand, from 1 on; the constant is one element.
Val(operand, k) == array[ArrayOf(operand)][itr * width + k - 1]
Cst(k) == array["cst"][k - 1]
Floats == 1 .. width

\* Floats stored one after the other from a place on.
Put(a, operand, at, xs) ==
  [a EXCEPT ![operand] = [k \in DOMAIN @ |-> IF k - at \in 0 .. Len(xs) - 1
                                           THEN xs[k - at + 1] ELSE @[k]]]

Begins(name, impl) == fn = name /\ call.impl = impl /\ itr < count
Stores(wide, xs, elements) ==
  /\ array' = Put(array, "dst", itr * wide, xs)
  /\ itr' = itr + elements
  /\ UNCHANGED <<call, before>>

-----------------------------------------------------------------------------
(* Element by element in plain C.  The four functions of a file are the    *)
(* same one for float, vec2f, vec3f and vec4f.                             *)

Each(name, xs) == Begins(name, "c") /\ Stores(width, xs, 1)

ne10_add_c == Each("add", [k \in Floats |-> Near0(Val("src1", k) + Val("src2", k))])
ne10_sub_c == Each("sub", [k \in Floats |-> Near0(Val("src1", k) - Val("src2", k))])
ne10_mul_c == Each("mul", [k \in Floats |-> Mul(Val("src1", k), Val("src2", k))])
ne10_div_c == Each("div", [k \in Floats |-> Over(Val("src1", k), Val("src2", k))])
ne10_mla_c ==
  Each("mla", [k \in Floats |-> Near0(Val("acc", k) + Mul(Val("src1", k), Val("src2", k)))])
ne10_abs_c == Each("abs", [k \in Floats |-> Abs(Val("src1", k))])
ne10_addc_c == Each("addc", [k \in Floats |-> Near0(Val("src1", k) + Cst(k))])
ne10_subc_c == Each("subc", [k \in Floats |-> Near0(Val("src1", k) - Cst(k))])
ne10_rsbc_c == Each("rsbc", [k \in Floats |-> Near0(Cst(k) - Val("src1", k))])
ne10_mulc_c == Each("mulc", [k \in Floats |-> Mul(Val("src1", k), Cst(k))])
ne10_divc_c == Each("divc", [k \in Floats |-> Over(Val("src1", k), Cst(k))])
ne10_mlac_c ==
  Each("mlac", [k \in Floats |-> Near0(Val("acc", k) + Mul(Val("src1", k), Cst(k)))])
ne10_setc_c == Each("setc", [k \in Floats |-> Cst(k)])

-----------------------------------------------------------------------------
(* Vectors *)

Dot(a, b) == Total([k \in Floats |-> Mul(Val(a, k), Val(b, k))])

ne10_len_c == Begins("len", "c") /\ Stores(1, <<Sqrt(Dot("src1", "src1"))>>, 1)
ne10_normalize_c ==
  LET len == Sqrt(Dot("src1", "src1"))
  IN Each("normalize", [k \in Floats |-> Over(Val("src1", k), len)])
ne10_dot_c == Begins("dot", "c") /\ Stores(1, <<Dot("src1", "src2")>>, 1)

ne10_cross_vec3f_c ==
  LET Minor(a, b) == Near0(Mul(Val("src1", a), Val("src2", b))
                           - Mul(Val("src1", b), Val("src2", a)))
  IN Each("cross", <<Minor(2, 3), Minor(3, 1), Minor(1, 2)>>)

-----------------------------------------------------------------------------
(* Matrices, column after column: float (c-1)*side + r-1 is c<c>.r<r>.         *)

side == SideOf(shape)
Places == 1 .. side
\* The floats of a matrix from a function of <<column, row>>.
MatrixOf(m, at) == [k \in 1 .. m * m |-> at[((k - 1) \div m) + 1, ((k - 1) % m) + 1]]
CR(operand, c, r) == Val(operand, (c - 1) * side + r)

ne10_addmat_c == Each("addmat", [k \in Floats |-> Near0(Val("src1", k) + Val("src2", k))])
ne10_submat_c == Each("submat", [k \in Floats |-> Near0(Val("src1", k) - Val("src2", k))])

ne10_identitymat_c ==
  Each("identitymat", MatrixOf(side, [c, r \in Places |-> IF c = r THEN 1 ELSE 0]))

ne10_transmat_c ==
  Each("transmat", MatrixOf(side, [c, r \in Places |-> CR("src1", r, c)]))

ne10_mulmat_c ==
  Each("mulmat", MatrixOf(side, [c, r \in Places |->
    Total([k \in Places |-> Mul(CR("src1", k, r), CR("src2", c, k))])]))

\* Vectors times a constant matrix.
ne10_mulcmatvec_c ==
  Each("mulcmatvec", [r \in Places |->
    Total([k \in Places |-> Mul(Cst((k - 1) * side + r), Val("src1", k))])])

\* A matrix as a sequence of columns, and without one column and one row.
Columns(operand) == [c \in Places |-> [r \in Places |-> CR(operand, c, r)]]
Without(m, c, r) == [k \in 1 .. Len(m) - 1 |-> RemoveAt(RemoveAt(m, c)[k], r)]

DET2x2(m) == Near0(Mul(m[1][1], m[2][2]) - Mul(m[2][1], m[1][2]))
DET3x3(m) ==
  LET Sub(c) == DET2x2(Without(m, c, 1))
  IN Total(<<Mul(m[1][1], Sub(1)), -Mul(m[2][1], Sub(2)), Mul(m[3][1], Sub(3))>>)
DET4x4(m) ==
  LET Sub(c) == DET3x3(Without(m, c, 1))
  IN Total(<<Mul(m[1][1], Sub(1)), -Mul(m[2][1], Sub(2)),
             Mul(m[3][1], Sub(3)), -Mul(m[4][1], Sub(4))>>)
Determinant(m) ==
  CASE Len(m) = 1 -> m[1][1] [] Len(m) = 2 -> DET2x2(m)
    [] Len(m) = 3 -> DET3x3(m) [] Len(m) = 4 -> DET4x4(m)

ne10_detmat_c ==
  Begins("detmat", "c") /\ Stores(1, <<Determinant(Columns("src1"))>>, 1)

\* The floats of the inverse: coefficient (c, r) is without column r and
\* row c, and the determinant of a singular matrix counts as 1.
InverseOf(m) ==
  LET det == Determinant(m)
  IN MatrixOf(Len(m), [c, r \in 1 .. Len(m) |->
       Over((IF (c + r) % 2 = 0 THEN 1 ELSE -1) * Determinant(Without(m, r, c)),
            IF det = 0 THEN 1 ELSE det)])

ne10_invmat_c == Each("invmat", InverseOf(Columns("src1")))

-----------------------------------------------------------------------------
(* Vector instructions.  A round of the main loop works on quads of floats *)
(* whose constants are laid out beforehand: n_cst says which component of  *)
(* cst is in which lane.  vec3f takes four vectors as three quads.         *)

\* Mutant of n_cst: the same quad for all three.
UnrotatedConstants ==
  CASE shape = "float" -> <<1, 1, 1, 1>>
    [] shape = "vec2f" -> <<1, 2, 1, 2>>
    [] shape = "vec3f" -> <<1, 2, 3, 1>> \o <<1, 2, 3, 1>> \o <<1, 2, 3, 1>>
    [] shape = "vec4f" -> <<1, 2, 3, 4>>

n_cst ==
  CASE shape = "float" -> <<1, 1, 1, 1>>
    [] shape = "vec2f" -> <<1, 2, 1, 2>>
    [] shape = "vec3f" -> <<1, 2, 3, 1>> \o <<2, 3, 1, 2>> \o <<3, 1, 2, 3>>
    [] shape = "vec4f" -> <<1, 2, 3, 4>>

\* The main loop while count > dif; what is left over goes element by element.
dif == count % (Len(n_cst) \div width)
lane == IF count - itr > dif THEN n_cst ELSE [k \in Floats |-> k]
Lanes == DOMAIN lane

Round(name, xs) == Begins(name, "neon") /\ Stores(width, xs, Len(lane) \div width)

ne10_addc_neon == Round("addc", [l \in Lanes |-> Near0(Val("src1", l) + Cst(lane[l]))])
ne10_subc_neon == Round("subc", [l \in Lanes |-> Near0(Val("src1", l) - Cst(lane[l]))])
ne10_rsbc_neon == Round("rsbc", [l \in Lanes |-> Near0(Cst(lane[l]) - Val("src1", l))])
ne10_mulc_neon == Round("mulc", [l \in Lanes |-> Mul(Val("src1", l), Cst(lane[l]))])
\* With an accumulator, and with no source at all.
AddedToAcc(xs) == [l \in Lanes |-> Near0(Val("acc", l) + xs[l])]
ConstantsAlone == [l \in Lanes |-> Cst(lane[l])]
ne10_mlac_neon ==
  Round("mlac", AddedToAcc([l \in Lanes |-> Mul(Val("src1", l), Cst(lane[l]))]))
ne10_setc_neon == Round("setc", ConstantsAlone)

\* vrecpe estimates 1/x; each vrecps step brings the estimate nearer.
Newton(x, rec) == Mul(Near0(2 - Mul(x, rec)), rec)
Reciprocal2(x) == Newton(x, Newton(x, Over(1, x)))
ne10_divc_neon ==
  Round("divc", [l \in Lanes |-> Mul(Val("src1", l), Reciprocal2(Cst(lane[l])))])

\* Matrices as vectors, in one call of the routine for those.
AllFloats == 1 .. count * width
ne10_addmat_neon ==
  /\ Begins("addmat", "neon")
  /\ Stores(width, [k \in AllFloats |-> Near0(Val("src1", k) + Val("src2", k))], count)
ne10_submat_neon ==
  /\ Begins("submat", "neon")
  /\ Stores(width, [k \in AllFloats |-> Near0(Val("src1", k) - Val("src2", k))], count)

-----------------------------------------------------------------------------
(* Physics: collisions in two dimensions.                                  *)

X(o, i) == array[o][2 * i]
Y(o, i) == array[o][2 * i + 1]

ne10_mul_matvec_float(x, y) ==
  LET T(k) == array["xf"][k]      \* c1.r1, c1.r2, c2.r1, c2.r2
  IN <<Near0(Near0(Mul(T(3), x) - Mul(T(2), y)) + T(0)),
       Near0(Near0(Mul(T(2), x) + Mul(T(3), y)) + T(1))>>

min_2f(a, b) == [c \in 1 .. 2 |-> IF a[c] < b[c] THEN a[c] ELSE b[c]]
max_2f(a, b) == [c \in 1 .. 2 |-> IF a[c] > b[c] THEN a[c] ELSE b[c]]

Vertex(i) == ne10_mul_matvec_float(X("vertices", i), Y("vertices", i))
BoxOf(i) == [lower |-> Vertex(i), upper |-> Vertex(i)]
\* lower and upper after vertices i .. j-1.
Grown(box, i, j) ==
  FoldLeft(LAMBDA b, v : [lower |-> min_2f(b.lower, Vertex(v)),
                          upper |-> max_2f(b.upper, Vertex(v))],
           box, [k \in 1 .. j - i |-> i + k - 1])
WithRadius(box) ==
  <<Near0(box.lower[1] - X("radius", 0)), Near0(box.lower[2] - Y("radius", 0)),
    Near0(box.upper[1] + X("radius", 0)), Near0(box.upper[2] + Y("radius", 0))>>
StoresBox(box, done) ==
  /\ array' = Put(array, "dst", 0, WithRadius(box))
  /\ itr' = done
  /\ UNCHANGED <<call, before>>

ne10_physics_compute_aabb_vec2f_c ==
  Begins("aabb", "c") /\ StoresBox(Grown(BoxOf(0), 1, count), count)

residual_loops == count % 4
main_loops == count - residual_loops

\* The assembly routine, for a multiple of four vertices.
ne10_physics_compute_aabb_vertex4_vec2f_neon ==
  /\ Begins("aabb", "neon") /\ itr = 0 /\ main_loops > 0
  /\ StoresBox(Grown(BoxOf(0), 1, main_loops), main_loops)

\* The vertices left over, from the box so far without its radius.
ne10_physics_compute_aabb_vec2f_neon ==
  LET d == array["dst"]
      first == BoxOf(main_loops)
      start == IF main_loops = 0 THEN first
               ELSE [lower |-> min_2f(first.lower, <<Near0(d[0] + X("radius", 0)),
                                                     Near0(d[1] + Y("radius", 0))>>),
                     upper |-> max_2f(first.upper, <<Near0(d[2] - X("radius", 0)),
                                                     Near0(d[3] - Y("radius", 0))>>)]
  IN /\ Begins("aabb", "neon") /\ itr = main_loops /\ residual_loops > 0
     /\ StoresBox(Grown(start, main_loops + 1, count), count)

\* Velocity of the point r of a body with velocity v: x, y and rotation.
PointVelocity(v, r) ==
  <<Near0(array[v][3 * itr] - Mul(array[v][3 * itr + 2], Y(r, itr))),
    Near0(array[v][3 * itr + 1] + Mul(array[v][3 * itr + 2], X(r, itr)))>>

ne10_physics_relative_v_vec2f_c ==
  LET va == PointVelocity("v_wa", "ra")
      vb == PointVelocity("v_wb", "rb")
  IN /\ Begins("relative_v", "c")
     /\ Stores(2, <<Near0(vb[1] - va[1]), Near0(vb[2] - va[2])>>, 1)

\* What the impulse p adds to the velocity of a body with inverse mass im.x
\* and inverse inertia im.y, struck at r.
Struck(v, im, r, sign) ==
  LET old(k) == array[v][3 * itr + k]
      torque == Near0(Mul(X(r, itr), Y("p", itr)) - Mul(Y(r, itr), X("p", itr)))
  IN <<Near0(old(0) + sign * Mul(X(im, itr), X("p", itr))),
       Near0(old(1) + sign * Mul(X(im, itr), Y("p", itr))),
       Near0(old(2) + sign * Mul(Y(im, itr), torque))>>

ne10_physics_apply_impulse_vec2f_c ==
  /\ Begins("impulse", "c")
  /\ array' = Put(Put(array, "v_wa", 3 * itr, Struck("v_wa", "ima", "ra", -1)),
                  "v_wb", 3 * itr, Struck("v_wb", "imb", "rb", 1))
  /\ itr' = itr + 1
  /\ UNCHANGED <<call, before>>

-----------------------------------------------------------------------------
(* What the operands of a function are. *)
OperandsOf(name) ==
  CASE name \in {"abs", "len", "normalize", "transmat", "detmat", "invmat"} -> {"dst", "src1"}
    [] name \in {"add", "sub", "mul", "div", "dot", "cross", "addmat", "submat", "mulmat"} ->
         {"dst", "src1", "src2"}
    [] name = "mla" -> {"dst", "acc", "src1", "src2"}
    [] name \in {"addc", "subc", "rsbc", "mulc", "divc", "mulcmatvec"} -> {"dst", "src1", "cst"}
    [] name = "mlac" -> {"dst", "acc", "src1", "cst"}
    [] name = "setc" -> {"dst", "cst"}
    [] name = "identitymat" -> {"dst"}
    [] name = "aabb" -> {"dst", "vertices", "xf", "radius"}
    [] name = "relative_v" -> {"dst", "v_wa", "ra", "v_wb", "rb"}
    [] name = "impulse" -> {"v_wa", "v_wb", "ra", "rb", "ima", "imb", "p"}

\* Numbers for an operand, none of them 0; of seed 0 all the same, so that
\* matrices are singular.
Numbers(operand, seed) ==
  LET offset == CHOOSE i \in 1 .. 15 : <<"dst", "acc", "src1", "src2", "cst", "vertices", "xf",
                  "radius", "v_wa", "v_wb", "ra", "rb", "ima", "imb", "p">>[i] = operand
  IN [k \in 0 .. Room - 1 |->
        IF seed = 0 THEN 2
        ELSE (IF (k + seed) % 3 = 0 THEN -1 ELSE 1) * (((k * (k + seed) + 5 * offset) % 13) + 1)]

MathInit ==
  /\ call \in Calls
  /\ array = [o \in OperandsOf(call.fn) |-> Numbers(o, call.seed)]
  /\ itr = 0
  /\ before = array

MathNext ==
  \/ ne10_add_c \/ ne10_sub_c \/ ne10_mul_c \/ ne10_div_c \/ ne10_mla_c \/ ne10_abs_c
  \/ ne10_addc_c \/ ne10_subc_c \/ ne10_rsbc_c \/ ne10_mulc_c \/ ne10_divc_c
  \/ ne10_mlac_c \/ ne10_setc_c
  \/ ne10_len_c \/ ne10_normalize_c \/ ne10_dot_c \/ ne10_cross_vec3f_c
  \/ ne10_addmat_c \/ ne10_submat_c \/ ne10_identitymat_c \/ ne10_transmat_c
  \/ ne10_mulmat_c \/ ne10_mulcmatvec_c \/ ne10_detmat_c \/ ne10_invmat_c
  \/ ne10_addc_neon \/ ne10_subc_neon \/ ne10_rsbc_neon \/ ne10_mulc_neon
  \/ ne10_mlac_neon \/ ne10_setc_neon \/ ne10_divc_neon
  \/ ne10_addmat_neon \/ ne10_submat_neon
  \/ ne10_physics_compute_aabb_vec2f_c \/ ne10_physics_compute_aabb_vertex4_vec2f_neon
  \/ ne10_physics_compute_aabb_vec2f_neon \/ ne10_physics_relative_v_vec2f_c
  \/ ne10_physics_apply_impulse_vec2f_c

-----------------------------------------------------------------------------
(* Properties *)

\* At the call, and now.
Was(o, k) == before[ArrayOf(o)][k]
Is(k) == array["dst"][k]

\* For the functions of one float at a time: what float k must become.
FloatLaw(k) ==
  LET s1 == Was("src1", k)
      s2 == Was("src2", k)
      c == Was("cst", k % width)
      y == Is(k)
  IN CASE fn \in {"add", "addmat"} -> Near0(y - s2) = s1
       [] fn \in {"sub", "submat"} -> Near0(y + s2) = s1
       [] fn = "mul" -> y = Mul(s1, s2)
       [] fn = "div" -> Mul(y, s2) = s1
       [] fn = "mla" -> Near0(y - Was("acc", k)) = Mul(s1, s2)
       [] fn = "abs" -> y >= 0 /\ y * y = s1 * s1
       [] fn = "addc" -> Near0(y - c) = s1
       [] fn = "subc" -> Near0(y + c) = s1
       [] fn = "rsbc" -> Near0(y + s1) = c
       [] fn = "mulc" -> y = Mul(s1, c)
       [] fn = "divc" -> Mul(y, c) = s1
       [] fn = "mlac" -> Near0(y - Was("acc", k)) = Mul(s1, c)
       [] fn = "setc" -> y = c
       [] OTHER -> TRUE

\* Column c, row r of element e of an operand at the call, and of dst now.
WasCR(o, e, c, r) == Was(o, e * width + (c - 1) * side + r - 1)
IsCR(e, c, r) == Is(e * width + (c - 1) * side + r - 1)

\* The determinant by its definition: signed products over permutations.
Leibniz(At(_, _)) ==
  LET perms == {p \in [Places -> Places] : \A a, b \in Places : a # b => p[a] # p[b]}
      sign(p) == IF Cardinality({ab \in Places \X Places :
                                   ab[1] < ab[2] /\ p[ab[1]] > p[ab[2]]}) % 2 = 0 THEN 1 ELSE -1
      product(p) == FoldLeft(LAMBDA x, c : Mul(x, At(c, p[c])), 1, [c \in Places |-> c])
  IN FoldSet(LAMBDA p, x : Near0(x + sign(p) * product(p)), 0, perms)

Product3(e, k, o) == Mul(Is(3 * e + k), Was(o, 3 * e + k))

\* For the functions of vectors and matrices: what element e must become.
ElementLaw(e) ==
  CASE fn = "len" ->
         Is(e) = Sqrt(Total([k \in 1 .. width |-> Mul(Was("src1", e * width + k - 1),
                                                      Was("src1", e * width + k - 1))]))
    [] fn = "normalize" ->
         \* All components shrink by one factor, which is the length.
         \A j, k \in 1 .. width :
           /\ Mul(Is(e * width + j - 1), Was("src1", e * width + k - 1))
                = Mul(Is(e * width + k - 1), Was("src1", e * width + j - 1))
           /\ LET squares == Total([i \in 1 .. width |-> Mul(Was("src1", e * width + i - 1),
                                                             Was("src1", e * width + i - 1))])
              IN Mul(Is(e * width + k - 1), Sqrt(squares)) = Was("src1", e * width + k - 1)
    [] fn = "dot" ->
         Is(e) = Total([k \in 1 .. width |-> Mul(Was("src1", e * width + k - 1),
                                                 Was("src2", e * width + k - 1))])
    [] fn = "cross" ->
         \* At right angles to both.
         \A o \in {"src1", "src2"} :
           Total(<<Product3(e, 0, o), Product3(e, 1, o), Product3(e, 2, o)>>) = 0
    [] fn = "identitymat" ->
         \A c, r \in Places : IsCR(e, c, r) = IF c = r THEN 1 ELSE 0
    [] fn = "transmat" -> \A c, r \in Places : IsCR(e, c, r) = WasCR("src1", e, r, c)
    [] fn = "mulmat" ->
         \A c, r \in Places :
           IsCR(e, c, r) = Total([k \in Places |-> Mul(WasCR("src1", e, k, r),
                                                      WasCR("src2", e, c, k))])
    [] fn = "mulcmatvec" ->
         \A r \in Places :
           Is(e * side + r - 1) = Total([k \in Places |-> Mul(WasCR("cst", 0, k, r),
                                                             Was("src1", e * side + k - 1))])
    [] fn = "detmat" ->
         Is(e) = Leibniz(LAMBDA c, r : WasCR("src1", e, c, r))
    [] fn = "invmat" ->
         LET det == Leibniz(LAMBDA c, r : WasCR("src1", e, c, r))
         IN \A c, r \in Places :
              Total([k \in Places |-> Mul(IsCR(e, k, r), WasCR("src1", e, c, k))])
                = IF c = r /\ det # 0 THEN 1 ELSE 0
    [] OTHER -> TRUE

FloatByFloat == {"add", "sub", "mul", "div", "mla", "abs", "addc", "subc", "rsbc", "mulc",
              "divc", "mlac", "setc", "addmat", "submat"}

\* For physics.
PhysicsLaw ==
  CASE fn = "aabb" ->
         \* The box holds every vertex with its radius, and one touches each side.
         LET dx == X("radius", 0)
             dy == Y("radius", 0)
             xs == {Vertex(i)[1] : i \in 0 .. count - 1}
             ys == {Vertex(i)[2] : i \in 0 .. count - 1}
         IN /\ Is(0) = Min(xs) - dx /\ Is(2) = Max(xs) + dx
            /\ Is(1) = Min(ys) - dy /\ Is(3) = Max(ys) + dy
    [] fn = "relative_v" ->
         \A e \in 0 .. count - 1 :
           LET V(v, k) == array[v][3 * e + k]
           IN /\ Near0(Is(2 * e) + V("v_wa", 0) + Mul(V("v_wb", 2), Y("rb", e)))
                   = Near0(V("v_wb", 0) + Mul(V("v_wa", 2), Y("ra", e)))
              /\ Near0(Is(2 * e + 1) + V("v_wa", 1) + Mul(V("v_wa", 2), X("ra", e)))
                   = Near0(V("v_wb", 1) + Mul(V("v_wb", 2), X("rb", e)))
    [] fn = "impulse" ->
         \* What one body gains in momentum the other loses.
         \A e \in 0 .. count - 1 :
           LET Gain(v, k, im) == Over(Near0(array[v][3 * e + k] - before[v][3 * e + k]), X(im, e))
           IN \A k \in {0, 1} : Near0(Gain("v_wa", k, "ima") + Gain("v_wb", k, "imb")) = 0
    [] OTHER -> TRUE

\* Floats of dst that a call writes.
Written ==
  CASE fn \in {"len", "dot", "detmat"} -> count
    [] fn = "mulcmatvec" -> count * side
    [] fn = "aabb" -> 4
    [] fn = "relative_v" -> 2 * count
    [] fn = "impulse" -> 0
    [] OTHER -> count * width

(* A call leaves in dst what its function is for, for every count, in      *)
(* place or not, in plain C and in vectors of four floats with what is     *)
(* left over: sums and quotients undo each other, an inverse times its     *)
(* matrix is the identity, a cross product is at right angles, the box     *)
(* touches the outermost vertices.  It changes nothing else: no float      *)
(* behind the last element, and no source that dst is not.                 *)
ArraysAreExact ==
  itr = count =>
    /\ fn \in FloatByFloat => \A k \in 0 .. count * width - 1 : FloatLaw(k)
    /\ \A e \in 0 .. count - 1 : ElementLaw(e)
    /\ count > 0 => PhysicsLaw
    /\ "dst" \in DOMAIN array => \A k \in Written .. Room - 1 : Is(k) = before["dst"][k]
    /\ \A o \in DOMAIN array \ {"dst", "v_wa", "v_wb"} : array[o] = before[o]
=============================================================================
