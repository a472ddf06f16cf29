------------------------------ MODULE Ne10Image ------------------------------
(***************************************************************************)
(* The images of the NE10 library, ne10/modules/imgproc: the box filter    *)
(* (NE10_boxfilter.c and .neon.c), the resizing (NE10_resize.c and         *)
(* .neon.c) and the rotation (NE10_rotate.c).                              *)
(*                                                                         *)
(* An image is a function of y, then x, then the channel (0 .. 3 for       *)
(* RGBA).  Positions between pixels, floats in the code, are quotients     *)
(* here, so exact; what the code stores as integers is rounded as there.   *)
(***************************************************************************)
EXTENDS Integers, Sequences, SequencesExt, FiniteSetsExt

CONSTANTS
  Images,          \* the calls to be tried
  Undetermined     \* a byte that nothing determines

(* A call: op ("box", "resize" or "rotate"), impl ("c" or "neon"), seed    *)
(* (of the picture), w and h of the source, and                            *)
(*   box     kx, ky: sides of the kernel                                   *)
(*   resize  dstw, dsth                                                    *)
(*   rotate  sine and cosine of the angle, in parts of unit.               *)

ASSUME ImageAssumption ==
  /\ Undetermined \notin 0 .. 255
  /\ \A t \in Images :
       /\ t.impl \in {"c", "neon"} /\ t.w \in Nat \ {0} /\ t.h \in Nat \ {0}
       /\ t.op = "box" => t.kx \in 1 .. t.w /\ t.ky \in 1 .. t.h
       /\ t.op = "resize" => t.dstw \in Nat \ {0} /\ t.dsth \in Nat \ {0}
       \* Of a smaller image the rotation reads what is not the image's.
       /\ t.op = "rotate" => t.w >= 4 /\ t.h >= 4 /\ t.impl = "c"
                             /\ t.sine * t.sine + t.cosine * t.cosine = t.unit * t.unit

VARIABLES
  task,        \* the call
  picture,     \* src
  image,       \* dst
  phase,       \* what is to be done next
  at,          \* the row that is next
  dst_buf,     \* box: the image after the filter of rows
  sum_row,     \* box: the sums of the columns
  rows,        \* resize: rows of src resized in x
  prev_sy      \* resize: which rows of src they are

imgVars == <<task, picture, image, phase, at, dst_buf, sum_row, rows, prev_sy>>

-----------------------------------------------------------------------------
Channels == 0 .. 3
ImageOf(w, h, At(_, _, _)) ==
  [y \in 0 .. h - 1 |-> [x \in 0 .. w - 1 |-> [c \in Channels |-> At(y, x, c)]]]

\* One channel of a row, of a column.
RowOf(img, y, c) == [x \in DOMAIN img[y] |-> img[y][x][c]]
ColumnOf(img, x, c) == [y \in DOMAIN img |-> img[y][x][c]]
\* Rows ys with the values that per-channel functions of x have; columns alike.
WithRows(img, ys, f) ==
  [y \in DOMAIN img |->
    IF y \notin ys THEN img[y]
    ELSE [x \in DOMAIN img[y] |-> [c \in Channels |->
           IF x \in DOMAIN f[y, c] THEN f[y, c][x] ELSE img[y][x][c]]]]
WithColumns(img, xs, f) ==
  [y \in DOMAIN img |-> [x \in DOMAIN img[y] |->
    IF x \notin xs THEN img[y][x]
    ELSE [c \in Channels |->
           IF y \in DOMAIN f[x, c] THEN f[x, c][y] ELSE img[y][x][c]]]]

Xs == 0 .. task.w - 1
Ys == 0 .. task.h - 1

Goes(from, to) == phase = from /\ phase' = to

-----------------------------------------------------------------------------
(* Box filter.  A line is a row or a column; the kernel of a pixel begins  *)
(* anchor places before it, and what is outside the line counts as 0.      *)

SumOf(line, first, last) ==
  LET S[n \in 0 .. last - first + 1, i \in first .. last + 1] ==      \* n from place i on
        CASE n = 0 -> 0
          [] n = 1 -> line[i]
          [] OTHER -> S[n \div 2, i] + S[n - n \div 2, i + n \div 2]
  IN S[last - first + 1, first]
LengthOf(line) == Cardinality(DOMAIN line)

anchor(kernel) == kernel \div 2
border_r(kernel) == kernel - (anchor(kernel) + 1)

\* The sums s that a loop over first .. last has after each round.
Accumulated(s, Add(_, _), first, last) ==
  FoldLeft(LAMBDA sums, x : Append(sums, Add(IF sums = <<>> THEN s ELSE Last(sums), x)),
           <<>>, [i \in 1 .. last - first + 1 |-> first + i - 1])

\* The means of the pixels whose kernel is not wholly in the line: one
\* pixel comes into the sum after the other at the left (top), and one after
\* the other goes at the right (bottom).
Border(line, kernel) ==
  LET n == LengthOf(line)
      l == anchor(kernel)
      r == border_r(kernel)
      offset == kernel - l - 1
      left == Accumulated(SumOf(line, 0, offset - 1), LAMBDA s, x : s + line[offset + x], 0, l - 1)
      right == Accumulated(SumOf(line, n - kernel, n - 1),
                           LAMBDA s, x : s - line[n - kernel + x], 0, r - 1)
  IN [x \in (0 .. l - 1) \cup (n - r .. n - 1) |->
        (IF x < l THEN left[x + 1] ELSE right[x - (n - r) + 1]) \div kernel]

\* The sum for pixel x from that for the pixel before.
Slid(line, kernel, x, sum) ==
  sum + line[x + border_r(kernel)] - line[x - anchor(kernel) - 1]

\* The sums of the pixels whose kernel is in the line.
Sums(line, kernel) ==
  LET first == anchor(kernel)
      last == LengthOf(line) - border_r(kernel) - 1
      start == SumOf(line, 0, kernel - 1)
      sums == <<start>> \o Accumulated(start, LAMBDA s, x : Slid(line, kernel, x, s),
                                      first + 1, last)
  IN [x \in first .. last |-> sums[x - first + 1]]

\* In vectors a 16-bit product takes the place of the division.
DIV_SHIFT == 15
Shifted(sum, kernel) == (sum * ((2 ^ DIV_SHIFT) \div kernel)) \div 2 ^ DIV_SHIFT

Divided(sums, kernel) == [x \in DOMAIN sums |-> sums[x] \div kernel]
ShiftedAll(sums, kernel) == [x \in DOMAIN sums |-> Shifted(sums[x], kernel)]

ne10_img_boxfilter_row_border ==
  /\ Goes("row_border", "row")
  /\ \E lines \in {[y \in Ys, c \in Channels |-> Border(RowOf(picture, y, c), task.kx)]} :
       dst_buf' = WithRows(dst_buf, Ys, lines)
  /\ at' = 0
  /\ UNCHANGED <<task, picture, image, sum_row, rows, prev_sy>>

\* The vector version gives the cases it cannot do to the plain one.
RowsInPlainC == task.impl = "c" \/ task.h = 1 \/ task.kx >= 128 \/ task.kx = 1
ColumnsInPlainC == task.impl = "c" \/ task.w = 1 \/ task.ky >= 128 \/ task.ky = 1

ne10_img_boxfilter_row_c ==
  /\ Goes("row", "col_border") /\ RowsInPlainC
  /\ \E lines \in {[y \in Ys, c \in Channels |->
                     Divided(Sums(RowOf(picture, y, c), task.kx), task.kx)]} :
       dst_buf' = WithRows(dst_buf, Ys, lines)
  /\ UNCHANGED <<task, picture, image, at, sum_row, rows, prev_sy>>

\* Two rows in a round; of an odd number the last round steps back one row.
ne10_img_boxfilter_row_neon ==
  LET y == IF task.h % 2 # 0 /\ at = task.h - 1 THEN at - 1 ELSE at
      pair == {y, y + 1}
  IN /\ phase = "row" /\ ~RowsInPlainC
     /\ \E lines \in {[r \in pair, c \in Channels |->
                        ShiftedAll(Sums(RowOf(picture, r, c), task.kx), task.kx)]} :
          dst_buf' = WithRows(dst_buf, pair, lines)
     /\ at' = y + 2
     /\ phase' = IF y + 2 < task.h THEN "row" ELSE "col_border"
     /\ UNCHANGED <<task, picture, image, sum_row, rows, prev_sy>>

ne10_img_boxfilter_col_border ==
  /\ Goes("col_border", "col")
  /\ \E lines \in {[x \in Xs, c \in Channels |-> Border(ColumnOf(dst_buf, x, c), task.ky)]} :
       image' = WithColumns(image, Xs, lines)
  /\ UNCHANGED <<task, picture, at, dst_buf, sum_row, rows, prev_sy>>

ne10_img_boxfilter_col_c ==
  /\ Goes("col", "done") /\ ColumnsInPlainC
  /\ \E lines \in {[x \in Xs, c \in Channels |->
                     Divided(Sums(ColumnOf(dst_buf, x, c), task.ky), task.ky)]} :
       image' = WithColumns(image, Xs, lines)
  /\ UNCHANGED <<task, picture, at, dst_buf, sum_row, rows, prev_sy>>

border_t == anchor(task.ky)
\* Row y of columns xs as the sums give it.
StoreRow(img, y, xs, sums) ==
  [img EXCEPT ![y] = [x \in DOMAIN @ |->
    IF x \in xs THEN [c \in Channels |-> Shifted(sums[x][c], task.ky)] ELSE @[x]]]

\* The sums of the first row of kernels.
ColumnSums ==
  /\ Goes("col", "pairs") /\ ~ColumnsInPlainC
  /\ sum_row' = [x \in Xs |-> [c \in Channels |->
                   SumOf(ColumnOf(dst_buf, x, c), 0, task.ky - 1)]]
  /\ image' = StoreRow(image, border_t, Xs, sum_row')
  /\ at' = border_t + 1
  /\ UNCHANGED <<task, picture, dst_buf, rows, prev_sy>>

RowEnd == task.h - border_r(task.ky)
\* The sums of the columns xs for row y.
NextSums(xs, y) ==
  [x \in Xs |-> IF x \notin xs THEN sum_row[x]
                ELSE [c \in Channels |-> Slid(ColumnOf(dst_buf, x, c), task.ky, y, sum_row[x][c])]]

\* A row of all pairs of columns; an odd width leaves its last column out.
Paired == IF task.w % 2 # 0 THEN 0 .. task.w - 2 ELSE Xs
ColumnPairs ==
  /\ phase = "pairs" /\ at < RowEnd
  /\ sum_row' = NextSums(Paired, at)
  /\ image' = StoreRow(image, at, Paired, sum_row')
  /\ at' = at + 1
  /\ UNCHANGED <<task, picture, phase, dst_buf, rows, prev_sy>>

\* An odd width: the last two columns, from the sums the first of them had
\* when the pairs began.
SumsBackedUp ==
  [sum_row EXCEPT ![task.w - 2] = [c \in Channels |->
     SumOf(ColumnOf(dst_buf, task.w - 2, c), 0, task.ky - 1)]]
ColumnsStepBack ==
  /\ phase = "pairs" /\ at >= RowEnd
  /\ IF task.w % 2 # 0
     THEN phase' = "last pair" /\ sum_row' = SumsBackedUp /\ at' = border_t + 1
     ELSE phase' = "done" /\ UNCHANGED <<sum_row, at>>
  /\ UNCHANGED <<task, picture, image, dst_buf, rows, prev_sy>>

LastPair ==
  LET pair == {task.w - 2, task.w - 1}
  IN /\ phase = "last pair" /\ at < RowEnd
     /\ sum_row' = NextSums(pair, at)
     /\ image' = StoreRow(image, at, pair, sum_row')
     /\ at' = at + 1
     /\ UNCHANGED <<task, picture, phase, dst_buf, rows, prev_sy>>

LastPairDone ==
  /\ Goes("last pair", "done") /\ at >= RowEnd
  /\ UNCHANGED <<task, picture, image, at, dst_buf, sum_row, rows, prev_sy>>

ne10_img_boxfilter_col_neon ==
  ColumnSums \/ ColumnPairs \/ ColumnsStepBack \/ LastPair \/ LastPairDone

\* No memory for dst_buf, or for sum_row: dst stays as it is.
AllocationFails ==
  /\ phase = "row_border" \/ (phase = "col" /\ ~ColumnsInPlainC)
  /\ phase' = "failed"
  /\ UNCHANGED <<task, picture, image, at, dst_buf, sum_row, rows, prev_sy>>

ne10_img_boxfilter_rgba8888_c ==
  /\ task.impl = "c"
  /\ \/ ne10_img_boxfilter_row_border \/ ne10_img_boxfilter_row_c
     \/ ne10_img_boxfilter_col_border \/ ne10_img_boxfilter_col_c
     \/ AllocationFails
ne10_img_boxfilter_rgba8888_neon ==
  /\ task.impl = "neon"
  /\ \/ ne10_img_boxfilter_row_border
     \/ ne10_img_boxfilter_row_c \/ ne10_img_boxfilter_row_neon
     \/ ne10_img_boxfilter_col_border
     \/ ne10_img_boxfilter_col_c \/ ne10_img_boxfilter_col_neon
     \/ AllocationFails

-----------------------------------------------------------------------------
(* Resizing                                                                *)

INTER_RESIZE_COEF_SCALE == 2048
ne10_clip(x, a, b) == IF x < a THEN a ELSE IF x < b THEN x ELSE b - 1

\* Where pixel d of dst is in src, ((d + 0.5) * from / to - 0.5): the pixel
\* before, and the weights of it and of the one behind it.
Place0(d, from, to) ==
  LET twice == (2 * d + 1) * from - to      \* in parts of 2 * to
      rest == twice % (2 * to)
      Weight(part) == (part * INTER_RESIZE_COEF_SCALE) \div (2 * to)
  IN [s |-> twice \div (2 * to), w |-> <<Weight(2 * to - rest), Weight(rest)>>]

\* In x the place is kept in the row.
xofs(dx) ==
  LET p == Place0(dx, task.w, task.dstw)
      Hold(s) == [s |-> s, w |-> <<INTER_RESIZE_COEF_SCALE, 0>>]
  IN IF p.s < 0 THEN Hold(0) ELSE IF p.s >= task.w - 1 THEN Hold(task.w - 1) ELSE p
yofs(dy) == Place0(dy, task.h, task.dsth)

\* From xmax on the pixel behind is not looked at.
xmax ==
  LET past == {dx \in 0 .. task.dstw - 1 : Max({0, Place0(dx, task.w, task.dstw).s}) + 1 >= task.w}
  IN Min(past \cup {task.dstw})

ne10_img_hresize_linear_c(sy) ==
  [dx \in 0 .. task.dstw - 1 |->
    LET p == xofs(dx)
        S == picture[sy]
    IN [c \in Channels |->
         IF dx < xmax THEN S[p.s][c] * p.w[1] + S[p.s + 1][c] * p.w[2]
         ELSE S[p.s][c] * INTER_RESIZE_COEF_SCALE]]

ne10_cast_op(val) ==
  Min({255, Max({0, (val + 2 ^ 21) \div 2 ^ 22})})

ne10_img_vresize_linear_c(beta) ==
  [dx \in 0 .. task.dstw - 1 |-> [c \in Channels |->
    ne10_cast_op(rows'[1][dx][c] * beta[1] + rows'[2][dx][c] * beta[2])]]

\* The vectors hold a pixel (in x) or two (in y) and compute the same; a mask
\* keeps the second of the last two from being stored when the width is odd.
ne10_img_hresize_4channels_linear_neon(sy) == ne10_img_hresize_linear_c(sy)
ne10_img_vresize_linear_neon(beta) == ne10_img_vresize_linear_c(beta)

\* The rows of src for row dy of dst.
SourceRows(dy) == [k \in 1 .. 2 |-> ne10_clip(yofs(dy).s + k - 1, 0, task.h)]

\* Mutant of Cached: the first row is looked for at the first place alone, so
\* that what was found at the second is taken for it.
CachedAnywhere(sy) ==
  LET first == IF sy[1] \in {prev_sy[1], prev_sy[2]} THEN 1 ELSE 3
      second == Min({k \in Max({first, 2}) .. 2 : prev_sy[k] = sy[2]} \cup {3})
  IN <<first, second>>
\* Where each is found among the resized ones: 1, 2 or not at all (3).  The
\* search does not go back.
Cached(sy) ==
  LET first == Min({k \in 1 .. 2 : prev_sy[k] = sy[1]} \cup {3})
      second == Min({k \in Max({first, 2}) .. 2 : prev_sy[k] = sy[2]} \cup {3})
  IN <<first, second>>
\* The first row that must be computed, and with it those behind.
FirstMissing(found) == Min({k \in 1 .. 2 : found[k] = 3} \cup {3})

\* One row of dst; InX and InY are the functions of either version.
ResizedRow(sy, InX(_), InY(_)) ==
  LET found == Cached(sy)
  IN /\ rows' = [k \in 1 .. 2 |->
                  IF k >= FirstMissing(found) THEN InX(sy[k]) ELSE rows[found[k]]]
     /\ prev_sy' = sy
     /\ image' = [image EXCEPT ![at] = InY(yofs(at).w)]
     /\ at' = at + 1
     /\ phase' = IF at + 1 < task.dsth THEN "resize" ELSE "done"
     /\ UNCHANGED <<task, picture, dst_buf, sum_row>>

ne10_img_resize_generic_linear_c ==
  /\ phase = "resize" /\ task.impl = "c"
  /\ ResizedRow(SourceRows(at), ne10_img_hresize_linear_c, ne10_img_vresize_linear_c)
ne10_img_resize_generic_linear_neon ==
  /\ phase = "resize" /\ task.impl = "neon"
  /\ ResizedRow(SourceRows(at), ne10_img_hresize_4channels_linear_neon,
                ne10_img_vresize_linear_neon)

-----------------------------------------------------------------------------
(* Rotation.  Positions are in parts of Parts.                             *)

Absolute(x) == IF x < 0 THEN -x ELSE x
RotatedWidth(t) == (t.h * Absolute(t.sine) + t.w * Absolute(t.cosine)) \div t.unit + 1
RotatedHeight(t) == (t.h * Absolute(t.cosine) + t.w * Absolute(t.sine)) \div t.unit + 1

Parts == 2 * task.unit
\* Where pixel x of row y of dst is in src.
xs_at(x, y) ==
  task.w * task.unit - task.cosine * (RotatedWidth(task) - 1)
    - task.sine * (RotatedHeight(task) - 1) + 2 * task.sine * y + 2 * task.cosine * x
ys_at(x, y) ==
  task.h * task.unit + task.sine * (RotatedWidth(task) - 1)
    - task.cosine * (RotatedHeight(task) - 1) + 2 * task.cosine * y - 2 * task.sine * x

\* A cast to an integer cuts towards 0.
Cut(v) == IF v >= 0 THEN v \div Parts ELSE -((-v) \div Parts)
NE10_F2I16_MAX == 32767
NE10_F2I16_OP(part) == (2 * part * NE10_F2I16_MAX + Parts) \div (2 * Parts)
NE10_F2I16_SROUND(x) == (2 * x + 32768) \div 65536

\* Is v, as an unsigned number, below bound?
UnsignedBelow(v, bound) == v >= 0 /\ v < bound

\* The four pixels around a position, blended by where it is among them.
Subpixel(ix, iy, a, b, a1, c, behind) ==
  LET p0 == NE10_F2I16_SROUND(picture[iy][ix][c] * a1 + picture[iy][ix + behind][c] * a)
      p1 == NE10_F2I16_SROUND(picture[iy + 1][ix][c] * a1 + picture[iy + 1][ix + 1][c] * a)
  IN NE10_F2I16_SROUND(p0 * NE10_F2I16_MAX + b * (p1 - p0))

\* A position less than a pixel before the first row or column passes the
\* test, and its fraction is negative: the conversion to 16 bits is undefined.
PixelAt(x, y, Behind(_)) ==
  LET ixs == Cut(xs_at(x, y))
      iys == Cut(ys_at(x, y))
      ax == xs_at(x, y) - ixs * Parts
      by == ys_at(x, y) - iys * Parts
  IN IF ax < 0 \/ by < 0 THEN [c \in Channels |-> Undetermined]
     ELSE [c \in Channels |-> Subpixel(ixs, iys, NE10_F2I16_OP(ax), NE10_F2I16_OP(by),
                                       NE10_F2I16_OP(Parts - ax), c, Behind(c))]

\* Is the whole row well inside src?
InsideRow(y) ==
  \A x \in {0, RotatedWidth(task) - 1} :
    /\ UnsignedBelow(Cut(xs_at(x, y)) - 1, task.w - 4)
    /\ UnsignedBelow(Cut(ys_at(x, y)) - 1, task.h - 4)

\* A row inside: no tests.  For the second channel the upper right pixel is
\* not looked at: the upper left stands for both.
FastRow(y) ==
  [x \in DOMAIN image[y] |-> PixelAt(x, y, LAMBDA c : IF c = 1 THEN 0 ELSE 1)]
\* Any other row: pixels outside src are left as they are.
SafeRow(y) ==
  [x \in DOMAIN image[y] |->
    IF UnsignedBelow(Cut(ys_at(x, y)), task.h - 1) /\ UnsignedBelow(Cut(xs_at(x, y)), task.w - 1)
    THEN PixelAt(x, y, LAMBDA c : 1) ELSE image[y][x]]

ne10_img_rotate_get_quad_rangle_subpix_rgba_c ==
  /\ phase = "rotate"
  /\ image' = [image EXCEPT ![at] = IF InsideRow(at) THEN FastRow(at) ELSE SafeRow(at)]
  /\ at' = at + 1
  /\ phase' = IF at + 1 < RotatedHeight(task) THEN "rotate" ELSE "done"
  /\ UNCHANGED <<task, picture, dst_buf, sum_row, rows, prev_sy>>

-----------------------------------------------------------------------------
\* Numbers for the source, by seed: all alike, one bright pixel, many.
PictureOf(t) ==
  ImageOf(t.w, t.h, LAMBDA y, x, c :
    CASE t.seed = "flat" -> 255 - c
      [] t.seed = "spot" -> IF x = t.w \div 2 /\ y = t.h \div 2 THEN 255 ELSE 3 * c
      [] t.seed = "mixed" -> (x * x * 37 + y * 91 + x * y * 53 + c * 101) % 256)

FirstPhase(op) == CASE op = "box" -> "row_border" [] op = "resize" -> "resize"
                    [] op = "rotate" -> "rotate"
WidthOfDst(t) == CASE t.op = "box" -> t.w [] t.op = "resize" -> t.dstw
                   [] t.op = "rotate" -> RotatedWidth(t)
HeightOfDst(t) == CASE t.op = "box" -> t.h [] t.op = "resize" -> t.dsth
                    [] t.op = "rotate" -> RotatedHeight(t)
Blank(w, h) == ImageOf(w, h, LAMBDA y, x, c : Undetermined)

ImageInit ==
  /\ task \in Images
  /\ picture = PictureOf(task)
  /\ image = Blank(WidthOfDst(task), HeightOfDst(task))
  /\ phase = FirstPhase(task.op)
  /\ at = 0
  /\ dst_buf = IF task.op = "box" THEN Blank(task.w, task.h) ELSE <<>>
  /\ sum_row = <<>>
  /\ rows = <<>>
  /\ prev_sy = <<-1, -1>>

ImageNext ==
  \/ ne10_img_boxfilter_rgba8888_c \/ ne10_img_boxfilter_rgba8888_neon
  \/ ne10_img_resize_generic_linear_c \/ ne10_img_resize_generic_linear_neon
  \/ ne10_img_rotate_get_quad_rangle_subpix_rgba_c

-----------------------------------------------------------------------------
(* Properties *)

\* The mean of the window of a line around place x, with 0 outside the line.
MeanOf(line, kernel, x) ==
  LET first == x - kernel \div 2
      padded == [i \in first .. first + kernel - 1 |-> IF i \in DOMAIN line THEN line[i] ELSE 0]
  IN SumOf(padded, first, first + kernel - 1) \div kernel

BoxLaw ==
  \A c \in Channels :
    LET means == [y \in Ys |-> LET line == RowOf(picture, y, c)
                               IN [x \in Xs |-> MeanOf(line, task.kx, x)]]
    IN \A x \in Xs :
         LET line == [y \in Ys |-> means[y][x]]
         IN \A y \in Ys :
              LET mean == MeanOf(line, task.ky, y)
              IN image[y][x][c] \in (IF task.impl = "c" THEN {mean} ELSE mean - 2 .. mean)

\* The value between four pixels, times px and py: the position is qx / px
\* and qy / py.
Between(c, qx, px, qy, py) ==
  LET x == qx \div px
      y == qy \div py
      At(dx, dy) == picture[Min({y + dy, task.h - 1})][Min({x + dx, task.w - 1})][c]
      ax == qx % px
      by == qy % py
  IN (At(0, 0) * (px - ax) + At(1, 0) * ax) * (py - by)
       + (At(0, 1) * (px - ax) + At(1, 1) * ax) * by

KeptIn(v, n, parts) == Max({0, Min({v, (n - 1) * parts})})
ResizeLaw ==
  \A dx \in 0 .. task.dstw - 1, dy \in 0 .. task.dsth - 1, c \in Channels :
    LET px == 2 * task.dstw
        py == 2 * task.dsth
        exact == Between(c, KeptIn((2 * dx + 1) * task.w - task.dstw, task.w, px), px,
                         KeptIn((2 * dy + 1) * task.h - task.dsth, task.h, py), py)
    IN Absolute(image[dy][dx][c] * px * py - exact) <= px * py

RotateLaw ==
  \A y \in DOMAIN image : \A x \in DOMAIN image[y] :
    LET qx == xs_at(x, y)
        qy == ys_at(x, y)
    IN qx \in 0 .. (task.w - 1) * Parts - 1 /\ qy \in 0 .. (task.h - 1) * Parts - 1 =>
         \A c \in Channels \ {1} :
           Absolute(image[y][x][c] * Parts * Parts - Between(c, qx, Parts, qy, Parts))
             <= Parts * Parts

(* A call leaves in every pixel of dst what it is for, computed from the   *)
(* source alone: the box filter the mean of means of the kernel, the       *)
(* vectors at most two below it; resizing the blend of the four pixels     *)
(* around, to one grey level, whatever rows the cache had; rotation the    *)
(* same for every pixel that lies in the source.                           *)
ImagesAreFaithful ==
  phase = "done" =>
    CASE task.op = "box" -> BoxLaw
      [] task.op = "resize" -> ResizeLaw
      [] task.op = "rotate" -> RotateLaw
=============================================================================
