----------------------------- MODULE HarrisStrips -----------------------------
(***************************************************************************)
(* The Harris corner detector on an image of h rows and w columns.         *)
(*                                                                         *)
(* The naive program (harris/harris.cpp) computes one whole matrix after   *)
(* the other.  In the programs made from it, threads compute strips of     *)
(* TILE rows of the output in parallel, and each strip keeps only the last *)
(* rows of the intermediate matrices, in circular buffers: "exp" is the    *)
(* output of OptiTrust, "cbuf3" and "regrot" are variants written by hand. *)
(*                                                                         *)
(* Images are integers: a pixel stands for its grey level (the weights of  *)
(* the three planes are left out), and the factors 1/12 and 1/25 are taken *)
(* out of the sums.  A step is an iteration of the loop on the rows of a   *)
(* strip; rounding is not modelled.                                        *)
(***************************************************************************)
EXTENDS Integers, FiniteSets, FiniteSetsExt

CONSTANTS
  TILE,        \* rows of output of a strip: 32 in the programs
  Images,      \* inputs: records with h, w and the pixels
  Variants     \* which of "exp", "cbuf3" and "regrot" may run

VARIABLES
  image,       \* the input
  variant,     \* the program that runs
  strips,      \* for each strip, by its first row: y_out, and its buffers
  out,         \* the output: NotWritten, or a row
  rewritten    \* the rows of the output that are written more than once

harrisVars == <<image, variant, strips, out, rewritten>>

h == image.h
hw == image.w
Garbage == 977     \* content of a block that malloc returns
NotWritten == <<>>

-----------------------------------------------------------------------------
\* The naive program, whose matrices are functions of the row and the column.
conv2D(in, height, width, weights) ==
  [y \in 0 .. height - 3, x \in 0 .. width - 3 |->
     MapThenSumSet(LAMBDA t : in[y + t[1], x + t[2]] * weights[t[1] + 1][t[2] + 1], (0 .. 2) \X (0 .. 2))]

weights_sobelX == <<<<-1, 0, 1>>, <<-2, 0, 2>>, <<-1, 0, 1>>>>
weights_sobelY == <<<<-1, -2, -1>>, <<0, 0, 0>>, <<1, 2, 1>>>>
weights_sum3x3 == <<<<1, 1, 1>>, <<1, 1, 1>>, <<1, 1, 1>>>>

mul(a, b) == [p \in DOMAIN a |-> a[p] * b[p]]
coarsity(sxx, sxy, syy) == 25 * (sxx * syy - sxy * sxy) - (sxx + syy) * (sxx + syy)

harris(im) ==
  LET ix == conv2D(im.pixels, im.h, im.w, weights_sobelX)
      iy == conv2D(im.pixels, im.h, im.w, weights_sobelY)
      sum3x3(a) == conv2D(a, im.h - 2, im.w - 2, weights_sum3x3)
      sxx == sum3x3(mul(ix, ix))
      sxy == sum3x3(mul(ix, iy))
      syy == sum3x3(mul(iy, iy))
  IN  [y \in 0 .. im.h - 5 |-> [x \in 0 .. im.w - 5 |-> coarsity(sxx[y, x], sxy[y, x], syy[y, x])]]

-----------------------------------------------------------------------------
\* The strips of the parallel loop, by first row.
StripStarts == {y \in 0 .. h - 5 : y % TILE = 0}

\* The number of iterations of the loop of a strip, which overlaps the next one
\* by four rows, and is shorter when the image ends.
Iterations(s) == (IF h < TILE + 4 + s THEN h ELSE TILE + 4 + s) - s

FreshRow(rows) == [r \in 0 .. rows - 1 |-> [x \in 0 .. hw - 1 |-> Garbage]]
FreshStrip(rows) == [y_out |-> 0, gray |-> FreshRow(rows), ix |-> FreshRow(rows), iy |-> FreshRow(rows)]
BufferRows(v) == IF v = "cbuf3" THEN 3 ELSE 4

HarrisInit ==
  /\ image \in Images /\ variant \in Variants
  /\ strips = [s \in StripStarts |-> FreshStrip(BufferRows(variant))]
  /\ out = [y \in 0 .. h - 5 |-> NotWritten]
  /\ rewritten = {}

\* Rows of the gradients, from three rows of grey levels, and of the output,
\* from three rows of both gradients.
SobelX(g) == [x \in 0 .. hw - 3 |-> g[0][x + 2] - g[0][x] + 2 * (g[1][x + 2] - g[1][x]) + g[2][x + 2] - g[2][x]]
SobelY(g) == [x \in 0 .. hw - 3 |-> g[2][x] + 2 * g[2][x + 1] + g[2][x + 2] - g[0][x] - 2 * g[0][x + 1] - g[0][x + 2]]
Coarsity(gx, gy) ==
  LET Sum(a, b, x) == MapThenSumSet(LAMBDA t : a[t[1]][x + t[2]] * b[t[1]][x + t[2]], (0 .. 2) \X (0 .. 2))
  IN  [x \in 0 .. hw - 5 |-> coarsity(Sum(gx, gx, x), Sum(gx, gy, x), Sum(gy, gy, x))]

\* The same rows with rotating registers: what two columns contribute is kept
\* from one iteration of the loop on x to the next.
Rotate(column, last) ==
  LET regs[x \in 0 .. last] == IF x = 0 THEN <<column[0], column[1], column[2]>>
                               ELSE <<regs[x - 1][2], regs[x - 1][3], column[x + 2]>>
  IN  regs

RotatingSobelX(g) ==
  LET v == Rotate([x \in 0 .. hw - 1 |-> g[0][x] + 2 * g[1][x] + g[2][x]], hw - 3)
  IN  [x \in 0 .. hw - 3 |-> v[x][3] - v[x][1]]
RotatingSobelY(g) ==
  LET v == Rotate([x \in 0 .. hw - 1 |-> g[2][x] - g[0][x]], hw - 3)
  IN  [x \in 0 .. hw - 3 |-> v[x][1] + 2 * v[x][2] + v[x][3]]
RotatingCoarsity(gx, gy) ==
  LET Columns(a, b) ==
        Rotate([x \in 0 .. hw - 3 |-> a[0][x] * b[0][x] + a[1][x] * b[1][x] + a[2][x] * b[2][x]], hw - 5)
      Sum(v) == v[1] + v[2] + v[3]
      xx == Columns(gx, gx)
      xy == Columns(gx, gy)
      yy == Columns(gy, gy)
  IN  [x \in 0 .. hw - 5 |-> coarsity(Sum(xx[x]), Sum(xy[x]), Sum(yy[x]))]

\* The three last rows, y - 2 to y, of a circular buffer.
Window(buffer, y, rows) == [i \in 0 .. 2 |-> buffer[(y - 2 + i) % rows]]

WriteRow(y, row) ==
  /\ out' = [out EXCEPT ![y] = row]
  /\ rewritten' = IF out[y] = NotWritten THEN rewritten ELSE rewritten \cup {y}

\* An iteration: the row y of grey levels, then the rows of the gradients and
\* of the output for which enough rows are known.
Iteration(s, rows) ==
  LET y == strips[s].y_out
      gray == [strips[s].gray EXCEPT ![y % rows] = [x \in 0 .. hw - 1 |-> image.pixels[y + s, x]]]
      g == Window(gray, y, rows)
      rotates == variant = "regrot"
      ix == IF y < 2 THEN strips[s].ix
            ELSE [strips[s].ix EXCEPT ![(y - 2) % rows] = IF rotates THEN RotatingSobelX(g) ELSE SobelX(g)]
      iy == IF y < 2 THEN strips[s].iy
            ELSE [strips[s].iy EXCEPT ![(y - 2) % rows] = IF rotates THEN RotatingSobelY(g) ELSE SobelY(g)]
      gx == Window(ix, y - 2, rows)
      gy == Window(iy, y - 2, rows)
  IN  /\ y < Iterations(s)
      /\ strips' = [strips EXCEPT ![s] = [y_out |-> y + 1, gray |-> gray, ix |-> ix, iy |-> iy]]
      /\ IF y < 4 THEN UNCHANGED <<out, rewritten>>
         ELSE WriteRow(y - 4 + s, IF rotates THEN RotatingCoarsity(gx, gy) ELSE Coarsity(gx, gy))
      /\ UNCHANGED <<image, variant>>

HarrisExp(s) == variant = "exp" /\ Iteration(s, 4)

\* Faulty: the buffers are folded to two rows.
Cbuf3TwoRows(s) == variant = "cbuf3" /\ Iteration(s, 2)

HarrisCbuf3(s) == variant = "cbuf3" /\ Iteration(s, 3)
HarrisRegrot(s) == variant = "regrot" /\ Iteration(s, 4)

HarrisNext == \E s \in DOMAIN strips : HarrisExp(s) \/ HarrisCbuf3(s) \/ HarrisRegrot(s)
HarrisDone == \A s \in DOMAIN strips : strips[s].y_out >= Iterations(s)
HarrisSpec == HarrisInit /\ [][HarrisNext]_harrisVars

-----------------------------------------------------------------------------
\* Whatever the interleaving of the strips, which overlap on the rows they read,
\* and although each keeps only three or four rows of each intermediate matrix:
\* every row of the output is written, by one strip only, and is that of the naive
\* program.
Expected == [im \in Images |-> harris(im)]
HarrisRight ==
  /\ rewritten = {}
  /\ HarrisDone => \A y \in DOMAIN out : out[y] # NotWritten
  /\ \A y \in DOMAIN out : out[y] # NotWritten => out[y] = Expected[image][y]

=============================================================================
