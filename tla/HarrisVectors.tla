----------------------------- MODULE HarrisVectors -----------------------------
(***************************************************************************)
(* harris_regrot_vec.cpp: the Harris corner detector on vectors of 8       *)
(* floats.  Columns next to each other are lanes of a vector, so that      *)
(* neighbours come from shuffles of a vector with the next one.            *)
(*                                                                         *)
(* As in HarrisStrips, an image is of grey levels, and factors are taken   *)
(* out of the sums.  The images have w columns, a multiple of 8.           *)
(***************************************************************************)
EXTENDS Integers, FiniteSetsExt

Lanes == 0 .. 7
Garbage == 977
Block(row, x) == [l \in Lanes |-> row[8 * x + l]]
\* __builtin_shufflevector(v0, v1, s, s + 1, ..., s + 7)
Shuffled(v0, v1, s) == [l \in Lanes |-> IF s + l < 8 THEN v0[s + l] ELSE v1[s + l - 8]]
min(a, b) == IF a < b THEN a ELSE b
Coarsity(sxx, sxy, syy) == 25 * (sxx * syy - sxy * sxy) - (sxx + syy) * (sxx + syy)

\* A gradient row: Combined(v0, v1, v2, l) of three vectors at each column.
GradientRow(w, vertical, Combined(_, _, _)) ==
  [c \in 0 .. w - 1 |->
     LET v0 == Block(vertical, c \div 8)
         v1 == Block(vertical, (c \div 8) + 1)
     IN  Combined(v0[c % 8], Shuffled(v0, v1, 1)[c % 8], Shuffled(v0, v1, 2)[c % 8])]
StoreGrayRow(im, y, y_out, s) ==
  [s EXCEPT !.gray[y_out % 4] = [c \in DOMAIN @ |-> IF c < im.w THEN im.pixels[y_out + y, c] ELSE @[c]]]
StoreGradients(im, y_out, s) ==
  LET g(d) == s.gray[(y_out - d) % 4]
      vertical_x == [c \in 0 .. im.w + 7 |-> g(2)[c] + 2 * g(1)[c] + g(0)[c]]
      vertical_y == [c \in 0 .. im.w + 7 |-> g(0)[c] - g(2)[c]]
  IN  IF y_out < 2 THEN s
      ELSE [s EXCEPT !.ix[(y_out - 2) % 4] = GradientRow(im.w, vertical_x, LAMBDA v0, v1, v2 : v2 - v0),
                     !.iy[(y_out - 2) % 4] = GradientRow(im.w, vertical_y, LAMBDA v0, v1, v2 : v0 + 2 * v1 + v2)]

\* Sums in columns of three rows, as vectors; then the three shuffles.
Products(s, y_out, a, b) ==
  [c \in DOMAIN s.ix[0] |-> MapThenSumSet(LAMBDA d : a[(y_out - d) % 4][c] * b[(y_out - d) % 4][c], {2, 3, 4})]
Across(v0, v1, l) == v0[l] + Shuffled(v0, v1, 1)[l] + Shuffled(v0, v1, 2)[l]
MainColumn(sxx, sxy, syy, c) ==
  LET Total(p) == Across(Block(p, c \div 8), Block(p, (c \div 8) + 1), c % 8)
  IN  Coarsity(Total(sxx), Total(sxy), Total(syy))
\* The last four columns come from a single vector.  Its third shuffle for sxy takes
\* syy instead ("FIXME: epilogue is bugged").
EpilogueColumn(sxx, sxy, syy, w, l) ==
  LET Last(p, s) == Block(p, (w \div 8) - 1)[l + s]
  IN  Coarsity(Last(sxx, 0) + Last(sxx, 1) + Last(sxx, 2), Last(sxy, 0) + Last(sxy, 1) + Last(syy, 2),
               Last(syy, 0) + Last(syy, 1) + Last(syy, 2))
StoreOutRow(im, y, y_out, s) ==
  LET sxx == Products(s, y_out, s.ix, s.ix)
      sxy == Products(s, y_out, s.ix, s.iy)
      syy == Products(s, y_out, s.iy, s.iy)
  IN  IF y_out < 4 THEN s
      ELSE [s EXCEPT !.out[y_out - 4 + y] =
              [c \in 0 .. im.w - 5 |-> IF c < im.w - 8 THEN MainColumn(sxx, sxy, syy, c)
                                       ELSE EpilogueColumn(sxx, sxy, syy, im.w, c - (im.w - 8))]]

\* Strips of TILE rows are computed one by one; each of them allocates its buffers.
Strip(im, TILE, out, y) ==
  LET fresh(w) == [r \in 0 .. 3 |-> [c \in 0 .. w - 1 |-> Garbage]]
      after[k \in 0 .. min(im.h, TILE + 4 + y) - y] ==
        IF k = 0 THEN [gray |-> fresh(im.w + 8), ix |-> fresh(im.w), iy |-> fresh(im.w), out |-> out]
        ELSE StoreOutRow(im, y, k - 1, StoreGradients(im, k - 1, StoreGrayRow(im, y, k - 1, after[k - 1])))
  IN  after[min(im.h, TILE + 4 + y) - y].out
regrot_vec(im, TILE) ==
  LET upto[s \in 0 .. (im.h - 4 + TILE - 1) \div TILE] ==
        IF s = 0 THEN [y \in 0 .. im.h - 5 |-> <<>>] ELSE Strip(im, TILE, upto[s - 1], (s - 1) * TILE)
  IN  upto[(im.h - 4 + TILE - 1) \div TILE]

\* The naive detector, one cell at a time (harris.cpp).
Naive(im, y, x) ==
  LET p(i, j) == im.pixels[i, j]
      ix(i, j) == p(i, j + 2) + 2 * p(i + 1, j + 2) + p(i + 2, j + 2) - p(i, j) - 2 * p(i + 1, j) - p(i + 2, j)
      iy(i, j) == p(i + 2, j) + 2 * p(i + 2, j + 1) + p(i + 2, j + 2) - p(i, j) - 2 * p(i, j + 1) - p(i, j + 2)
      sum3x3(F(_, _)) == MapThenSumSet(LAMBDA t : F(y + t[1], x + t[2]), (0 .. 2) \X (0 .. 2))
  IN  Coarsity(sum3x3(LAMBDA i, j : ix(i, j) * ix(i, j)), sum3x3(LAMBDA i, j : ix(i, j) * iy(i, j)),
               sum3x3(LAMBDA i, j : iy(i, j) * iy(i, j)))
MainColumnsRight(im, out) == \A y \in 0 .. im.h - 5, x \in 0 .. im.w - 9 : out[y][x] = Naive(im, y, x)

=============================================================================
