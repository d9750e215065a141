------------------------- MODULE SpaceFillingCurves -------------------------
(***************************************************************************)
(* The orders in which the cells of a grid can be numbered                 *)
(* (case_studies/pic, space_filling_curves.h): dilated integers, Hilbert   *)
(* curves and, for each order, the macros from coordinates to a number and *)
(* back.  An unsigned int is the set of its bits that are 1.               *)
(***************************************************************************)
EXTENDS Integers, FiniteSetsExt

Bits == 0 .. 31
Word(n) == {i \in 0 .. 30 : (n \div 2^i) % 2 = 1}
Number(w) == MapThenSumSet(LAMBDA i : 2^i, w)

Shl(w, k) == {i + k : i \in w} \cap Bits
Shr(w, k) == {i - k : i \in w} \cap Bits
Xor(v, w) == (v \cup w) \ (v \cap w)
\* A carry comes from two bits that are 1, through places where one of the two is.
Plus(v, w) ==
  LET carries == {i \in Bits : \E j \in v \cap w : j < i /\ (j + 1) .. (i - 1) \subseteq v \cup w}
  IN  Xor(Xor(v, w), carries)
Minus(v, w) == Plus(Plus(v, Bits \ w), {0})
Times(w, factor) == FoldSet(LAMBDA k, sum : Plus(Shl(w, k), sum), {}, factor)

-----------------------------------------------------------------------------
\* Dilated integers: by tables of a byte, which only move bits, and without tables.
evenBits == {i \in Bits : i % 2 = 0}
oddBits == Shl(evenBits, 1)
zeroBits == {i \in 0 .. 30 : i % 3 = 0}
oneBits == Shl(zeroBits, 1)
twoBits == {i \in Bits : i % 3 = 2}
Byte(w, k) == Shr(w, 8 * k) \cap (0 .. 7)
Half(w) == w \cap (0 .. 15)

dilate_tab2(byte) == {2 * i : i \in byte}
undilate_tab2(byte) == {IF i % 2 = 0 THEN i \div 2 ELSE 4 + (i \div 2) : i \in byte}
dilate_tab3(byte) == {(3 * i) % 8 : i \in byte}
dilate_2(x) == dilate_tab2(Byte(x, 0)) \cup Shl(dilate_tab2(Byte(x, 1)), 16)
undilate_2(x) ==
  LET pairs == Shr(x, 7) \cup x
  IN  undilate_tab2(Byte(pairs, 0)) \cup Shl(undilate_tab2(Byte(pairs, 2)), 8)
dilate_3(x) ==
  Times(Shl(dilate_tab3(Byte(x, 1)), 24) \cup dilate_tab3(Byte(x, 0)), {0, 8, 16}) \cap zeroBits
undilate_3(x) ==
  LET folded == Shr(Shr(x, 8) \cup x, 8) \cup x
  IN  Half(dilate_tab3(Byte(folded, 0)) \cup Shl(dilate_tab3(Byte(folded, 3)), 8))

\* Every k bits of 2 * k, or of 3 * k, are kept at each stage.
dilate_2_notable(t) ==
  LET Stage(r, k) == (r \cup Shl(r, k)) \cap {i \in Bits : i % (2 * k) < k}
  IN  Stage(Stage(Stage(Stage(t, 8), 4), 2), 1)
undilate_2_notable(t) ==
  LET Stage(r, k) == Times(r, {0, k \div 2}) \cap {i \in Bits : i % (2 * k) \in k - 1 .. 2 * k - 2}
  IN  Half(Shr(Stage(Stage(Stage(Stage(t, 2), 4), 8), 16), 15))
dilate_3_notable(t) ==
  LET Stage(r, k) == Times(r, {0, 2 * k}) \cap {i \in Bits : i % (3 * k) < k}
  IN  Stage(Stage(Stage(Stage(t, 8), 4), 2), 1)
undilate_3_notable(t) ==
  LET threes == Times(t, {0, 2, 4}) \cap ({0} \cup 7 .. 9 \cup 16 .. 18 \cup 25 .. 27)
      nines == Times(threes, {0, 6, 12}) \cap ({0} \cup 19 .. 27)
  IN  Half(Shr(Times(nines, {0, 18}) \cap (18 .. 27), 18))

evenIncrement(e) == Minus(e, evenBits) \cap evenBits
oddIncrement(o) == Minus(o, oddBits) \cap oddBits

-----------------------------------------------------------------------------
\* Skilling's algorithm: bit p of a coordinate tells whether the bits of x below p are
\* inverted or exchanged with those of that coordinate.
Excess(at, d, p) ==
  LET low == 0 .. p - 1
      tmp == Xor(at.x, at[d]) \cap low
  IN  IF p \in at[d] THEN [at EXCEPT !.x = Xor(@, low)]
      ELSE [at EXCEPT !.x = Xor(@, tmp), ![d] = Xor(at[d], tmp)]
GrayDecoded(h) == Xor(h, Shr(h, 1))

decodeHilbert2d(h, r) ==
  LET tmp == GrayDecoded(h)
      undone[p \in 0 .. r - 1] ==
        IF p = 0 THEN [x |-> undilate_2(Shr(tmp \cap oddBits, 1)), y |-> undilate_2(tmp \cap evenBits)]
        ELSE Excess(Excess(undone[p - 1], "y", p), "x", p)
  IN  undone[r - 1]
encodeHilbert2d(r, x, y) ==
  LET redone[p \in 1 .. r] ==
        IF p = r THEN [x |-> x, y |-> y] ELSE Excess(Excess(redone[p + 1], "x", p), "y", p)
      h_even == Xor(redone[1].y, redone[1].x)
      gray[k \in 0 .. 5] ==   \* for the shifts 1, 2, 4... that are less than r
        IF k = 0 THEN h_even
        ELSE IF 2^(k - 1) < r THEN Xor(gray[k - 1], Shr(gray[k - 1], 2^(k - 1))) ELSE gray[k - 1]
      h_odd == Xor(redone[1].x, Xor(h_even, gray[5]))
  IN  Plus(dilate_2(gray[5]), Shl(dilate_2(h_odd), 1))

decodeHilbert3d(h, r) ==
  LET tmp == GrayDecoded(h)
      undone[p \in 0 .. r - 1] ==
        IF p = 0 THEN [x |-> undilate_3(Shr(tmp \cap twoBits, 2)), y |-> undilate_3(Shr(tmp \cap oneBits, 1)),
                       z |-> undilate_3(tmp \cap zeroBits)]
        ELSE Excess(Excess(Excess(undone[p - 1], "z", p), "y", p), "x", p)
  IN  undone[r - 1]
encodeHilbert3d(r, x, y, z) ==
  LET redone[p \in 1 .. r] ==
        IF p = r THEN [x |-> x, y |-> y, z |-> z]
        ELSE Excess(Excess(Excess(redone[p + 1], "x", p), "y", p), "z", p)
      h_1 == Xor(redone[1].y, redone[1].x)
      h_2 == Xor(redone[1].z, h_1)
      tmp == {i \in 0 .. r - 2 : Cardinality({p \in i + 1 .. r - 1 : p \in h_2}) % 2 = 1}
  IN  Plus(Plus(dilate_3(Xor(h_2, tmp)), Shl(dilate_3(Xor(h_1, tmp)), 1)), Shl(dilate_3(Xor(redone[1].x, tmp)), 2))

curveOrder(num_cells) == CHOOSE r \in 0 .. 30 : num_cells <= 2^r /\ \A s \in 0 .. r - 1 : num_cells > 2^s

-----------------------------------------------------------------------------
\* The macros.  A grid g has sizes ncx, ncy (and ncz), an order and a TILE_SIZE.
Greatest(S) == CHOOSE n \in S : \A k \in S : k <= n
ceiling(n, k) == (n + k - 1) \div k
TileCell2d(g) == g.ncx * g.TILE_SIZE
Tower(g) == g.ncz * g.TILE_SIZE * g.TILE_SIZE
Wall(g) == Tower(g) * ceiling(g.ncx, g.TILE_SIZE)
Order(g) == curveOrder(Greatest({g.ncx, g.ncy, g.ncz}))

COMPUTE_I_CELL_2D(g, x, y) ==
  CASE g.curve = "ROW_MAJOR" -> x * g.ncy + y
    [] g.curve = "TILE" -> g.TILE_SIZE * x + (y % g.TILE_SIZE) + TileCell2d(g) * (y \div g.TILE_SIZE)
    [] g.curve = "MORTON" -> Number(Plus(dilate_2_notable(Word(x)), Shl(dilate_2_notable(Word(y)), 1)))
    [] g.curve = "MORTON_PRECALC" -> Number(Plus(dilate_2(Word(x)), Shl(dilate_2(Word(y)), 1)))
    [] g.curve = "HILBERT" -> Number(encodeHilbert2d(curveOrder(Greatest({g.ncx, g.ncy})), Word(x), Word(y)))
COMPUTE_I_CELL_3D(g, x, y, z) ==
  LET T == g.TILE_SIZE
      Mixed(Dilate(_)) == Number(Plus(Plus(Dilate(Word(x)), Shl(Dilate(Word(y)), 1)), Shl(Dilate(Word(z)), 2)))
  IN  CASE g.curve = "ROW_MAJOR" -> (x * g.ncy + y) * g.ncz + z
        [] g.curve = "TILE" -> (x \div T) * Tower(g) + (y \div T) * Wall(g) + z * T * T + (y % T) * T + (x % T)
        [] g.curve = "MORTON" -> Mixed(dilate_3_notable)
        [] g.curve = "MORTON_PRECALC" -> Mixed(dilate_3)
        [] g.curve = "HILBERT" -> Number(encodeHilbert3d(Order(g), Word(x), Word(y), Word(z)))

\* One coordinate at a time, for the orders where that is a matter of a few operations;
\* a mask n - 1 is a remainder by n, a power of two.
ICX_FROM_I_CELL_2D(g, i) ==
  CASE g.curve = "ROW_MAJOR" -> i \div g.ncy
    [] g.curve = "TILE" -> (i % TileCell2d(g)) \div g.TILE_SIZE
    [] g.curve = "MORTON" -> Number(undilate_2_notable(Word(i) \cap evenBits))
ICY_FROM_I_CELL_2D(g, i) ==
  CASE g.curve = "ROW_MAJOR" -> i % g.ncy
    [] g.curve = "TILE" -> (i % g.TILE_SIZE) + g.TILE_SIZE * (i \div TileCell2d(g))
    [] g.curve = "MORTON" -> Number(undilate_2_notable(Shr(Word(i) \cap oddBits, 1)))
ICX_FROM_I_CELL_3D(g, i) ==
  CASE g.curve = "ROW_MAJOR" -> (i \div g.ncz) \div g.ncy
    [] g.curve = "TILE" -> ((i % Wall(g)) \div Tower(g)) * g.TILE_SIZE + (i % g.TILE_SIZE)
    [] g.curve = "MORTON" -> Number(undilate_3_notable(Word(i) \cap zeroBits))
ICY_FROM_I_CELL_3D(g, i) ==
  CASE g.curve = "ROW_MAJOR" -> (i \div g.ncz) % g.ncy
    [] g.curve = "TILE" -> (i \div Wall(g)) * g.TILE_SIZE + (i % (g.TILE_SIZE * g.TILE_SIZE)) \div g.TILE_SIZE
    [] g.curve = "MORTON" -> Number(undilate_3_notable(Shr(Word(i) \cap oneBits, 1)))
ICZ_FROM_I_CELL_3D(g, i) ==
  CASE g.curve = "ROW_MAJOR" -> i % g.ncz
    [] g.curve = "TILE" -> (i % Tower(g)) \div (g.TILE_SIZE * g.TILE_SIZE)
    [] g.curve = "MORTON" -> Number(undilate_3_notable(Shr(Word(i) \cap twoBits, 2)))

Numbers(at) == [d \in DOMAIN at |-> Number(at[d])]
REVERSE_I_CELL_2D(g, i) ==
  CASE g.curve \in {"ROW_MAJOR", "TILE", "MORTON"} -> [x |-> ICX_FROM_I_CELL_2D(g, i), y |-> ICY_FROM_I_CELL_2D(g, i)]
    [] g.curve = "MORTON_PRECALC" ->
         Numbers([x |-> undilate_2(Word(i) \cap evenBits), y |-> undilate_2(Shr(Word(i) \cap oddBits, 1))])
    [] g.curve = "HILBERT" -> Numbers(decodeHilbert2d(Word(i), curveOrder(Greatest({g.ncx, g.ncy}))))
REVERSE_I_CELL_3D(g, i) ==
  CASE g.curve \in {"ROW_MAJOR", "TILE", "MORTON"} ->
         [x |-> ICX_FROM_I_CELL_3D(g, i), y |-> ICY_FROM_I_CELL_3D(g, i), z |-> ICZ_FROM_I_CELL_3D(g, i)]
    [] g.curve = "MORTON_PRECALC" ->
         Numbers([x |-> undilate_3(Word(i) \cap zeroBits), y |-> undilate_3(Shr(Word(i) \cap oneBits, 1)),
                  z |-> undilate_3(Shr(Word(i) \cap twoBits, 2))])
    [] g.curve = "HILBERT" -> Numbers(decodeHilbert3d(Word(i), Order(g)))

-----------------------------------------------------------------------------
\* Every cell of the grid with its number, and what is found back from that number.
Grid(g) == IF g.ncz = 0 THEN [x : 0 .. g.ncx - 1, y : 0 .. g.ncy - 1]
           ELSE [x : 0 .. g.ncx - 1, y : 0 .. g.ncy - 1, z : 0 .. g.ncz - 1]
Numbering(g) ==
  [at \in Grid(g) |->
     LET i == IF g.ncz = 0 THEN COMPUTE_I_CELL_2D(g, at.x, at.y) ELSE COMPUTE_I_CELL_3D(g, at.x, at.y, at.z)
     IN  [i |-> i, back |-> IF g.ncz = 0 THEN REVERSE_I_CELL_2D(g, i) ELSE REVERSE_I_CELL_3D(g, i)]]

\* What dilated integers are for the numbers of a given size.
Conversions(x) ==
  LET w == Word(x)
  IN  [two |-> {dilate_2(w), dilate_2_notable(w)},
       back2 |-> {undilate_2(dilate_2(w)), undilate_2_notable(dilate_2(w))},
       three |-> {dilate_3(w), dilate_3_notable(w)},
       back3 |-> {undilate_3(dilate_3(w)), undilate_3_notable(dilate_3(w))},
       next |-> {evenIncrement(dilate_2(w)), Shr(oddIncrement(Shl(dilate_2(w), 1)), 1)}]

=============================================================================
