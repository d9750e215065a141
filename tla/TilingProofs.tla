---------------------------- MODULE TilingProofs ----------------------------
(***************************************************************************)
(* "We can have only 8 private bags (in 3d) per cell, as long as we ensure *)
(* that in each direction, 2 * border_size <= tile_size": the claim of the *)
(* comment of init_all_chunks, for every mesh, tile and border.            *)
(***************************************************************************)
EXTENDS PicTiling, FiniteSetTheorems, TLAPS

-----------------------------------------------------------------------------
(* Numbers.                                                                 *)

LEMMA Division ==
  ASSUME NEW x \in Nat, NEW d \in Nat, d > 0
  PROVE  /\ x = d * (x \div d) + (x % d) /\ x \div d \in Nat
         /\ x % d \in 0 .. d - 1
OBVIOUS

LEMMA Monotone ==
  ASSUME NEW d \in Nat, NEW x \in Int, NEW y \in Int, x + 1 <= y
  PROVE  d * x + d <= d * y
OBVIOUS

\* Only one multiple of d is at less than d below a number.
Divides(x, d, s, r) == x \in Nat /\ d \in Nat /\ s \in Int /\ r \in 0 .. d - 1 /\ x = d * s + r
LEMMA Quotient ==
  ASSUME NEW x, NEW d, NEW s, NEW r, Divides(x, d, s, r)
  PROVE  x \div d = s /\ x % d = r
<1>0. x \in Nat /\ d \in Nat /\ d > 0 /\ s \in Int /\ r \in 0 .. d - 1 /\ x = d * s + r
  BY DEF Divides
<1> DEFINE q == x \div d
<1>1. x = d * q + (x % d) /\ q \in Nat /\ x % d \in 0 .. d - 1
  BY <1>0, Division
<1> HIDE DEF q
<1>2. ~(q + 1 <= s)
  <2> SUFFICES ASSUME q + 1 <= s PROVE FALSE
    OBVIOUS
  <2>1. d * q + d <= d * s
    BY <1>0, <1>1, Monotone
  <2> QED BY <2>1, <1>0, <1>1
<1>3. ~(s + 1 <= q)
  <2> SUFFICES ASSUME s + 1 <= q PROVE FALSE
    OBVIOUS
  <2>1. d * s + d <= d * q
    BY <1>0, <1>1, Monotone
  <2> QED BY <2>1, <1>0, <1>1
<1>4. q = s
  BY <1>0, <1>1, <1>2, <1>3
<1> QED BY <1>0, <1>1, <1>4 DEF q

\* A multiple of T is one of 2 * T, or T more.
LEMMA HalfMultiple ==
  ASSUME NEW T \in Nat, T > 0, NEW x \in Nat, x % T = 0
  PROVE  x % (2 * T) \in {0, T}
<1>1. x = T * (x \div T) /\ x \div T \in Nat
  BY Division
<1> DEFINE k == x \div T
<1>2. k = 2 * (k \div 2) + (k % 2) /\ k \div 2 \in Nat /\ k % 2 \in {0, 1}
  BY <1>1
<1> HIDE DEF k
<1>3. x = T * k
  BY <1>1 DEF k
<1>4. x = (2 * T) * (k \div 2) + T * (k % 2)
  BY <1>2, <1>3
<1>5. T * (k % 2) \in {0, T}
  BY <1>2
<1>6. T * (k % 2) \in 0 .. 2 * T - 1
  BY <1>5
<1> DEFINE D == 2 * T  r == T * (k % 2)  m == k \div 2
<1>7. Divides(x, D, m, r)
  BY <1>2, <1>4, <1>6 DEF Divides
<1> HIDE DEF D, r, m
<1>8. x % D = r
  BY <1>7, Quotient
<1> QED BY <1>5, <1>8 DEF D, r

\* Among numbers less than n apart, remainders by n tell them apart.
LEMMA RemaindersDiffer ==
  ASSUME NEW n \in Nat, n > 0, NEW x \in Int, NEW y \in Int, x < y, y - x < n
  PROVE  x % n # y % n
<1>1. /\ x = n * (x \div n) + (x % n) /\ x \div n \in Int
      /\ y = n * (y \div n) + (y % n) /\ y \div n \in Int
      /\ x % n \in 0 .. n - 1 /\ y % n \in 0 .. n - 1
  OBVIOUS
<1> DEFINE q == x \div n  s == y \div n
<1> SUFFICES ASSUME x % n = y % n PROVE FALSE
  OBVIOUS
<1>2. x = n * q + (x % n) /\ y = n * s + (x % n) /\ q \in Int /\ s \in Int /\ x % n \in Int
  BY <1>1
<1> HIDE DEF q, s
<1>3. CASE q + 1 <= s
  <2>1. n * q + n <= n * s
    BY <1>2, <1>3, Monotone
  <2> QED BY <2>1, <1>2
<1>4. CASE s + 1 <= q
  <2>1. n * s + n <= n * q
    BY <1>2, <1>4, Monotone
  <2> QED BY <2>1, <1>2
<1>5. CASE q = s
  BY <1>2, <1>5
<1> QED BY <1>2, <1>3, <1>4, <1>5

-----------------------------------------------------------------------------
(* One axis.                                                                *)

LEMMA Arguments ==
  ASSUME tiling \in Tilings
  PROVE  /\ Axes = 1 .. 2 \/ Axes = 1 .. 3
         /\ \A a \in Axes : nc(a) \in Nat /\ nc(a) > 0
         /\ tile_size \in Nat /\ tile_size > 0
         /\ tiling.border_size \in Nat /\ 2 * tiling.border_size <= tile_size
         /\ tiling.nb_bags_per_cell \in {2, IF TwoAxes THEN 5 ELSE 9}
<1>1. /\ tiling.nc \in [1 .. 2 -> Nat \ {0}] \cup [1 .. 3 -> Nat \ {0}]
      /\ tiling.tile_size \in Nat \ {0}
      /\ tiling.border_size \in Nat /\ 2 * tiling.border_size <= tiling.tile_size
      /\ tiling.nb_bags_per_cell \in {2, IF DOMAIN tiling.nc = 1 .. 2 THEN 5 ELSE 9}
  BY TilingAssumption
<1> QED BY <1>1 DEF Axes, nc, tile_size, TwoAxes

\* The tile without an upper border, if the tiling is not perfect, is the last one
\* of even parity.
LEMMA LastEvenTile ==
  ASSUME tiling \in Tilings, NEW a \in Axes
  PROVE  \E m \in Nat : LET D == 2 * tile_size IN
           /\ start_tile_without_borders(a) = D * m
           /\ D * m <= nc(a) /\ nc(a) < D * m + D
           /\ is_perfect_tiling(a) => nc(a) = D * m
<1> DEFINE T == tile_size  n == nc(a)  K == nb_full_tiles(a)  R == nc(a) % tile_size
<1>1. T \in Nat /\ T > 0 /\ n \in Nat
  BY Arguments
<1>2. n = T * K + R /\ K \in Nat /\ R \in 0 .. T - 1
  BY <1>1, Division DEF nb_full_tiles
<1> DEFINE m == K \div 2
<1>3. m \in Nat /\ (K = 2 * m \/ K = 2 * m + 1) /\ (K % 2 = 0 <=> K = 2 * m)
  BY <1>2
<1>4. /\ start_tile_without_borders(a) = (IF K % 2 = 0 THEN K * T ELSE (K - 1) * T)
      /\ is_perfect_tiling(a) <=> R = 0 /\ K % 2 = 0
  BY DEF start_tile_without_borders, is_perfect_tiling, is_even
<1> HIDE DEF T, n, K, R, m
<1>5. CASE K = 2 * m
  <2>1. K * T = (2 * T) * m /\ T * K = (2 * T) * m
    BY <1>1, <1>3, <1>5
  <2>2. /\ start_tile_without_borders(a) = (2 * T) * m
        /\ (2 * T) * m <= n /\ n < (2 * T) * m + 2 * T
        /\ is_perfect_tiling(a) => n = (2 * T) * m
    BY <1>1, <1>2, <1>3, <1>4, <1>5, <2>1
  <2> QED BY <2>2, <1>3 DEF T, n
<1>6. CASE K = 2 * m + 1
  <2>1. (K - 1) * T = (2 * T) * m /\ T * K = (2 * T) * m + T
    BY <1>1, <1>3, <1>6
  <2>2. /\ start_tile_without_borders(a) = (2 * T) * m
        /\ (2 * T) * m <= n /\ n < (2 * T) * m + 2 * T
        /\ ~is_perfect_tiling(a)
    BY <1>1, <1>2, <1>3, <1>4, <1>6, <2>1
  <2> QED BY <2>2, <1>3 DEF T, n
<1> QED BY <1>3, <1>5, <1>6

\* Any other tile of even parity is followed by one of odd parity, which is whole.
LEMMA EvenTile ==
  ASSUME tiling \in Tilings, NEW a \in Axes, NEW lo \in Nat, lo < nc(a), lo % (2 * tile_size) = 0,
         is_perfect_tiling(a) \/ lo # start_tile_without_borders(a)
  PROVE  lo + 2 * tile_size <= nc(a)
<1> DEFINE D == 2 * tile_size  n == nc(a)
<1>1. PICK m \in Nat : /\ start_tile_without_borders(a) = D * m
                       /\ D * m <= n /\ n < D * m + D
                       /\ is_perfect_tiling(a) => n = D * m
  BY LastEvenTile
<1>2. D \in Nat /\ D > 0 /\ n \in Nat /\ lo < n /\ lo % D = 0
  BY Arguments
<1> HIDE DEF D, n
<1> DEFINE q == lo \div D
<1>3. lo = D * q /\ q \in Nat
  BY <1>2, Division
<1> HIDE DEF q
<1>4. ~(m + 1 <= q)
  <2> SUFFICES ASSUME m + 1 <= q PROVE FALSE
    OBVIOUS
  <2>1. D * m + D <= D * q
    BY <1>2, <1>3, Monotone
  <2> QED BY <2>1, <1>1, <1>2, <1>3
<1>5. q # m
  <2> SUFFICES ASSUME q = m PROVE FALSE
    OBVIOUS
  <2>1. lo = D * m
    BY <1>3
  <2> QED BY <2>1, <1>1, <1>2
<1>6. D * q + D <= D * m
  BY <1>2, <1>3, <1>4, <1>5, Monotone
<1>7. lo + D <= n
  BY <1>1, <1>2, <1>3, <1>6
<1> QED BY <1>7 DEF D, n

\* The loop over a tile and its borders passes at most once by a cell.
LEMMA SpanOnce ==
  ASSUME tiling \in Tilings, NEW a \in Axes, NEW lo \in Nat, lo < nc(a), lo % tile_size = 0,
         NEW x \in Span(a, lo), NEW y \in Span(a, lo), x < y
  PROVE  x % nc(a) # y % nc(a)
<1> DEFINE T == tile_size  n == nc(a)  B == tiling.border_size
           start == start_tile_without_borders(a)  perfect == is_perfect_tiling(a)
<1>1. T \in Nat /\ T > 0 /\ n \in Nat /\ n > 0 /\ B \in Nat /\ 2 * B <= T
  BY Arguments
<1>2. lo = 0 \/ lo >= T
  <2>1. lo = T * (lo \div T) /\ lo \div T \in Nat
    BY <1>1, Division
  <2>2. lo \div T >= 1 => T * (lo \div T) >= T
    BY <1>1, <2>1
  <2> QED BY <1>1, <2>1, <2>2
<1>3. lo = 0 /\ (perfect \/ start # 0) => 2 * T <= n
  <2> SUFFICES ASSUME lo = 0, perfect \/ start # 0 PROVE 2 * T <= n
    OBVIOUS
  <2>1. 0 % (2 * tile_size) = 0
    BY <1>1
  <2> QED BY <2>1, <1>1, EvenTile
<1>4. /\ x \in Int /\ y \in Int
      /\ x >= lo - (IF ~perfect /\ lo = 0 THEN 0 ELSE B)
      /\ y <= lo + T - 1 + (IF ~perfect /\ lo = start THEN 0 ELSE B)
      /\ y <= n - 1 + (IF ~perfect /\ lo = start THEN 0 ELSE B)
  <2>1. lower_border(a, lo) = (IF ~perfect /\ lo = 0 THEN 0 ELSE B)
    BY DEF lower_border
  <2>2. upper_border(a, lo) = (IF ~perfect /\ lo = start THEN 0 ELSE B)
    BY DEF upper_border
  <2>3. x \in lo - lower_border(a, lo) .. Smaller(lo + T - 1, n - 1) + upper_border(a, lo)
    BY DEF Span
  <2>4. y \in lo - lower_border(a, lo) .. Smaller(lo + T - 1, n - 1) + upper_border(a, lo)
    BY DEF Span
  <2> HIDE DEF T, n, B, start, perfect
  <2> QED BY <1>1, <2>1, <2>2, <2>3, <2>4 DEF Smaller
<1> HIDE DEF T, n, B, start, perfect
<1>5. y - x < n
  BY <1>1, <1>2, <1>3, <1>4
<1> QED BY <1>1, <1>4, <1>5, RemaindersDiffer DEF n

\* Two tiles of one parity are two tiles apart.
LEMMA SameParityApart ==
  ASSUME NEW T \in Nat, T > 0, NEW lo \in Nat, NEW hi \in Nat, lo % T = 0, hi % T = 0, lo < hi,
         lo % (2 * T) # 0 <=> hi % (2 * T) # 0
  PROVE  hi - lo >= 2 * T
<1> DEFINE D == 2 * T  r == lo % (2 * T)  q == lo \div (2 * T)  s == hi \div (2 * T)
<1>1. D \in Nat /\ D > 0
  OBVIOUS
<1>2. r \in {0, T} /\ hi % D = r
  BY HalfMultiple
<1>3. lo = D * q + r /\ q \in Nat
  BY <1>1, Division
<1>4. hi = D * s + r /\ s \in Nat
  <2>1. hi = D * (hi \div D) + (hi % D) /\ hi \div D \in Nat
    BY <1>1, Division
  <2> QED BY <2>1, <1>2
<1> HIDE DEF D, r, q, s
<1>5. ~(s <= q)
  <2>1. CASE s + 1 <= q
    <3>1. D * s + D <= D * q
      BY <1>1, <1>3, <1>4, <2>1, Monotone
    <3> QED BY <3>1, <1>1, <1>2, <1>3, <1>4
  <2>2. CASE s = q
    BY <2>2, <1>3, <1>4
  <2> QED BY <2>1, <2>2, <1>3, <1>4
<1>6. D * q + D <= D * s
  BY <1>1, <1>3, <1>4, <1>5, Monotone
<1>7. hi - lo >= D
  BY <1>1, <1>2, <1>3, <1>4, <1>6
<1> QED BY <1>7 DEF D

\* The loops over two tiles of one parity never pass by the same cell.
LEMMA SpansApart ==
  ASSUME tiling \in Tilings, NEW a \in Axes,
         NEW lo \in Nat, lo < nc(a), lo % tile_size = 0,
         NEW hi \in Nat, hi < nc(a), hi % tile_size = 0, lo < hi,
         lo % (2 * tile_size) # 0 <=> hi % (2 * tile_size) # 0,
         NEW x \in Span(a, lo), NEW y \in Span(a, hi)
  PROVE  x % nc(a) # y % nc(a)
<1> DEFINE T == tile_size  n == nc(a)  B == tiling.border_size
           start == start_tile_without_borders(a)  perfect == is_perfect_tiling(a)
<1>1. T \in Nat /\ T > 0 /\ n \in Nat /\ n > 0 /\ B \in Nat /\ 2 * B <= T
  BY Arguments
<1>2. hi - lo >= 2 * T
  BY <1>1, SameParityApart
<1>3. lo = 0 \/ lo >= T
  <2>1. lo = T * (lo \div T) /\ lo \div T \in Nat
    BY <1>1, Division
  <2>2. lo \div T >= 1 => T * (lo \div T) >= T
    BY <1>1, <2>1
  <2> QED BY <1>1, <2>1, <2>2
<1>4. lo = 0 /\ (perfect \/ start # hi) => hi + 2 * T <= n
  <2> SUFFICES ASSUME lo = 0, perfect \/ start # hi PROVE hi + 2 * T <= n
    OBVIOUS
  <2>1. 0 % (2 * tile_size) = 0
    BY <1>1
  <2>2. hi % (2 * tile_size) = 0
    BY <2>1
  <2> QED BY <2>2, <1>1, EvenTile
<1>5. /\ x \in Int /\ y \in Int
      /\ x >= lo - (IF ~perfect /\ lo = 0 THEN 0 ELSE B)
      /\ x <= lo + T - 1 + B
      /\ y >= hi - B
      /\ y <= hi + T - 1 + (IF ~perfect /\ hi = start THEN 0 ELSE B)
      /\ y <= n - 1 + (IF ~perfect /\ hi = start THEN 0 ELSE B)
  <2>1. /\ lower_border(a, lo) = (IF ~perfect /\ lo = 0 THEN 0 ELSE B)
        /\ lower_border(a, hi) = (IF ~perfect /\ hi = 0 THEN 0 ELSE B)
    BY DEF lower_border
  <2>2. /\ upper_border(a, lo) = (IF ~perfect /\ lo = start THEN 0 ELSE B)
        /\ upper_border(a, hi) = (IF ~perfect /\ hi = start THEN 0 ELSE B)
    BY DEF upper_border
  <2>3. x \in lo - lower_border(a, lo) .. Smaller(lo + T - 1, n - 1) + upper_border(a, lo)
    BY DEF Span
  <2>4. y \in hi - lower_border(a, hi) .. Smaller(hi + T - 1, n - 1) + upper_border(a, hi)
    BY DEF Span
  <2>5. start \in Int
    BY <1>1, LastEvenTile
  <2> HIDE DEF T, n, B, start, perfect
  <2> QED BY <1>1, <2>1, <2>2, <2>3, <2>4, <2>5 DEF Smaller
<1> HIDE DEF T, n, B, start, perfect
<1>6. x < y
  BY <1>1, <1>2, <1>5
<1>7. y - x < n
  BY <1>1, <1>2, <1>3, <1>4, <1>5
<1> QED BY <1>1, <1>5, <1>6, <1>7, RemaindersDiffer DEF n

-----------------------------------------------------------------------------
(* Tiles.                                                                   *)

TileCoordinate(lo, a) == lo \in Nat /\ lo < nc(a) /\ lo % tile_size = 0

LEMMA AtMostOnce ==
  ASSUME tiling \in Tilings, NEW a \in Axes, NEW tile, TileCoordinate(tile[a], a), NEW p
  PROVE  /\ TimesOnAxis(tile, p, a) \in {0, 1}
         /\ TimesOnAxis(tile, p, a) # 0 => \E x \in Span(a, tile[a]) : x % nc(a) = p[a]
<1> DEFINE C == {x \in Span(a, tile[a]) : x % nc(a) = p[a]}
<1>1. \A x, y \in C : ~(x < y)
  BY SpanOnce DEF TileCoordinate
<1>2. \A x \in C : x \in Int
  <2>1. Span(a, tile[a]) \subseteq Int
    BY DEF Span
  <2> QED BY <2>1
<1>3. CASE C = {}
  <2>1. Cardinality(C) = 0
    BY <1>3, FS_EmptySet
  <2> QED BY <2>1 DEF TimesOnAxis
<1>4. CASE C # {}
  <2>1. PICK x : x \in C
    BY <1>4
  <2>2. C = {x}
    <3>1. \A y \in C : y = x
      BY <1>1, <1>2, <2>1
    <3> QED BY <2>1, <3>1
  <2>3. Cardinality(C) = 1
    BY <2>2, FS_Singleton
  <2> QED BY <2>1, <2>3 DEF TimesOnAxis
<1> QED BY <1>3, <1>4

\* In a row of n blocks of d numbers, the block of a number is one of the n.
LEMMA BlockInRow ==
  ASSUME NEW n \in Nat, NEW d \in Nat, d > 0, NEW x \in Nat, x < n * d
  PROVE  x \div d \in Nat /\ x \div d < n
<1> DEFINE q == x \div d
<1>1. x = d * q + (x % d) /\ q \in Nat /\ x % d \in 0 .. d - 1
  BY Division
<1> HIDE DEF q
<1>2. ~(n <= q)
  <2> SUFFICES ASSUME n <= q PROVE FALSE
    OBVIOUS
  <2>1. d * n <= d * q
    BY <1>1
  <2> QED BY <2>1, <1>1
<1> QED BY <1>1, <1>2 DEF q

\* The coordinates of the cells, where the masks bring all positions.
LEMMA CellCoordinates ==
  ASSUME tiling \in Tilings, NEW j \in GridCells, NEW a \in Axes
  PROVE  CoordinatesOf(j)[a] \in Nat /\ CoordinatesOf(j)[a] < nc(a)
<1>1. CASE Axes = 1 .. 2
  <2>1. /\ nc(1) \in Nat /\ nc(1) > 0 /\ nc(2) \in Nat /\ nc(2) > 0
    BY <1>1, Arguments
  <2>2. CellIndex([b \in Axes |-> nc(b) - 1]) = (nc(1) - 1) * nc(2) + (nc(2) - 1)
    BY <1>1 DEF CellIndex, CellIndex2d, TwoAxes
  <2>3. j \in Nat /\ j < nc(1) * nc(2)
    BY <2>1, <2>2 DEF GridCells, LastCell
  <2>4. j \div nc(2) \in Nat /\ j \div nc(2) < nc(1) /\ j % nc(2) \in 0 .. nc(2) - 1
    BY <2>1, <2>3, BlockInRow
  <2>5. CoordinatesOf(j) = <<j \div nc(2), j % nc(2)>>
    BY <1>1 DEF CoordinatesOf, TwoAxes
  <2>6. a = 1 \/ a = 2
    BY <1>1
  <2> QED BY <2>1, <2>4, <2>5, <2>6
<1>2. CASE Axes = 1 .. 3
  <2>1. /\ nc(1) \in Nat /\ nc(1) > 0 /\ nc(2) \in Nat /\ nc(2) > 0 /\ nc(3) \in Nat /\ nc(3) > 0
    BY <1>2, Arguments
  <2>2. ~TwoAxes
    <3>1. 3 \in Axes
      BY <1>2
    <3> QED BY <3>1 DEF TwoAxes
  <2>3. CellIndex([b \in Axes |-> nc(b) - 1]) = ((nc(1) - 1) * nc(2) + (nc(2) - 1)) * nc(3) + (nc(3) - 1)
    BY <1>2, <2>2 DEF CellIndex, CellIndex2d
  <2> DEFINE m == nc(2) * nc(3)
  <2>4. m \in Nat /\ m > 0
    BY <2>1
  <2>5. ((nc(1) - 1) * nc(2) + (nc(2) - 1)) * nc(3) + (nc(3) - 1) = nc(1) * m - 1
    BY <2>1
  <2>6. nc(1) * m \in Nat /\ j \in Nat /\ j < nc(1) * m
    <3>1. nc(1) * m \in Int
      BY <2>1, <2>4
    <3> HIDE DEF m
    <3> QED BY <3>1, <2>3, <2>5 DEF GridCells, LastCell
  <2>7. j \div m \in Nat /\ j \div m < nc(1)
    <3> HIDE DEF m
    <3> QED BY <2>1, <2>4, <2>6, BlockInRow
  <2>8. /\ (j \div nc(3)) % nc(2) \in 0 .. nc(2) - 1
        /\ j % nc(3) \in 0 .. nc(3) - 1
    BY <2>1, <2>6
  <2>9. CoordinatesOf(j) = <<j \div (nc(2) * nc(3)), (j \div nc(3)) % nc(2), j % nc(3)>>
    BY <2>2 DEF CoordinatesOf
  <2>10. a = 1 \/ a = 2 \/ a = 3
    BY <1>2
  <2> QED BY <2>1, <2>7, <2>8, <2>9, <2>10
<1> QED BY <1>1, <1>2, Arguments

LEMMA TileCoordinates ==
  ASSUME tiling \in Tilings, NEW t \in Tiles
  PROVE  \A a \in Axes : TileCoordinate(t[a], a)
BY CellCoordinates DEF Tiles, TileCoordinate

LEMMA SameTile ==
  ASSUME tiling \in Tilings, NEW t \in Tiles, NEW u \in Tiles, \A a \in Axes : t[a] = u[a]
  PROVE  t = u
<1>1. PICK i \in GridCells : t = CoordinatesOf(i)
  BY DEF Tiles
<1>2. PICK j \in GridCells : u = CoordinatesOf(j)
  BY DEF Tiles
<1>3. CASE Axes = 1 .. 2
  BY <1>1, <1>2, <1>3 DEF CoordinatesOf, TwoAxes
<1>4. CASE Axes = 1 .. 3
  <2>1. ~TwoAxes
    <3>1. 3 \in Axes
      BY <1>4
    <3> QED BY <3>1 DEF TwoAxes
  <2> QED BY <1>1, <1>2, <1>4, <2>1 DEF CoordinatesOf
<1> QED BY <1>3, <1>4, Arguments

LEMMA ReachesOnce ==
  ASSUME tiling \in Tilings, NEW t \in Tiles, NEW p
  PROVE  /\ Reaches(t, p) \in {0, 1}
         /\ Reaches(t, p) = 1 => \A a \in Axes : \E x \in Span(a, t[a]) : x % nc(a) = p[a]
<1>1. \A a \in Axes : /\ TimesOnAxis(t, p, a) \in {0, 1}
                      /\ TimesOnAxis(t, p, a) # 0 => \E x \in Span(a, t[a]) : x % nc(a) = p[a]
  BY TileCoordinates, AtMostOnce
<1>2. CASE Axes = 1 .. 2
  <2>1. Reaches(t, p) = TimesOnAxis(t, p, 1) * TimesOnAxis(t, p, 2)
    BY <1>2 DEF Reaches, Reaches2d, TwoAxes
  <2>2. 1 \in Axes /\ 2 \in Axes /\ \A a \in Axes : a = 1 \/ a = 2
    BY <1>2
  <2>3. /\ TimesOnAxis(t, p, 1) \in {0, 1} /\ TimesOnAxis(t, p, 2) \in {0, 1}
    BY <1>1, <2>2
  <2>4. /\ Reaches(t, p) \in {0, 1}
        /\ Reaches(t, p) = 1 => TimesOnAxis(t, p, 1) # 0 /\ TimesOnAxis(t, p, 2) # 0
    BY <2>1, <2>3
  <2> QED BY <1>1, <2>2, <2>4
<1>3. CASE Axes = 1 .. 3
  <2>1. ~TwoAxes
    <3>1. 3 \in Axes
      BY <1>3
    <3> QED BY <3>1 DEF TwoAxes
  <2>2. Reaches(t, p) = (TimesOnAxis(t, p, 1) * TimesOnAxis(t, p, 2)) * TimesOnAxis(t, p, 3)
    BY <2>1 DEF Reaches, Reaches2d
  <2>3. 1 \in Axes /\ 2 \in Axes /\ 3 \in Axes /\ \A a \in Axes : a = 1 \/ a = 2 \/ a = 3
    BY <1>3
  <2>4. /\ TimesOnAxis(t, p, 1) \in {0, 1} /\ TimesOnAxis(t, p, 2) \in {0, 1}
        /\ TimesOnAxis(t, p, 3) \in {0, 1}
    BY <1>1, <2>3
  <2>5. /\ Reaches(t, p) \in {0, 1}
        /\ Reaches(t, p) = 1 => /\ TimesOnAxis(t, p, 1) # 0 /\ TimesOnAxis(t, p, 2) # 0
                                /\ TimesOnAxis(t, p, 3) # 0
    BY <2>2, <2>4
  <2> QED BY <1>1, <2>3, <2>5
<1> QED BY <1>2, <1>3, Arguments

\* The number of a private bag tells the parities of the tile on all axes.
LEMMA BagOfParities ==
  ASSUME tiling \in Tilings, NEW t \in Tiles, NEW u \in Tiles
  PROVE  /\ id_private_bag(t) \in 0 .. (IF TwoAxes THEN 3 ELSE 7)
         /\ id_private_bag(t) = id_private_bag(u) => \A a \in Axes : Odd(t, a) = Odd(u, a)
<1>1. \A a : Odd(t, a) \in {0, 1} /\ Odd(u, a) \in {0, 1}
  BY DEF Odd
<1>2. /\ Odd(t, 1) \in {0, 1} /\ Odd(t, 2) \in {0, 1} /\ Odd(t, 3) \in {0, 1}
      /\ Odd(u, 1) \in {0, 1} /\ Odd(u, 2) \in {0, 1} /\ Odd(u, 3) \in {0, 1}
  BY <1>1
<1>3. CASE TwoAxes
  <2>1. /\ id_private_bag(t) = Odd(t, 1) + 2 * Odd(t, 2)
        /\ id_private_bag(u) = Odd(u, 1) + 2 * Odd(u, 2)
    BY <1>3 DEF id_private_bag, id_private_bag2d
  <2>2. \A a \in Axes : a = 1 \/ a = 2
    BY <1>3 DEF TwoAxes
  <2>3. /\ id_private_bag(t) \in 0 .. 3
        /\ id_private_bag(t) = id_private_bag(u) => Odd(t, 1) = Odd(u, 1) /\ Odd(t, 2) = Odd(u, 2)
    BY <1>2, <2>1
  <2> QED BY <1>3, <2>2, <2>3
<1>4. CASE ~TwoAxes
  <2>1. /\ id_private_bag(t) = (Odd(t, 1) + 2 * Odd(t, 2)) + 4 * Odd(t, 3)
        /\ id_private_bag(u) = (Odd(u, 1) + 2 * Odd(u, 2)) + 4 * Odd(u, 3)
    BY <1>4 DEF id_private_bag, id_private_bag2d
  <2>2. \A a \in Axes : a = 1 \/ a = 2 \/ a = 3
    <3>1. Axes = 1 .. 3
      BY <1>4, Arguments DEF TwoAxes
    <3> QED BY <3>1
  <2>3. /\ id_private_bag(t) \in 0 .. 7
        /\ id_private_bag(t) = id_private_bag(u) =>
             Odd(t, 1) = Odd(u, 1) /\ Odd(t, 2) = Odd(u, 2) /\ Odd(t, 3) = Odd(u, 3)
    BY <1>2, <2>1
  <2> QED BY <1>4, <2>2, <2>3
<1> QED BY <1>3, <1>4

\* Two tiles that use the same private bag do not use it in the same cell.
LEMMA PrivateRegionsApart ==
  ASSUME tiling \in Tilings, NEW t \in Tiles, NEW u \in Tiles, t # u,
         id_private_bag(t) = id_private_bag(u), NEW p, Reaches(t, p) = 1, Reaches(u, p) = 1
  PROVE  FALSE
<1>1. PICK a \in Axes : t[a] # u[a]
  BY SameTile
<1>2. TileCoordinate(t[a], a) /\ TileCoordinate(u[a], a)
  BY TileCoordinates
<1>3. t[a] % (2 * tile_size) # 0 <=> u[a] % (2 * tile_size) # 0
  <2>1. Odd(t, a) = Odd(u, a)
    BY BagOfParities
  <2> QED BY <2>1 DEF Odd
<1>4. PICK x \in Span(a, t[a]) : x % nc(a) = p[a]
  BY ReachesOnce
<1>5. PICK y \in Span(a, u[a]) : y % nc(a) = p[a]
  BY ReachesOnce
<1>6. CASE t[a] < u[a]
  BY <1>2, <1>3, <1>4, <1>5, <1>6, SpansApart DEF TileCoordinate
<1>7. CASE u[a] < t[a]
  BY <1>2, <1>3, <1>4, <1>5, <1>7, SpansApart DEF TileCoordinate
<1> QED BY <1>1, <1>2, <1>6, <1>7 DEF TileCoordinate

-----------------------------------------------------------------------------
(* The order of the loops, and the sums.                                    *)

LEMMA LeastNatural ==
  ASSUME NEW S, S \subseteq Nat, S # {}
  PROVE  \E n \in S : \A m \in S : n <= m
<1> DEFINE Below(n) == 0 .. n - 1
           R == StrictSubsetOrdering(Nat)
           F == FiniteSubsetsOf(Nat)
           U == {Below(n) : n \in S}
<1>1. IsWellFoundedOn(R, F)
  BY FS_StrictSubsetOrderingWellFounded
<1>2. U \subseteq F
  <2> SUFFICES ASSUME NEW n \in S PROVE Below(n) \in F
    OBVIOUS
  <2>1. IsFiniteSet(0 .. n - 1)
    BY FS_Interval
  <2> QED BY <2>1 DEF FiniteSubsetsOf
<1>3. \E x \in U : \A y \in U : ~(<<y, x>> \in R)
  <2>1. U # {}
    OBVIOUS
  <2> HIDE DEF R, F, U
  <2> QED BY <1>1, <1>2, <2>1, WFMin
<1>4. PICK n \in S : \A m \in S : ~(<<Below(m), Below(n)>> \in R)
  BY <1>3
<1>5. ASSUME NEW m \in S, m < n PROVE FALSE
  <2>1. Below(m) \subseteq Below(n) /\ Below(m) \in SUBSET Nat /\ Below(n) \in SUBSET Nat
    BY <1>5
  <2>2. m \in Below(n) /\ m \notin Below(m)
    BY <1>5
  <2>3. <<Below(m), Below(n)>> \in R
    BY <2>1, <2>2 DEF StrictSubsetOrdering
  <2> QED BY <2>3, <1>4
<1> QED BY <1>5

\* Sums of a row of numbers exist, and are numbers.
Sums(f, N, w) == f = [j \in 0 .. N |-> IF j = 0 THEN 0 ELSE f[j - 1] + w[j - 1]]

LEMMA SumsExist ==
  ASSUME NEW N \in Nat, NEW w
  PROVE  \E f : Sums(f, N, w)
<1> DEFINE Bad == {n \in Nat : ~\E f : Sums(f, n, w)}
<1> SUFFICES ASSUME Bad # {} PROVE FALSE
  OBVIOUS
<1>1. PICK n \in Bad : \A m \in Bad : n <= m
  BY LeastNatural
<1>2. n # 0
  <2>1. Sums([j \in 0 .. 0 |-> 0], 0, w)
    BY DEF Sums
  <2> QED BY <2>1, <1>1
<1>3. n \in Nat /\ n - 1 \in Nat /\ n - 1 \notin Bad
  BY <1>1, <1>2
<1>4. PICK f : Sums(f, n - 1, w)
  BY <1>3
<1> DEFINE g == [j \in 0 .. n |-> IF j = n THEN f[n - 1] + w[n - 1] ELSE f[j]]
<1>5. Sums(g, n, w)
  <2>1. f = [j \in 0 .. n - 1 |-> IF j = 0 THEN 0 ELSE f[j - 1] + w[j - 1]]
    BY <1>4 DEF Sums
  <2>2. \A j \in 0 .. n : g[j] = IF j = 0 THEN 0 ELSE g[j - 1] + w[j - 1]
    <3> SUFFICES ASSUME NEW j \in 0 .. n PROVE g[j] = IF j = 0 THEN 0 ELSE g[j - 1] + w[j - 1]
      OBVIOUS
    <3>1. CASE j = n
      BY <3>1, <1>2, <1>3
    <3>2. CASE j # n
      <4>1. j \in 0 .. n - 1 /\ g[j] = f[j]
        BY <3>2, <1>3
      <4>2. j # 0 => g[j - 1] = f[j - 1]
        BY <4>1, <1>3
      <4>3. f[j] = IF j = 0 THEN 0 ELSE f[j - 1] + w[j - 1]
        BY <2>1, <4>1
      <4> QED BY <4>1, <4>2, <4>3
    <3> QED BY <3>1, <3>2
  <2>3. g = [j \in 0 .. n |-> g[j]]
    OBVIOUS
  <2> HIDE DEF g
  <2> QED BY <2>2, <2>3 DEF Sums
<1> QED BY <1>5, <1>1

LEMMA SumsNatural ==
  ASSUME NEW N \in Nat, NEW w \in [0 .. N -> Nat], NEW f, Sums(f, N, w)
  PROVE  f \in [0 .. N -> Nat]
<1>1. f = [j \in 0 .. N |-> IF j = 0 THEN 0 ELSE f[j - 1] + w[j - 1]]
  BY DEF Sums
<1> DEFINE Bad == {j \in 0 .. N : f[j] \notin Nat}
<1>2. ASSUME Bad # {} PROVE FALSE
  <2>1. PICK n \in Bad : \A m \in Bad : n <= m
    <3>1. Bad \subseteq Nat
      OBVIOUS
    <3> HIDE DEF Bad
    <3> QED BY <1>2, <3>1, LeastNatural
  <2>2. n \in 0 .. N /\ f[n] = (IF n = 0 THEN 0 ELSE f[n - 1] + w[n - 1])
    BY <1>1
  <2>3. n # 0
    BY <2>2, <2>1
  <2>4. n - 1 \in 0 .. N /\ n - 1 \notin Bad
    BY <2>1, <2>2, <2>3
  <2>5. f[n - 1] \in Nat /\ w[n - 1] \in Nat
    BY <2>4
  <2> QED BY <2>1, <2>2, <2>3, <2>5
<1>3. f = [j \in 0 .. N |-> f[j]]
  BY <1>1
<1> QED BY <1>2, <1>3

LEMMA CellIndexNatural ==
  ASSUME tiling \in Tilings, NEW p, \A a \in Axes : p[a] \in Nat
  PROVE  CellIndex(p) \in Nat
<1>1. CASE TwoAxes
  <2>1. /\ 1 \in Axes /\ 2 \in Axes
    BY <1>1 DEF TwoAxes
  <2>2. p[1] \in Nat /\ p[2] \in Nat /\ nc(2) \in Nat
    BY <2>1, Arguments
  <2>3. p[1] * nc(2) + p[2] \in Nat
    BY <2>2
  <2> QED BY <1>1, <2>3 DEF CellIndex, CellIndex2d
<1>2. CASE ~TwoAxes
  <2>1. /\ 1 \in Axes /\ 2 \in Axes /\ 3 \in Axes
    <3>1. Axes = 1 .. 3
      BY <1>2, Arguments DEF TwoAxes
    <3> QED BY <3>1
  <2>2. p[1] \in Nat /\ p[2] \in Nat /\ p[3] \in Nat /\ nc(2) \in Nat /\ nc(3) \in Nat
    BY <2>1, Arguments
  <2>3. p[1] * nc(2) + p[2] \in Nat
    BY <2>2
  <2>4. (p[1] * nc(2) + p[2]) * nc(3) + p[3] \in Nat
    BY <2>2, <2>3
  <2> QED BY <1>2, <2>4 DEF CellIndex, CellIndex2d
<1> QED BY <1>1, <1>2

\* There is a tile that the loops visit next.
FirstTile == CHOOSE t \in tilesLeft : \A u \in tilesLeft : CellIndex(t) <= CellIndex(u)

LEMMA FirstTileLeft ==
  ASSUME tiling \in Tilings, tilesLeft \subseteq Tiles, tilesLeft # {}
  PROVE  FirstTile \in tilesLeft
<1> DEFINE S == {CellIndex(t) : t \in tilesLeft}
<1>1. S \subseteq Nat /\ S # {}
  <2>1. \A t \in tilesLeft : CellIndex(t) \in Nat
    BY TileCoordinates, CellIndexNatural DEF TileCoordinate
  <2> QED BY <2>1
<1>2. PICK n \in S : \A m \in S : n <= m
  <2> HIDE DEF S
  <2> QED BY <1>1, LeastNatural
<1>3. \E t \in tilesLeft : \A u \in tilesLeft : CellIndex(t) <= CellIndex(u)
  BY <1>2
<1> QED BY <1>3 DEF FirstTile

-----------------------------------------------------------------------------
(* The inductive invariant.                                                 *)

Holds(b, j) == spare_chunks_ids[b][j] # None

\* A cell holds a private bag only for a tile that has been visited and reaches it.
GivenByTile ==
  \A j \in GridCells : \A b \in Bags \ {id_shared_bag} :
    Holds(b, j) => \/ tiling.nb_bags_per_cell = 2
                   \/ \E t \in Tiles \ tilesLeft : id_private_bag(t) = b /\ Reaches(t, CoordinatesOf(j)) = 1

TilingInv ==
  /\ tiling \in Tilings
  /\ tilesLeft \subseteq Tiles
  /\ tiling.nb_bags_per_cell = 2 => tilesLeft = {}
  /\ nb_chunks_per_cell \in [GridCells -> Nat]
  /\ spare_chunks_ids \in [Bags -> [GridCells -> Int]]
  /\ cumulative # <<>> => tilesLeft = {} /\ cumulative \in [GridCells -> Nat]
  /\ GivenByTile
  /\ PrivateBagsExclusive

LEMMA BagNumbers ==
  ASSUME tiling \in Tilings
  PROVE  /\ Bags = 0 .. id_shared_bag /\ id_shared_bag \in Nat
         /\ tiling.nb_bags_per_cell = 2 => id_shared_bag = 1
         /\ tiling.nb_bags_per_cell # 2 =>
              /\ id_shared_bag = (IF TwoAxes THEN 4 ELSE 8)
              /\ \A t \in Tiles : id_private_bag(t) \in Bags \ {id_shared_bag}
<1>1. tiling.nb_bags_per_cell \in {2, IF TwoAxes THEN 5 ELSE 9}
  BY Arguments
<1>2. tiling.nb_bags_per_cell \in {2, 5, 9}
  BY <1>1
<1>3. Bags = 0 .. id_shared_bag /\ id_shared_bag \in Nat /\ id_shared_bag = tiling.nb_bags_per_cell - 1
  BY <1>2 DEF Bags, id_shared_bag
<1>4. ASSUME tiling.nb_bags_per_cell # 2, NEW t \in Tiles
      PROVE  id_private_bag(t) \in Bags \ {id_shared_bag}
  <2>1. id_private_bag(t) \in 0 .. (IF TwoAxes THEN 3 ELSE 7)
    BY BagOfParities
  <2> QED BY <1>1, <1>3, <1>4, <2>1
<1> QED BY <1>1, <1>3, <1>4

LEMMA TilingInvAtStart == TilingInit => TilingInv
<1> SUFFICES ASSUME TilingInit PROVE TilingInv
  OBVIOUS
<1>1. tiling \in Tilings /\ MarkBags
  BY DEF TilingInit, MarkBags2d, MarkBags3d
<1>2. Bags = 0 .. id_shared_bag /\ id_shared_bag \in Nat
  BY <1>1, BagNumbers
<1>3. cumulative = <<>>
  BY <1>1 DEF MarkBags
<1>4. CASE tiling.nb_bags_per_cell = 2
  <2>1. /\ tilesLeft = {}
        /\ nb_chunks_per_cell = [j \in GridCells |-> 2]
        /\ spare_chunks_ids = [b \in Bags |-> [j \in GridCells |-> Marked]]
    BY <1>1, <1>4 DEF MarkBags
  <2>2. GivenByTile
    BY <1>4 DEF GivenByTile
  <2>3. PrivateBagsExclusive
    <3> SUFFICES ASSUME NEW j \in GridCells
                 PROVE  nb_chunks_per_cell[j] = Cardinality({b \in Bags : spare_chunks_ids[b][j] # None})
      BY DEF PrivateBagsExclusive
    <3>1. {b \in Bags : spare_chunks_ids[b][j] # None} = 0 .. 1
      <4>1. Bags = 0 .. 1
        BY <1>1, <1>2, <1>4, BagNumbers
      <4>2. \A b \in Bags : spare_chunks_ids[b][j] # None
        BY <2>1 DEF Marked, None
      <4> QED BY <4>1, <4>2
    <3>2. Cardinality(0 .. 1) = 2
      <4>1. Cardinality(0 .. 1) = IF 0 > 1 THEN 0 ELSE 1 - 0 + 1
        BY FS_Interval, 0 \in Int, 1 \in Int, Zenon
      <4> QED BY <4>1
    <3> QED BY <2>1, <3>1, <3>2
  <2>4. /\ nb_chunks_per_cell \in [GridCells -> Nat]
        /\ spare_chunks_ids \in [Bags -> [GridCells -> Int]]
    BY <2>1 DEF Marked
  <2> QED BY <1>1, <1>3, <2>1, <2>2, <2>3, <2>4 DEF TilingInv
<1>5. CASE tiling.nb_bags_per_cell # 2
  <2>1. /\ tilesLeft = Tiles
        /\ nb_chunks_per_cell = [j \in GridCells |-> 1]
        /\ spare_chunks_ids = [b \in Bags |-> [j \in GridCells |-> IF b = id_shared_bag THEN Marked ELSE None]]
    BY <1>1, <1>5 DEF MarkBags
  <2>2. GivenByTile
    BY <2>1 DEF GivenByTile, Holds
  <2>3. PrivateBagsExclusive
    <3> SUFFICES ASSUME NEW j \in GridCells
                 PROVE  nb_chunks_per_cell[j] = Cardinality({b \in Bags : spare_chunks_ids[b][j] # None})
      BY DEF PrivateBagsExclusive
    <3>1. {b \in Bags : spare_chunks_ids[b][j] # None} = {id_shared_bag}
      <4>1. id_shared_bag \in Bags
        BY <1>2
      <4>2. \A b \in Bags : spare_chunks_ids[b][j] # None <=> b = id_shared_bag
        BY <2>1 DEF Marked, None
      <4> QED BY <4>1, <4>2
    <3>2. Cardinality({id_shared_bag}) = 1
      BY FS_Singleton
    <3> QED BY <2>1, <3>1, <3>2
  <2>4. /\ nb_chunks_per_cell \in [GridCells -> Nat]
        /\ spare_chunks_ids \in [Bags -> [GridCells -> Int]]
    BY <2>1 DEF Marked, None
  <2> QED BY <1>1, <1>3, <1>5, <2>1, <2>2, <2>3, <2>4 DEF TilingInv
<1> QED BY <1>4, <1>5

\* The arguments do not change, nor anything that is computed from them.
LEMMA ArgumentsKept ==
  ASSUME UNCHANGED tiling
  PROVE  /\ GridCells' = GridCells /\ Bags' = Bags /\ id_shared_bag' = id_shared_bag /\ Tiles' = Tiles
         /\ \A j : CoordinatesOf(j)' = CoordinatesOf(j)
         /\ \A t : id_private_bag(t)' = id_private_bag(t)
         /\ \A t, p : Reaches(t, p)' = Reaches(t, p)
<1>1. Axes' = Axes /\ (TwoAxes <=> TwoAxes') /\ \A a : nc(a)' = nc(a)
  BY DEF Axes, TwoAxes, nc
<1>2. tile_size' = tile_size /\ id_shared_bag' = id_shared_bag /\ Bags' = Bags
  BY DEF tile_size, id_shared_bag, Bags
<1>3. \A j : CoordinatesOf(j)' = CoordinatesOf(j)
  BY <1>1 DEF CoordinatesOf
<1>4. GridCells' = GridCells
  BY <1>1 DEF GridCells, LastCell, CellIndex, CellIndex2d
<1>5. Tiles' = Tiles
  BY <1>1, <1>2, <1>3, <1>4 DEF Tiles
<1>6. \A t, a : Odd(t, a)' = Odd(t, a)
  BY <1>2 DEF Odd
<1>7. \A t : id_private_bag(t)' = id_private_bag(t)
  BY <1>1, <1>6 DEF id_private_bag, id_private_bag2d
<1>8. \A a, lo : Span(a, lo)' = Span(a, lo)
  BY DEF Span, lower_border, upper_border, is_perfect_tiling, start_tile_without_borders, nb_full_tiles, nc, tile_size
<1>9. \A t, p, a : TimesOnAxis(t, p, a)' = TimesOnAxis(t, p, a)
  BY <1>1, <1>8 DEF TimesOnAxis
<1>10. \A t, p : Reaches(t, p)' = Reaches(t, p)
  BY <1>1, <1>9 DEF Reaches, Reaches2d
<1> QED BY <1>2, <1>3, <1>4, <1>5, <1>7, <1>10

\* The crux: a tile finds, in every cell that it reaches, a bag that no tile has yet.
LEMMA VisitTileStep ==
  ASSUME TilingInv, VisitTile
  PROVE  TilingInv'
<1> DEFINE tile == FirstTile
           times == [j \in GridCells |-> Reaches(tile, CoordinatesOf(j))]
           bag == id_private_bag(tile)
<1>1. /\ tilesLeft # {} /\ UNCHANGED <<tiling, cumulative>>
      /\ nb_chunks_per_cell' = [j \in GridCells |-> nb_chunks_per_cell[j] + times[j]]
      /\ spare_chunks_ids' = [spare_chunks_ids EXCEPT ![bag] =
                                [j \in GridCells |-> IF times[j] > 0 THEN Marked ELSE @[j]]]
      /\ tilesLeft' = tilesLeft \ {tile}
  BY DEF VisitTile, FirstTile
<1>2. /\ tiling \in Tilings /\ tilesLeft \subseteq Tiles
      /\ tiling.nb_bags_per_cell # 2
      /\ cumulative = <<>>
      /\ nb_chunks_per_cell \in [GridCells -> Nat]
      /\ spare_chunks_ids \in [Bags -> [GridCells -> Int]]
  BY <1>1 DEF TilingInv
<1>3. tile \in tilesLeft /\ tile \in Tiles
  BY <1>1, <1>2, FirstTileLeft
<1>4. bag \in Bags \ {id_shared_bag}
  BY <1>2, <1>3, BagNumbers
<1>5. \A j \in GridCells : times[j] \in {0, 1} /\ times[j] = Reaches(tile, CoordinatesOf(j))
  BY <1>2, <1>3, ReachesOnce
<1>6. /\ GridCells' = GridCells /\ Bags' = Bags /\ id_shared_bag' = id_shared_bag /\ Tiles' = Tiles
      /\ \A j : CoordinatesOf(j)' = CoordinatesOf(j)
      /\ \A t : id_private_bag(t)' = id_private_bag(t)
      /\ \A t, p : Reaches(t, p)' = Reaches(t, p)
  BY <1>1, ArgumentsKept
<1> HIDE DEF tile, times, bag
<1>7. \A b \in Bags : \A j \in GridCells :
        spare_chunks_ids'[b][j] = IF b = bag /\ times[j] = 1 THEN Marked ELSE spare_chunks_ids[b][j]
  <2> SUFFICES ASSUME NEW b \in Bags, NEW j \in GridCells
               PROVE  spare_chunks_ids'[b][j] = IF b = bag /\ times[j] = 1 THEN Marked ELSE spare_chunks_ids[b][j]
    OBVIOUS
  <2>1. times[j] \in {0, 1}
    BY <1>5
  <2>2. CASE b = bag
    <3>1. spare_chunks_ids'[b] = [i \in GridCells |-> IF times[i] > 0 THEN Marked ELSE spare_chunks_ids[b][i]]
      BY <1>1, <1>2, <2>2
    <3> QED BY <3>1, <2>1, <2>2
  <2>3. CASE b # bag
    BY <1>1, <1>2, <2>3
  <2> QED BY <2>2, <2>3
<1>8. spare_chunks_ids' \in [Bags -> [GridCells -> Int]]
  <2>1. spare_chunks_ids' = [b \in Bags |-> [j \in GridCells |-> spare_chunks_ids'[b][j]]]
    <3>1. [j \in GridCells |-> IF times[j] > 0 THEN Marked ELSE spare_chunks_ids[bag][j]] = spare_chunks_ids'[bag]
      BY <1>1, <1>2, <1>4
    <3>2. \A b \in Bags : b # bag => spare_chunks_ids'[b] = spare_chunks_ids[b]
      BY <1>1, <1>2
    <3>3. \A b \in Bags : spare_chunks_ids'[b] = [j \in GridCells |-> spare_chunks_ids'[b][j]]
      BY <1>2, <3>1, <3>2
    <3>4. spare_chunks_ids' = [b \in Bags |-> spare_chunks_ids'[b]]
      BY <1>1, <1>2
    <3> QED BY <3>3, <3>4
  <2>2. \A b \in Bags : \A j \in GridCells : spare_chunks_ids'[b][j] \in Int
    BY <1>2, <1>7 DEF Marked
  <2> QED BY <2>1, <2>2
<1>9. nb_chunks_per_cell' \in [GridCells -> Nat]
  <2>1. \A j \in GridCells : nb_chunks_per_cell[j] + times[j] \in Nat
    <3> SUFFICES ASSUME NEW j \in GridCells PROVE nb_chunks_per_cell[j] + times[j] \in Nat
      OBVIOUS
    <3>1. nb_chunks_per_cell[j] \in Nat
      BY <1>2
    <3>2. times[j] \in {0, 1}
      BY <1>5
    <3> QED BY <3>1, <3>2
  <2> QED BY <1>1, <2>1
<1>10. \A j \in GridCells : times[j] = 1 => ~Holds(bag, j)
  <2> SUFFICES ASSUME NEW j \in GridCells, times[j] = 1, Holds(bag, j) PROVE FALSE
    OBVIOUS
  <2>1. PICK t \in Tiles \ tilesLeft : id_private_bag(t) = bag /\ Reaches(t, CoordinatesOf(j)) = 1
    BY <1>2, <1>4 DEF TilingInv, GivenByTile
  <2>2. t # tile
    BY <1>3
  <2>3. id_private_bag(t) = id_private_bag(tile) /\ Reaches(tile, CoordinatesOf(j)) = 1
    BY <1>5, <2>1 DEF bag
  <2> QED BY <1>2, <1>3, <2>1, <2>2, <2>3, PrivateRegionsApart
<1>11. GivenByTile'
  <2> SUFFICES ASSUME NEW j \in GridCells, NEW b \in Bags \ {id_shared_bag}, spare_chunks_ids'[b][j] # None
               PROVE  \E t \in Tiles \ tilesLeft' :
                        id_private_bag(t) = b /\ Reaches(t, CoordinatesOf(j)) = 1
    BY <1>6 DEF GivenByTile, Holds
  <2>1. CASE b = bag /\ times[j] = 1
    <3>1. tile \in Tiles \ tilesLeft' /\ id_private_bag(tile) = b /\ Reaches(tile, CoordinatesOf(j)) = 1
      BY <1>1, <1>3, <1>5, <2>1 DEF bag
    <3> QED BY <3>1
  <2>2. CASE ~(b = bag /\ times[j] = 1)
    <3>1. Holds(b, j)
      BY <1>7, <2>2 DEF Holds
    <3>2. PICK t \in Tiles \ tilesLeft : id_private_bag(t) = b /\ Reaches(t, CoordinatesOf(j)) = 1
      BY <1>2, <3>1 DEF TilingInv, GivenByTile
    <3> QED BY <1>1, <3>2
  <2> QED BY <2>1, <2>2
<1>12. PrivateBagsExclusive'
  <2> SUFFICES ASSUME NEW j \in GridCells
               PROVE  nb_chunks_per_cell'[j] = Cardinality({b \in Bags : spare_chunks_ids'[b][j] # None})
    BY <1>6 DEF PrivateBagsExclusive
  <2> DEFINE old == {b \in Bags : spare_chunks_ids[b][j] # None}
             new == {b \in Bags : spare_chunks_ids'[b][j] # None}
  <2>1. nb_chunks_per_cell[j] = Cardinality(old) /\ nb_chunks_per_cell'[j] = nb_chunks_per_cell[j] + times[j]
    BY <1>1 DEF TilingInv, PrivateBagsExclusive
  <2>2. CASE times[j] = 0
    <3>1. new = old
      BY <1>7, <2>2
    <3>2. nb_chunks_per_cell'[j] = nb_chunks_per_cell[j]
      BY <1>2, <2>1, <2>2
    <3> QED BY <2>1, <3>1, <3>2
  <2>3. CASE times[j] = 1
    <3>1. bag \notin old
      BY <1>10, <2>3 DEF Holds
    <3>2. new = old \cup {bag}
      <4>1. \A b \in Bags : spare_chunks_ids'[b][j] # None <=> b = bag \/ spare_chunks_ids[b][j] # None
        BY <1>7, <2>3 DEF Marked, None
      <4> QED BY <4>1, <1>4
    <3>3. IsFiniteSet(old)
      <4>1. IsFiniteSet(Bags)
        BY <1>2, BagNumbers, FS_Interval
      <4> QED BY <4>1, FS_Subset
    <3>4. Cardinality(old \cup {bag}) = Cardinality(old) + 1
      <4> HIDE DEF old
      <4> QED BY <3>1, <3>3, FS_AddElement
    <3>5. nb_chunks_per_cell'[j] = Cardinality(new)
      <4> HIDE DEF old, new
      <4> QED BY <2>1, <2>3, <3>2, <3>4
    <3> QED BY <3>5
  <2> QED BY <1>5, <2>2, <2>3
<1> QED BY <1>1, <1>2, <1>6, <1>8, <1>9, <1>11, <1>12 DEF TilingInv

LEMMA SumOfChunksStep ==
  ASSUME TilingInv, SumOfChunks
  PROVE  TilingInv'
<1> DEFINE upto == CHOOSE f : f = [j \in GridCells |-> IF j = 0 THEN 0 ELSE f[j - 1] + nb_chunks_per_cell[j - 1]]
<1>1. /\ tilesLeft = {} /\ cumulative' = upto
      /\ UNCHANGED <<tiling, tilesLeft, nb_chunks_per_cell, spare_chunks_ids>>
  BY DEF SumOfChunks
<1>2. tiling \in Tilings /\ nb_chunks_per_cell \in [GridCells -> Nat]
  BY DEF TilingInv
<1>3. PICK N \in Nat : GridCells = 0 .. N
  <2> DEFINE p == [a \in Axes |-> nc(a) - 1]
  <2>1. \A a \in Axes : p[a] \in Nat
    BY <1>2, Arguments
  <2>2. CellIndex(p) \in Nat
    <3> HIDE DEF p
    <3> QED BY <1>2, <2>1, CellIndexNatural
  <2> QED BY <2>2 DEF GridCells, LastCell
<1>4. Sums(upto, N, nb_chunks_per_cell)
  <2>1. \E f : Sums(f, N, nb_chunks_per_cell)
    BY <1>3, SumsExist
  <2> QED BY <1>3, <2>1 DEF Sums
<1> HIDE DEF upto
<1>5. cumulative' \in [GridCells -> Nat]
  BY <1>1, <1>2, <1>3, <1>4, SumsNatural
<1>6. /\ GridCells' = GridCells /\ Bags' = Bags /\ id_shared_bag' = id_shared_bag /\ Tiles' = Tiles
      /\ \A j : CoordinatesOf(j)' = CoordinatesOf(j)
      /\ \A t : id_private_bag(t)' = id_private_bag(t)
      /\ \A t, p : Reaches(t, p)' = Reaches(t, p)
  BY <1>1, ArgumentsKept
<1>7. GivenByTile'
  BY <1>1, <1>6 DEF TilingInv, GivenByTile, Holds
<1>8. PrivateBagsExclusive'
  BY <1>1, <1>6 DEF TilingInv, PrivateBagsExclusive
<1> QED BY <1>1, <1>2, <1>5, <1>6, <1>7, <1>8 DEF TilingInv

LEMMA NumberNatural ==
  ASSUME TilingInv, cumulative # <<>>, NEW b \in Bags, NEW j \in GridCells
  PROVE  Number(j, b) \in Nat
<1> DEFINE before == {b2 \in 0 .. b - 1 : spare_chunks_ids[b2][j] # None}
<1>1. cumulative[j] \in Nat
  BY DEF TilingInv
<1>2. Cardinality(before) \in Nat
  <2>1. b \in Int
    BY BagNumbers DEF TilingInv
  <2>2. IsFiniteSet(0 .. b - 1)
    BY <2>1, FS_Interval
  <2>3. IsFiniteSet(before)
    BY <2>2, FS_Subset
  <2> HIDE DEF before
  <2> QED BY <2>3, FS_CardinalityType
<1>3. Number(j, b) = IF b = id_shared_bag THEN cumulative[j] ELSE cumulative[j] + 1 + Cardinality(before)
  BY DEF Number
<1> HIDE DEF before
<1> QED BY <1>1, <1>2, <1>3

\* The numbers replace the marks, and only them.
LEMMA NumberChunksStep ==
  ASSUME TilingInv, NumberChunks
  PROVE  TilingInv'
<1>1. /\ cumulative # <<>>
      /\ spare_chunks_ids' = [b \in Bags |-> [j \in GridCells |->
                               IF spare_chunks_ids[b][j] = None THEN None ELSE Number(j, b)]]
      /\ UNCHANGED <<tiling, tilesLeft, nb_chunks_per_cell, cumulative>>
  BY DEF NumberChunks
<1>2. /\ tiling \in Tilings /\ nb_chunks_per_cell \in [GridCells -> Nat]
      /\ tilesLeft = {} /\ cumulative \in [GridCells -> Nat]
  BY <1>1 DEF TilingInv
<1>3. \A b \in Bags : \A j \in GridCells : Number(j, b) \in Nat
  BY <1>1, NumberNatural
<1>4. \A b \in Bags : \A j \in GridCells :
        /\ spare_chunks_ids'[b][j] # None <=> spare_chunks_ids[b][j] # None
        /\ spare_chunks_ids'[b][j] \in Int
  <2> SUFFICES ASSUME NEW b \in Bags, NEW j \in GridCells
               PROVE  /\ spare_chunks_ids'[b][j] # None <=> spare_chunks_ids[b][j] # None
                      /\ spare_chunks_ids'[b][j] \in Int
    OBVIOUS
  <2>1. spare_chunks_ids'[b][j] = IF spare_chunks_ids[b][j] = None THEN None ELSE Number(j, b)
    BY <1>1
  <2>2. Number(j, b) \in Nat
    BY <1>3
  <2> QED BY <2>1, <2>2 DEF None
<1>5. spare_chunks_ids' \in [Bags -> [GridCells -> Int]]
  <2>1. spare_chunks_ids' = [b \in Bags |-> [j \in GridCells |-> spare_chunks_ids'[b][j]]]
    <3> DEFINE S(b, j) == IF spare_chunks_ids[b][j] = None THEN None ELSE Number(j, b)
    <3>1. spare_chunks_ids' = [b \in Bags |-> [j \in GridCells |-> S(b, j)]]
      BY <1>1
    <3> HIDE DEF S
    <3> QED BY <3>1
  <2> QED BY <1>4, <2>1
<1>6. /\ GridCells' = GridCells /\ Bags' = Bags /\ id_shared_bag' = id_shared_bag /\ Tiles' = Tiles
      /\ \A j : CoordinatesOf(j)' = CoordinatesOf(j)
      /\ \A t : id_private_bag(t)' = id_private_bag(t)
      /\ \A t, p : Reaches(t, p)' = Reaches(t, p)
  BY <1>1, ArgumentsKept
<1>7. GivenByTile'
  BY <1>1, <1>4, <1>6 DEF TilingInv, GivenByTile, Holds
<1>8. PrivateBagsExclusive'
  <2> SUFFICES ASSUME NEW j \in GridCells
               PROVE  nb_chunks_per_cell'[j] = Cardinality({b \in Bags : spare_chunks_ids'[b][j] # None})
    BY <1>6 DEF PrivateBagsExclusive
  <2>1. {b \in Bags : spare_chunks_ids'[b][j] # None} = {b \in Bags : spare_chunks_ids[b][j] # None}
    BY <1>4
  <2> QED BY <1>1, <2>1 DEF TilingInv, PrivateBagsExclusive
<1> QED BY <1>1, <1>2, <1>5, <1>6, <1>7, <1>8 DEF TilingInv

LEMMA TilingInvKept == TilingInv /\ [TilingNext]_tilingVars => TilingInv'
<1> SUFFICES ASSUME TilingInv, [TilingNext]_tilingVars PROVE TilingInv'
  OBVIOUS
<1>1. CASE VisitTile
  BY <1>1, VisitTileStep
<1>2. CASE SumOfChunks
  BY <1>2, SumOfChunksStep
<1>3. CASE NumberChunks
  BY <1>3, NumberChunksStep
<1>4. CASE UNCHANGED tilingVars
  <2>1. UNCHANGED <<tiling, tilesLeft, nb_chunks_per_cell, spare_chunks_ids, cumulative>>
    BY <1>4 DEF tilingVars
  <2>2. /\ GridCells' = GridCells /\ Bags' = Bags /\ id_shared_bag' = id_shared_bag /\ Tiles' = Tiles
        /\ \A j : CoordinatesOf(j)' = CoordinatesOf(j)
        /\ \A t : id_private_bag(t)' = id_private_bag(t)
        /\ \A t, p : Reaches(t, p)' = Reaches(t, p)
    BY <2>1, ArgumentsKept
  <2>3. GivenByTile'
    BY <2>1, <2>2 DEF TilingInv, GivenByTile, Holds
  <2>4. PrivateBagsExclusive'
    BY <2>1, <2>2 DEF TilingInv, PrivateBagsExclusive
  <2> QED BY <2>1, <2>2, <2>3, <2>4 DEF TilingInv
<1> QED BY <1>1, <1>2, <1>3, <1>4 DEF TilingNext, InitAllChunks2d, InitAllChunks3d, TilingStep

-----------------------------------------------------------------------------
(* The numbers of the spare chunks.                                         *)

\* From the sums on they are the sums of nb_chunks_per_cell; the marks of the shared
\* bags are there until all the chunks are numbered.
NumbersInv ==
  /\ cumulative # <<>> => Sums(cumulative, LastCell, nb_chunks_per_cell)
  /\ \A j \in GridCells : Holds(id_shared_bag, j)
  /\ \/ \A j \in GridCells : spare_chunks_ids[id_shared_bag][j] = Marked
     \/ /\ cumulative # <<>>
        /\ \A j \in GridCells : \A b \in Bags : Holds(b, j) => spare_chunks_ids[b][j] = Number(j, b)

LEMMA CellsInRow ==
  ASSUME tiling \in Tilings
  PROVE  LastCell \in Nat /\ GridCells = 0 .. LastCell /\ LastCell \in GridCells /\ 0 \in GridCells
<1> DEFINE p == [a \in Axes |-> nc(a) - 1]
<1>1. \A a \in Axes : p[a] \in Nat
  BY Arguments
<1>2. CellIndex(p) \in Nat
  <2> HIDE DEF p
  <2> QED BY <1>1, CellIndexNatural
<1> QED BY <1>2 DEF GridCells, LastCell

LEMMA NumbersInvAtStart == TilingInit => NumbersInv
<1> SUFFICES ASSUME TilingInit PROVE NumbersInv
  OBVIOUS
<1>1. tiling \in Tilings /\ MarkBags
  BY DEF TilingInit, MarkBags2d, MarkBags3d
<1>2. id_shared_bag \in Bags
  BY <1>1, BagNumbers
<1>3. cumulative = <<>> /\ \A j \in GridCells : spare_chunks_ids[id_shared_bag][j] = Marked
  BY <1>1, <1>2 DEF MarkBags
<1> QED BY <1>3 DEF NumbersInv, Holds, Marked, None

LEMMA NumbersInvKept ==
  ASSUME TilingInv, NumbersInv, [TilingNext]_tilingVars
  PROVE  NumbersInv'
<1>1. tiling \in Tilings /\ id_shared_bag \in Bags
  BY BagNumbers DEF TilingInv
<1>2. UNCHANGED tiling
  BY DEF TilingNext, InitAllChunks2d, InitAllChunks3d, TilingStep, VisitTile, SumOfChunks, NumberChunks, tilingVars
<1>3. GridCells' = GridCells /\ LastCell' = LastCell /\ Bags' = Bags /\ id_shared_bag' = id_shared_bag
  <2>1. Axes' = Axes /\ (TwoAxes <=> TwoAxes') /\ \A a : nc(a)' = nc(a)
    BY <1>2 DEF Axes, TwoAxes, nc
  <2>2. LastCell' = LastCell
    BY <2>1 DEF LastCell, CellIndex, CellIndex2d
  <2> QED BY <1>2, <2>2, ArgumentsKept
<1>4. CASE VisitTile
  <2>1. tilesLeft # {} /\ UNCHANGED cumulative
    BY <1>4 DEF VisitTile
  <2>2. cumulative = <<>> /\ cumulative' = <<>>
    BY <2>1 DEF TilingInv
  <2>3. FirstTile \in Tiles
    BY <1>1, <2>1, FirstTileLeft DEF TilingInv
  <2>4. id_private_bag(FirstTile) # id_shared_bag
    BY <1>1, <2>1, <2>3, BagNumbers DEF TilingInv
  <2>5. PICK row : spare_chunks_ids' = [spare_chunks_ids EXCEPT ![id_private_bag(FirstTile)] = row]
    BY <1>4 DEF VisitTile, FirstTile
  <2>6. spare_chunks_ids'[id_shared_bag] = spare_chunks_ids[id_shared_bag]
    BY <1>1, <2>4, <2>5 DEF TilingInv
  <2>7. \A j \in GridCells : spare_chunks_ids[id_shared_bag][j] = Marked
    BY <2>2 DEF NumbersInv
  <2> QED BY <1>3, <2>2, <2>6, <2>7 DEF NumbersInv, Holds, Marked, None
<1>5. CASE SumOfChunks
  <2>1. cumulative = <<>> /\ UNCHANGED <<spare_chunks_ids, nb_chunks_per_cell>>
    BY <1>5 DEF SumOfChunks
  <2>2. \A j \in GridCells : spare_chunks_ids[id_shared_bag][j] = Marked
    BY <2>1 DEF NumbersInv
  <2>3. Sums(cumulative', LastCell, nb_chunks_per_cell)
    <3> DEFINE upto == CHOOSE f : f = [j \in GridCells |-> IF j = 0 THEN 0 ELSE f[j - 1] + nb_chunks_per_cell[j - 1]]
    <3>1. cumulative' = upto
      BY <1>5 DEF SumOfChunks
    <3>2. GridCells = 0 .. LastCell /\ LastCell \in Nat
      BY <1>1, CellsInRow
    <3>3. Sums(upto, LastCell, nb_chunks_per_cell)
      <4>1. \E f : Sums(f, LastCell, nb_chunks_per_cell)
        BY <3>2, SumsExist
      <4> QED BY <3>2, <4>1 DEF Sums
    <3> HIDE DEF upto
    <3> QED BY <3>1, <3>3
  <2> QED BY <1>3, <2>1, <2>2, <2>3 DEF NumbersInv, Holds, Marked, None
<1>6. CASE NumberChunks
  <2>1. /\ cumulative # <<>>
        /\ spare_chunks_ids' = [b \in Bags |-> [j \in GridCells |->
                                 IF spare_chunks_ids[b][j] = None THEN None ELSE Number(j, b)]]
        /\ UNCHANGED <<nb_chunks_per_cell, cumulative>>
    BY <1>6 DEF NumberChunks
  <2>2. TilingInv'
    BY <1>6, NumberChunksStep
  <2>3. \A b \in Bags : \A j \in GridCells :
          /\ spare_chunks_ids'[b][j] # None <=> spare_chunks_ids[b][j] # None
          /\ Holds(b, j) => spare_chunks_ids'[b][j] = Number(j, b)
    <3> SUFFICES ASSUME NEW b \in Bags, NEW j \in GridCells
                 PROVE  /\ spare_chunks_ids'[b][j] # None <=> spare_chunks_ids[b][j] # None
                        /\ Holds(b, j) => spare_chunks_ids'[b][j] = Number(j, b)
      OBVIOUS
    <3>1. spare_chunks_ids'[b][j] = IF spare_chunks_ids[b][j] = None THEN None ELSE Number(j, b)
      BY <2>1
    <3>2. Number(j, b) \in Nat
      BY <2>1, NumberNatural
    <3> QED BY <3>1, <3>2 DEF None, Holds
  <2>4. \A b \in Bags : \A j \in GridCells : Number(j, b)' = Number(j, b)
    <3> SUFFICES ASSUME NEW b \in Bags, NEW j \in GridCells PROVE Number(j, b)' = Number(j, b)
      OBVIOUS
    <3>1. \A b2 \in 0 .. b - 1 : b2 \in Bags
      BY <1>1, BagNumbers
    <3>2. {b2 \in 0 .. b - 1 : spare_chunks_ids'[b2][j] # None} = {b2 \in 0 .. b - 1 : spare_chunks_ids[b2][j] # None}
      BY <2>3, <3>1
    <3> QED BY <1>3, <2>1, <3>2 DEF Number
  <2> QED BY <1>1, <1>3, <2>1, <2>3, <2>4 DEF NumbersInv, Holds
<1>7. CASE UNCHANGED tilingVars
  <2>1. UNCHANGED <<tiling, tilesLeft, nb_chunks_per_cell, spare_chunks_ids, cumulative>>
    BY <1>7 DEF tilingVars
  <2>2. \A b, j : Number(j, b)' = Number(j, b)
    BY <1>3, <2>1 DEF Number
  <2> QED BY <1>3, <2>1, <2>2 DEF NumbersInv, Holds
<1> QED BY <1>4, <1>5, <1>6, <1>7 DEF TilingNext, InitAllChunks2d, InitAllChunks3d, TilingStep

LEMMA SumsMonotone ==
  ASSUME NEW N \in Nat, NEW w \in [0 .. N -> Nat], NEW f, Sums(f, N, w),
         NEW i \in 0 .. N, NEW j \in 0 .. N, i < j
  PROVE  f[i] + w[i] <= f[j]
<1>1. f = [n \in 0 .. N |-> IF n = 0 THEN 0 ELSE f[n - 1] + w[n - 1]]
  BY DEF Sums
<1>2. f \in [0 .. N -> Nat]
  BY SumsNatural
<1> DEFINE Bad == {n \in 0 .. N : i < n /\ ~(f[i] + w[i] <= f[n])}
<1> SUFFICES ASSUME Bad # {} PROVE FALSE
  OBVIOUS
<1>3. PICK n \in Bad : \A m \in Bad : n <= m
  <2>1. Bad \subseteq Nat
    OBVIOUS
  <2> HIDE DEF Bad
  <2> QED BY <2>1, LeastNatural
<1>4. n \in 0 .. N /\ n # 0 /\ i < n /\ ~(f[i] + w[i] <= f[n])
  BY <1>3
<1>5. f[n] = f[n - 1] + w[n - 1]
  <2>1. f[n] = IF n = 0 THEN 0 ELSE f[n - 1] + w[n - 1]
    BY <1>1, <1>4
  <2> QED BY <2>1, <1>4
<1>6. /\ f[i] \in Nat /\ w[i] \in Nat /\ f[n] \in Nat
      /\ n - 1 \in 0 .. N /\ f[n - 1] \in Nat /\ w[n - 1] \in Nat
  BY <1>2, <1>4
<1>7. CASE i = n - 1
  BY <1>4, <1>5, <1>6, <1>7
<1>8. CASE i < n - 1
  <2>1. n - 1 \notin Bad
    BY <1>3, <1>4
  <2>2. f[i] + w[i] <= f[n - 1]
    BY <2>1, <1>6, <1>8
  <2>3. f[i] + w[i] <= f[n]
    <3> HIDE DEF Bad
    <3> QED BY <2>2, <1>5, <1>6
  <2> QED BY <2>3, <1>4
<1> QED BY <1>4, <1>7, <1>8

\* Every number below the total falls in the share of one of the row.
LEMMA SumsCover ==
  ASSUME NEW N \in Nat, NEW w \in [0 .. N -> Nat], NEW f, Sums(f, N, w), NEW k \in Nat, k < f[N] + w[N]
  PROVE  \E j \in 0 .. N : f[j] <= k /\ k < f[j] + w[j]
<1>1. f = [n \in 0 .. N |-> IF n = 0 THEN 0 ELSE f[n - 1] + w[n - 1]]
  BY DEF Sums
<1>2. f \in [0 .. N -> Nat]
  BY SumsNatural
<1> DEFINE S == {n \in 0 .. N : k < f[n] + w[n]}
<1>3. S # {} /\ S \subseteq Nat
  <2>1. N \in S
    OBVIOUS
  <2> QED BY <2>1
<1>4. PICK j \in S : \A m \in S : j <= m
  <2> HIDE DEF S
  <2> QED BY <1>3, LeastNatural
<1>5. j \in 0 .. N /\ k < f[j] + w[j] /\ f[j] = (IF j = 0 THEN 0 ELSE f[j - 1] + w[j - 1])
  BY <1>1, <1>4
<1>6. f[j] <= k
  <2>1. CASE j = 0
    BY <1>5, <2>1
  <2>2. CASE j # 0
    <3>1. j - 1 \in 0 .. N /\ j - 1 \notin S
      BY <1>4, <1>5, <2>2
    <3>2. ~(k < f[j - 1] + w[j - 1])
      BY <3>1
    <3>3. f[j - 1] \in Nat /\ w[j - 1] \in Nat
      BY <1>2, <3>1
    <3> QED BY <1>5, <2>2, <3>2, <3>3
  <2> QED BY <2>1, <2>2
<1> QED BY <1>5, <1>6

\* The bags of a cell that come before another one, and its rank in the cell.
HeldBags(j) == {b \in Bags : Holds(b, j)}
Before(b, j) == {b2 \in 0 .. b - 1 : spare_chunks_ids[b2][j] # None}
Rank(b, j) == IF b = id_shared_bag THEN 0 ELSE 1 + Cardinality(Before(b, j))

LEMMA BagsOfCell ==
  ASSUME TilingInv, NEW j \in GridCells
  PROVE  /\ IsFiniteSet(HeldBags(j)) /\ Cardinality(HeldBags(j)) = nb_chunks_per_cell[j]
         /\ \A b \in Bags : IsFiniteSet(Before(b, j)) /\ Cardinality(Before(b, j)) \in Nat /\ Before(b, j) \subseteq HeldBags(j)
<1>1. Bags = 0 .. id_shared_bag /\ id_shared_bag \in Nat
  BY BagNumbers DEF TilingInv
<1>2. IsFiniteSet(Bags)
  BY <1>1, FS_Interval
<1>3. IsFiniteSet(HeldBags(j))
  BY <1>2, FS_Subset DEF HeldBags
<1>4. Cardinality(HeldBags(j)) = nb_chunks_per_cell[j]
  BY DEF TilingInv, PrivateBagsExclusive, HeldBags, Holds
<1>5. ASSUME NEW b \in Bags
      PROVE  IsFiniteSet(Before(b, j)) /\ Cardinality(Before(b, j)) \in Nat /\ Before(b, j) \subseteq HeldBags(j)
  <2>1. Before(b, j) \subseteq HeldBags(j)
    BY <1>1 DEF Before, HeldBags, Holds
  <2> QED BY <1>3, <2>1, FS_Subset, FS_CardinalityType
<1> QED BY <1>3, <1>4, <1>5

\* The ranks follow the order that the comment asks for.
LEMMA RanksOrdered ==
  ASSUME TilingInv, NEW j \in GridCells, NEW b \in HeldBags(j), NEW c \in HeldBags(j), b # c,
         b = id_shared_bag \/ (c # id_shared_bag /\ b < c)
  PROVE  Rank(b, j) < Rank(c, j)
<1>1. b \in Bags /\ c \in Bags /\ Bags = 0 .. id_shared_bag /\ id_shared_bag \in Nat
  BY BagNumbers DEF TilingInv, HeldBags
<1>2. IsFiniteSet(Before(c, j)) /\ Cardinality(Before(b, j)) \in Nat /\ Cardinality(Before(c, j)) \in Nat
  BY <1>1, BagsOfCell
<1>3. CASE b = id_shared_bag
  BY <1>2, <1>3 DEF Rank
<1>4. CASE b # id_shared_bag /\ c # id_shared_bag /\ b < c
  <2>1. Before(b, j) \cup {b} \subseteq Before(c, j) /\ b \notin Before(b, j)
    BY <1>1, <1>4 DEF Before, HeldBags, Holds
  <2>2. IsFiniteSet(Before(b, j))
    BY <1>1, BagsOfCell
  <2>3. Cardinality(Before(b, j) \cup {b}) = Cardinality(Before(b, j)) + 1
    BY <2>1, <2>2, FS_AddElement
  <2>4. Cardinality(Before(b, j) \cup {b}) <= Cardinality(Before(c, j))
    BY <1>2, <2>1, FS_Subset
  <2> QED BY <1>2, <1>4, <2>3, <2>4 DEF Rank
<1> QED BY <1>3, <1>4

\* They are the first natural numbers.
LEMMA RanksContiguous ==
  ASSUME TilingInv, NEW j \in GridCells, Holds(id_shared_bag, j)
  PROVE  {Rank(b, j) : b \in HeldBags(j)} = 0 .. nb_chunks_per_cell[j] - 1
<1> DEFINE H == HeldBags(j)
           I == {Rank(b, j) : b \in H}
           m == nb_chunks_per_cell[j]
<1>1. Bags = 0 .. id_shared_bag /\ id_shared_bag \in Nat /\ id_shared_bag \in H
  BY BagNumbers DEF TilingInv, HeldBags
<1>2. IsFiniteSet(H) /\ Cardinality(H) = m /\ m \in Nat
  BY BagsOfCell DEF TilingInv
<1>3. \A b \in H : b \in Bags
  BY DEF HeldBags
<1>4. I \subseteq 0 .. m - 1
  <2> SUFFICES ASSUME NEW b \in H PROVE Rank(b, j) \in 0 .. m - 1
    OBVIOUS
  <2>1. IsFiniteSet(Before(b, j)) /\ Cardinality(Before(b, j)) \in Nat /\ Before(b, j) \subseteq H
    BY <1>3, BagsOfCell
  <2>2. CASE b = id_shared_bag
    <3>1. {b} \subseteq H /\ Cardinality({b}) = 1
      BY FS_Singleton
    <3>2. 1 <= m
      BY <1>2, <3>1, FS_Subset
    <3> QED BY <1>2, <2>2, <3>2 DEF Rank
  <2>3. CASE b # id_shared_bag
    <3>1. id_shared_bag \notin Before(b, j) /\ b \notin Before(b, j)
      BY <1>1, <1>3 DEF Before
    <3>2. Cardinality(Before(b, j) \cup {b}) = Cardinality(Before(b, j)) + 1 /\ IsFiniteSet(Before(b, j) \cup {b})
      BY <2>1, <3>1, FS_AddElement
    <3>3. Cardinality((Before(b, j) \cup {b}) \cup {id_shared_bag}) = Cardinality(Before(b, j) \cup {b}) + 1
      BY <2>3, <3>1, <3>2, FS_AddElement
    <3>4. (Before(b, j) \cup {b}) \cup {id_shared_bag} \subseteq H
      BY <1>1, <2>1
    <3>5. Cardinality((Before(b, j) \cup {b}) \cup {id_shared_bag}) <= m
      <4> HIDE DEF H
      <4> QED BY <1>2, <3>4, FS_Subset
    <3> QED BY <1>2, <2>1, <2>3, <3>2, <3>3, <3>5 DEF Rank
  <2> QED BY <2>2, <2>3
<1>5. \A b, c \in H : b # c => Rank(b, j) # Rank(c, j)
  <2> SUFFICES ASSUME NEW b \in H, NEW c \in H, b # c PROVE Rank(b, j) # Rank(c, j)
    OBVIOUS
  <2>1. Rank(b, j) \in Int /\ Rank(c, j) \in Int
    BY <1>4
  <2>2. b = id_shared_bag \/ c = id_shared_bag \/ b < c \/ c < b
    BY <1>1, <1>3
  <2>3. Rank(b, j) < Rank(c, j) \/ Rank(c, j) < Rank(b, j)
    BY <2>2, RanksOrdered
  <2> QED BY <2>1, <2>3
<1>6. Cardinality(I) = m
  <2> DEFINE f == [b \in H |-> Rank(b, j)]
  <2>1. f \in Bijection(H, I)
    <3> HIDE DEF H
    <3> QED BY <1>5 DEF Bijection, Injection, Surjection, IsInjective
  <2>2. ExistsBijection(H, I)
    BY <2>1 DEF ExistsBijection
  <2> HIDE DEF H, I
  <2> QED BY <1>2, <2>2, FS_Bijection
<1>7. IsFiniteSet(0 .. m - 1) /\ Cardinality(0 .. m - 1) = m
  <2>1. m - 1 \in Int /\ 0 \in Int
    BY <1>2
  <2>2. IsFiniteSet(0 .. m - 1) /\ Cardinality(0 .. m - 1) = IF 0 > m - 1 THEN 0 ELSE m - 1 - 0 + 1
    BY <2>1, FS_Interval, Zenon
  <2> QED BY <1>2, <2>2
<1> HIDE DEF I, H, m
<1>8. I = 0 .. m - 1
  BY <1>4, <1>6, <1>7, FS_Subset
<1> QED BY <1>8 DEF I, H, m

\* The number of a chunk is the number of the first one of its cell plus its rank there.
LEMMA NumberAndRank ==
  ASSUME TilingInv, NumbersInv, Numbered
  PROVE  /\ Sums(cumulative, LastCell, nb_chunks_per_cell)
         /\ cumulative \in [GridCells -> Nat] /\ nb_chunks_per_cell \in [GridCells -> Nat]
         /\ \A j \in GridCells : \A b \in HeldBags(j) :
              /\ spare_chunks_ids[b][j] = cumulative[j] + Rank(b, j)
              /\ Rank(b, j) \in 0 .. nb_chunks_per_cell[j] - 1
<1>1. LastCell \in Nat /\ 0 \in GridCells
  BY CellsInRow DEF TilingInv
<1>2. spare_chunks_ids[id_shared_bag][0] # Marked
  BY <1>1 DEF Numbered
<1>3. cumulative # <<>> /\ \A j \in GridCells : \A b \in Bags : Holds(b, j) => spare_chunks_ids[b][j] = Number(j, b)
  BY <1>1, <1>2 DEF NumbersInv
<1>4. Sums(cumulative, LastCell, nb_chunks_per_cell)
  BY <1>3 DEF NumbersInv
<1>5. cumulative \in [GridCells -> Nat] /\ nb_chunks_per_cell \in [GridCells -> Nat]
  BY <1>3 DEF TilingInv
<1>6. ASSUME NEW j \in GridCells, NEW b \in HeldBags(j)
      PROVE  /\ spare_chunks_ids[b][j] = cumulative[j] + Rank(b, j)
             /\ Rank(b, j) \in 0 .. nb_chunks_per_cell[j] - 1
  <2>1. b \in Bags /\ Holds(b, j) /\ Holds(id_shared_bag, j)
    BY DEF HeldBags, NumbersInv
  <2>2. Rank(b, j) \in {Rank(c, j) : c \in HeldBags(j)}
    OBVIOUS
  <2>3. Rank(b, j) \in 0 .. nb_chunks_per_cell[j] - 1
    BY <2>1, <2>2, RanksContiguous
  <2>4. cumulative[j] \in Nat /\ Cardinality(Before(b, j)) \in Nat
    BY <1>5, <2>1, BagsOfCell
  <2>5. spare_chunks_ids[b][j] = Number(j, b)
    BY <1>3, <2>1
  <2>6. Number(j, b) = cumulative[j] + Rank(b, j)
    <3>1. CASE b = id_shared_bag
      BY <2>4, <3>1 DEF Number, Rank
    <3>2. CASE b # id_shared_bag
      BY <2>4, <3>2 DEF Number, Rank, Before
    <3> QED BY <3>1, <3>2
  <2> QED BY <2>3, <2>5, <2>6
<1> QED BY <1>4, <1>5, <1>6

\* The chunks of a cell are numbered before those of the next ones.
LEMMA SharesApart ==
  ASSUME TilingInv, NumbersInv, Numbered, NEW i \in GridCells, NEW j \in GridCells, i < j
  PROVE  cumulative[i] + nb_chunks_per_cell[i] <= cumulative[j]
<1>1. LastCell \in Nat /\ GridCells = 0 .. LastCell
  BY CellsInRow DEF TilingInv
<1>2. Sums(cumulative, LastCell, nb_chunks_per_cell) /\ nb_chunks_per_cell \in [GridCells -> Nat]
  BY NumberAndRank
<1> QED BY <1>1, <1>2, SumsMonotone

LEMMA NumbersContiguous ==
  ASSUME TilingInv, NumbersInv, Numbered
  PROVE  {spare_chunks_ids[t[1]][t[2]] : t \in Holders} = 0 .. number_of_spare_chunks_per_parity - 1
<1> DEFINE total == number_of_spare_chunks_per_parity
           Numbers == {spare_chunks_ids[t[1]][t[2]] : t \in Holders}
<1>1. LastCell \in GridCells /\ LastCell \in Nat /\ GridCells = 0 .. LastCell
  BY CellsInRow DEF TilingInv
<1>2. /\ Sums(cumulative, LastCell, nb_chunks_per_cell)
      /\ cumulative \in [GridCells -> Nat] /\ nb_chunks_per_cell \in [GridCells -> Nat]
  BY NumberAndRank
<1>3. total = cumulative[LastCell] + nb_chunks_per_cell[LastCell] /\ total \in Nat
  BY <1>1, <1>2 DEF number_of_spare_chunks_per_parity
<1>4. ASSUME NEW t \in Holders PROVE spare_chunks_ids[t[1]][t[2]] \in 0 .. total - 1
  <2>1. PICK b, j : b = t[1] /\ j = t[2] /\ j \in GridCells /\ b \in HeldBags(j)
    BY DEF Holders, HeldBags, Holds
  <2>2. spare_chunks_ids[b][j] = cumulative[j] + Rank(b, j) /\ Rank(b, j) \in 0 .. nb_chunks_per_cell[j] - 1
    BY <2>1, NumberAndRank
  <2>3. cumulative[j] \in Nat /\ nb_chunks_per_cell[j] \in Nat /\ nb_chunks_per_cell[LastCell] \in Nat
    BY <1>1, <1>2, <2>1
  <2>4. cumulative[j] + nb_chunks_per_cell[j] <= total
    <3>1. CASE j = LastCell
      BY <1>3, <2>3, <3>1
    <3>2. CASE j < LastCell
      <4>1. cumulative[j] + nb_chunks_per_cell[j] <= cumulative[LastCell]
        BY <1>1, <2>1, <3>2, SharesApart
      <4>2. cumulative[LastCell] \in Nat
        BY <1>1, <1>2
      <4> QED BY <1>3, <2>3, <4>1, <4>2
    <3> QED BY <1>1, <2>1, <3>1, <3>2
  <2> HIDE DEF total
  <2>5. spare_chunks_ids[b][j] \in 0 .. total - 1
    BY <1>3, <2>2, <2>3, <2>4
  <2> QED BY <2>1, <2>5
<1>5. ASSUME NEW k \in 0 .. total - 1 PROVE k \in Numbers
  <2>1. k \in Nat /\ k < cumulative[LastCell] + nb_chunks_per_cell[LastCell]
    <3> HIDE DEF total
    <3> QED BY <1>3
  <2>2. PICK j \in GridCells : cumulative[j] <= k /\ k < cumulative[j] + nb_chunks_per_cell[j]
    BY <1>1, <1>2, <2>1, SumsCover
  <2>3. cumulative[j] \in Nat /\ nb_chunks_per_cell[j] \in Nat
    BY <1>2
  <2>4. Holds(id_shared_bag, j)
    BY DEF NumbersInv
  <2>5. k - cumulative[j] \in {Rank(b, j) : b \in HeldBags(j)}
    <3>1. k - cumulative[j] \in 0 .. nb_chunks_per_cell[j] - 1
      BY <2>1, <2>2, <2>3
    <3> QED BY <2>4, <3>1, RanksContiguous
  <2>6. PICK b \in HeldBags(j) : k - cumulative[j] = Rank(b, j)
    BY <2>5
  <2>7. spare_chunks_ids[b][j] = k
    <3>1. spare_chunks_ids[b][j] = cumulative[j] + Rank(b, j)
      BY NumberAndRank
    <3> QED BY <2>1, <2>3, <2>6, <3>1
  <2>8. <<b, j>> \in Holders
    BY DEF Holders, HeldBags, Holds
  <2> QED BY <2>7, <2>8
<1> QED BY <1>4, <1>5

LEMMA NumbersOrdered ==
  ASSUME TilingInv, NumbersInv, Numbered, NEW i \in GridCells, NEW j \in GridCells,
         NEW b \in HeldBags(i), NEW c \in HeldBags(j),
         i < j \/ (i = j /\ b # c /\ (b = id_shared_bag \/ (c # id_shared_bag /\ b < c)))
  PROVE  spare_chunks_ids[b][i] < spare_chunks_ids[c][j]
<1>1. /\ spare_chunks_ids[b][i] = cumulative[i] + Rank(b, i) /\ Rank(b, i) \in 0 .. nb_chunks_per_cell[i] - 1
      /\ spare_chunks_ids[c][j] = cumulative[j] + Rank(c, j) /\ Rank(c, j) \in 0 .. nb_chunks_per_cell[j] - 1
  BY NumberAndRank
<1>2. /\ cumulative[i] \in Nat /\ nb_chunks_per_cell[i] \in Nat
      /\ cumulative[j] \in Nat /\ nb_chunks_per_cell[j] \in Nat
  BY NumberAndRank
<1>3. CASE i < j
  <2>1. cumulative[i] + nb_chunks_per_cell[i] <= cumulative[j]
    BY <1>3, SharesApart
  <2> QED BY <1>1, <1>2, <2>1
<1>4. CASE i = j /\ b # c /\ (b = id_shared_bag \/ (c # id_shared_bag /\ b < c))
  <2>1. Rank(b, i) < Rank(c, j)
    BY <1>4, RanksOrdered
  <2> QED BY <1>1, <1>2, <1>4, <2>1
<1> QED BY <1>3, <1>4

LEMMA IdsOrdered == TilingInv /\ NumbersInv => SpareIdsOrdered
<1> SUFFICES ASSUME TilingInv, NumbersInv, Numbered
             PROVE  /\ {spare_chunks_ids[t[1]][t[2]] : t \in Holders} = 0 .. number_of_spare_chunks_per_parity - 1
                    /\ \A t, u \in Holders :
                         t[2] < u[2] \/ (t[2] = u[2] /\ t # u /\ (t[1] = id_shared_bag \/ (u[1] # id_shared_bag /\ t[1] < u[1])))
                           => spare_chunks_ids[t[1]][t[2]] < spare_chunks_ids[u[1]][u[2]]
  BY DEF SpareIdsOrdered
<1>1. ASSUME NEW t \in Holders, NEW u \in Holders,
             t[2] < u[2] \/ (t[2] = u[2] /\ t # u /\ (t[1] = id_shared_bag \/ (u[1] # id_shared_bag /\ t[1] < u[1])))
      PROVE  spare_chunks_ids[t[1]][t[2]] < spare_chunks_ids[u[1]][u[2]]
  <2>1. t[2] \in GridCells /\ t[1] \in HeldBags(t[2]) /\ u[2] \in GridCells /\ u[1] \in HeldBags(u[2])
    BY DEF Holders, HeldBags, Holds
  <2>2. t = <<t[1], t[2]>> /\ u = <<u[1], u[2]>>
    BY DEF Holders
  <2>3. t[2] = u[2] /\ t # u => t[1] # u[1]
    BY <2>2
  <2> QED BY <1>1, <2>1, <2>3, NumbersOrdered
<1> QED BY <1>1, NumbersContiguous

-----------------------------------------------------------------------------
(* The theorems.                                                            *)

\* Each private bag of a cell is given to one tile, so that a cell never needs more
\* chunks than it has bags, for all meshes, tiles and borders of which the code does
\* not complain: what its warning "Something went wrong with the computation of the
\* bags" is about never happens.
THEOREM PrivateBagsAlwaysExclusive == TilingSpec => []PrivateBagsExclusive
<1>1. TilingInv => PrivateBagsExclusive
  BY DEF TilingInv
<1> QED BY <1>1, TilingInvAtStart, TilingInvKept, PTL DEF TilingSpec

\* The numbers of the spare chunks are those that the "bijection" of the comment
\* must have, for all meshes, tilings and numbers of bags: no gap and no chunk numbered
\* twice, by cell, and in a cell the shared bag first and then the private ones by parity.
THEOREM SpareIdsAlwaysOrdered == TilingSpec => []SpareIdsOrdered
<1> DEFINE Inv == TilingInv /\ NumbersInv
<1>1. TilingInit => Inv
  BY TilingInvAtStart, NumbersInvAtStart
<1>2. Inv /\ [TilingNext]_tilingVars => Inv'
  BY TilingInvKept, NumbersInvKept
<1>3. Inv => SpareIdsOrdered
  BY IdsOrdered
<1> HIDE DEF Inv
<1> QED BY <1>1, <1>2, <1>3, PTL DEF TilingSpec

=============================================================================
