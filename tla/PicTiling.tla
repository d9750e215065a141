----------------------------- MODULE PicTiling -----------------------------
(***************************************************************************)
(* init_all_chunks of the chunk bags (pic/src/particle_type_concurrent_    *)
(* chunkbags_of_soa_3d.c, and _2d3v.c on two axes): which private bags     *)
(* each cell needs, and the numbers of the spare chunks.  The thread that  *)
(* works on a tile pushes without synchronisation in the private bags of   *)
(* the tile and of its borders; with eight private bags per cell, four on  *)
(* two axes, all the tiles may be worked on at once, and the parities of a *)
(* tile select its bag.                                                    *)
(***************************************************************************)
EXTENDS Integers, FiniteSets

CONSTANT Tilings   \* records with the sizes nc, tile_size, border_size and nb_bags_per_cell

\* The borders are tested at the start; the numbers of bags are those of the
\* documentation of the function.
ASSUME TilingAssumption ==
  \A v \in Tilings :
    /\ v.nc \in [1 .. 2 -> Nat \ {0}] \cup [1 .. 3 -> Nat \ {0}]
    /\ v.tile_size \in Nat \ {0}
    /\ v.border_size \in Nat /\ 2 * v.border_size <= v.tile_size
    /\ v.nb_bags_per_cell \in {2, IF DOMAIN v.nc = 1 .. 2 THEN 5 ELSE 9}

VARIABLES
  tiling,          \* the arguments
  tilesLeft,       \* the tiles that the loops have still to visit, by first cell
  nb_chunks_per_cell,
  spare_chunks_ids,  \* by bag and cell: None, Marked (0 in the code), then the number
  cumulative       \* cumulative_nb_chunks_per_cell, after the sums, by cell

tilingVars == <<tiling, tilesLeft, nb_chunks_per_cell, spare_chunks_ids, cumulative>>

Axes == DOMAIN tiling.nc
TwoAxes == Axes = 1 .. 2
nc(a) == tiling.nc[a]
tile_size == tiling.tile_size
CellIndex2d(p) == p[1] * nc(2) + p[2]
CellIndex(p) == IF TwoAxes THEN CellIndex2d(p) ELSE CellIndex2d(p) * nc(3) + p[3]
CoordinatesOf(j) ==
  IF TwoAxes THEN <<j \div nc(2), j % nc(2)>>
  ELSE <<j \div (nc(2) * nc(3)), (j \div nc(3)) % nc(2), j % nc(3)>>
LastCell == CellIndex([a \in Axes |-> nc(a) - 1])
GridCells == 0 .. LastCell
Bags == 0 .. tiling.nb_bags_per_cell - 1
id_shared_bag == tiling.nb_bags_per_cell - 1
None == -1
Marked == -2

\* Contour tiles have no border when the tiling is not perfect.
is_even(x) == x % 2 = 0
nb_full_tiles(a) == nc(a) \div tile_size
is_perfect_tiling(a) == nc(a) % tile_size = 0 /\ is_even(nb_full_tiles(a))

\* Faulty: the last tile is always taken as the one that may overlap the first.
LastTile(a) == nb_full_tiles(a) * tile_size

start_tile_without_borders(a) ==
  IF is_even(nb_full_tiles(a)) THEN nb_full_tiles(a) * tile_size ELSE (nb_full_tiles(a) - 1) * tile_size

lower_border(a, lo) == IF ~is_perfect_tiling(a) /\ lo = 0 THEN 0 ELSE tiling.border_size
upper_border(a, lo) ==
  IF ~is_perfect_tiling(a) /\ lo = start_tile_without_borders(a) THEN 0 ELSE tiling.border_size

Smaller(x, y) == IF x < y THEN x ELSE y
Span(a, lo) == lo - lower_border(a, lo) .. Smaller(lo + tile_size - 1, nc(a) - 1) + upper_border(a, lo)

\* How many iterations of the loops on a tile and its borders reach a cell.
TimesOnAxis(tile, p, a) == Cardinality({x \in Span(a, tile[a]) : x % nc(a) = p[a]})
Reaches2d(tile, p) == TimesOnAxis(tile, p, 1) * TimesOnAxis(tile, p, 2)
Reaches(tile, p) == IF TwoAxes THEN Reaches2d(tile, p) ELSE Reaches2d(tile, p) * TimesOnAxis(tile, p, 3)

Odd(tile, a) == IF tile[a] % (2 * tile_size) # 0 THEN 1 ELSE 0
id_private_bag2d(tile) == Odd(tile, 1) + 2 * Odd(tile, 2)
id_private_bag(tile) == IF TwoAxes THEN id_private_bag2d(tile) ELSE id_private_bag2d(tile) + 4 * Odd(tile, 3)

Tiles == {p \in {CoordinatesOf(j) : j \in GridCells} : \A a \in Axes : p[a] % tile_size = 0}

-----------------------------------------------------------------------------
\* The shared bag of every cell needs a chunk; with the colouring scheme every
\* cell has one private bag, else the loops on the tiles say which it has.
MarkBags ==
  /\ IF tiling.nb_bags_per_cell = 2
     THEN /\ tilesLeft = {}
          /\ nb_chunks_per_cell = [j \in GridCells |-> 2]
          /\ spare_chunks_ids = [b \in Bags |-> [j \in GridCells |-> Marked]]
     ELSE /\ tilesLeft = Tiles
          /\ nb_chunks_per_cell = [j \in GridCells |-> 1]
          /\ spare_chunks_ids = [b \in Bags |-> [j \in GridCells |-> IF b = id_shared_bag THEN Marked ELSE None]]
  /\ cumulative = <<>>
MarkBags2d == TwoAxes /\ MarkBags
MarkBags3d == ~TwoAxes /\ MarkBags
TilingInit == tiling \in Tilings /\ (MarkBags2d \/ MarkBags3d)

VisitTile ==
  /\ tilesLeft # {}
  /\ LET tile == CHOOSE t \in tilesLeft : \A u \in tilesLeft : CellIndex(t) <= CellIndex(u)
         times == [j \in GridCells |-> Reaches(tile, CoordinatesOf(j))]
     IN  /\ nb_chunks_per_cell' = [j \in GridCells |-> nb_chunks_per_cell[j] + times[j]]
         /\ spare_chunks_ids' = [spare_chunks_ids EXCEPT ![id_private_bag(tile)] =
                                   [j \in GridCells |-> IF times[j] > 0 THEN Marked ELSE @[j]]]
         /\ tilesLeft' = tilesLeft \ {tile}
  /\ UNCHANGED <<tiling, cumulative>>

\* Number of the first chunk of each cell.
SumOfChunks ==
  /\ tilesLeft = {} /\ cumulative = <<>>
  /\ LET upto[j \in GridCells] == IF j = 0 THEN 0 ELSE upto[j - 1] + nb_chunks_per_cell[j - 1]
     IN  cumulative' = upto
  /\ UNCHANGED <<tiling, tilesLeft, nb_chunks_per_cell, spare_chunks_ids>>

\* Faulty: the private bags are numbered from the number of the shared one.
NumberWithoutStep(j, b) ==
  IF b = id_shared_bag THEN cumulative[j]
  ELSE cumulative[j] + Cardinality({b2 \in 0 .. b - 1 : spare_chunks_ids[b2][j] # None})

number_of_spare_chunks_per_parity == cumulative[LastCell] + nb_chunks_per_cell[LastCell]

\* The shared bag comes first, then the private bags that the cell has.
Number(j, b) ==
  IF b = id_shared_bag THEN cumulative[j]
  ELSE cumulative[j] + 1 + Cardinality({b2 \in 0 .. b - 1 : spare_chunks_ids[b2][j] # None})

Numbered == \A j \in GridCells : spare_chunks_ids[id_shared_bag][j] # Marked
NumberChunks ==
  /\ cumulative # <<>> /\ ~Numbered
  /\ spare_chunks_ids' = [b \in Bags |-> [j \in GridCells |->
                            IF spare_chunks_ids[b][j] = None THEN None ELSE Number(j, b)]]
  /\ UNCHANGED <<tiling, tilesLeft, nb_chunks_per_cell, cumulative>>

\* The same loops, on two axes and on three.
TilingStep == VisitTile \/ SumOfChunks \/ NumberChunks
InitAllChunks2d == TwoAxes /\ TilingStep
InitAllChunks3d == ~TwoAxes /\ TilingStep
TilingNext == InitAllChunks2d \/ InitAllChunks3d
TilingSpec == TilingInit /\ [][TilingNext]_tilingVars

-----------------------------------------------------------------------------
\* Two tiles never share a private bag of a cell, also across the periodic ends
\* of the mesh and when the tiling is not perfect: each iteration of the loops
\* finds a bag that no tile has yet.  The code only prints "Something went wrong
\* with the computation of the bags" if a cell gets more chunks than bags.
PrivateBagsExclusive ==
  \A j \in GridCells : nb_chunks_per_cell[j] = Cardinality({b \in Bags : spare_chunks_ids[b][j] # None})

\* The numbers of the chunks are those that "this bijection" must have: without
\* gaps, ordered by cell, and in a cell the shared bag first and then by bag.
Holders == {t \in Bags \X GridCells : spare_chunks_ids[t[1]][t[2]] # None}
SpareIdsOrdered ==
  Numbered =>
    /\ {spare_chunks_ids[t[1]][t[2]] : t \in Holders} = 0 .. number_of_spare_chunks_per_parity - 1
    /\ \A t, u \in Holders :
         t[2] < u[2] \/ (t[2] = u[2] /\ t # u /\ (t[1] = id_shared_bag \/ (u[1] # id_shared_bag /\ t[1] < u[1])))
           => spare_chunks_ids[t[1]][t[2]] < spare_chunks_ids[u[1]][u[2]]

=============================================================================
