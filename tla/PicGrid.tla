------------------------------ MODULE PicGrid ------------------------------
(***************************************************************************)
(* Geometry of the particle-in-cell simulations of case_studies/pic: cells *)
(* of a periodic mesh, the tiles a thread works on, their colours, and the *)
(* cells around a tile whose private bags the thread may fill without      *)
(* synchronisation.  Everything is computed axis by axis, as in the code.  *)
(***************************************************************************)
EXTENDS Integers, FiniteSets, FiniteSetsExt

CONSTANTS
  ncx, ncy, ncz,      \* number of cells on each axis
  OMP_TILE_SIZE       \* edge of a cubic tile

\* The masks "& ncxminusone" compute a modulo only on powers of two.
IsPowerOfTwo(n) == \E k \in 0 .. n : n = 2 ^ k

ASSUME GridAssumption ==
  /\ \A n \in {ncx, ncy, ncz} : n \in Nat \ {0} /\ IsPowerOfTwo(n)
  /\ OMP_TILE_SIZE \in Nat \ {0}

NumCells == ncx * ncy * ncz
Cells == 0 .. NumCells - 1

\* COMPUTE_I_CELL_3D for a row-major order, and the coordinates of a cell.
CellOf(x, y, z) == (x * ncy + y) * ncz + z
CellX(j) == (j \div ncz) \div ncy
CellY(j) == (j \div ncz) % ncy
CellZ(j) == j % ncz

\* Destination of a particle of cell j that moves by d cells on each axis:
\* the masks bring coordinates out of the mesh, negative ones too, back in it.
Shift(j, d) ==
  CellOf((CellX(j) + d[1]) % ncx, (CellY(j) + d[2]) % ncy, (CellZ(j) + d[3]) % ncz)

-----------------------------------------------------------------------------
\* Tiles, named by their first cell on each axis.

\* Faulty: borders that reach the middle of an odd tile from both sides.
BordersRoundedUp == (OMP_TILE_SIZE + 1) \div 2

OMP_TILE_BORDERS == OMP_TILE_SIZE \div 2

LastOfTile(lo, n) == IF lo + OMP_TILE_SIZE - 1 <= n - 1 THEN lo + OMP_TILE_SIZE - 1 ELSE n - 1

Colors == 0 .. 7
TileStarts(parity, n) == {lo \in 0 .. n - 1 : lo % (2 * OMP_TILE_SIZE) = parity * OMP_TILE_SIZE}

TilesOfColor(color) ==
  TileStarts(color % 2, ncx) \X TileStarts((color \div 2) % 2, ncy) \X TileStarts((color \div 4) % 2, ncz)

CellsOfTile(tile) ==
  {j \in Cells : /\ CellX(j) \in tile[1] .. LastOfTile(tile[1], ncx)
                 /\ CellY(j) \in tile[2] .. LastOfTile(tile[2], ncy)
                 /\ CellZ(j) \in tile[3] .. LastOfTile(tile[3], ncz)}

\* The tile of a cell and its colour.
TileOfCell == [j \in Cells |->
  <<CellX(j) - (CellX(j) % OMP_TILE_SIZE), CellY(j) - (CellY(j) % OMP_TILE_SIZE), CellZ(j) - (CellZ(j) % OMP_TILE_SIZE)>>]
ColorOfCell == [j \in Cells |-> CHOOSE color \in Colors : TileOfCell[j] \in TilesOfColor(color)]

\* One axis of the test that chooses between the private and the shared bag.
NearTileOnAxis(ic, lo, n) ==
  LET hi == LastOfTile(lo, n) IN
  \/ ic >= lo - OMP_TILE_BORDERS /\ ic <= hi + OMP_TILE_BORDERS
  \/ lo = 0 /\ ic >= n - OMP_TILE_BORDERS
  \/ hi = n - 1 /\ ic <= OMP_TILE_BORDERS - 1

InPrivateRegion(tile, j) ==
  /\ NearTileOnAxis(CellX(j), tile[1], ncx)
  /\ NearTileOnAxis(CellY(j), tile[2], ncy)
  /\ NearTileOnAxis(CellZ(j), tile[3], ncz)

\* Static schedule of n iterations: consecutive ones, one block per thread.
StaticBlock(t, nbThreads, n) ==
  LET q == n \div nbThreads
      r == n % nbThreads
      first == t * q + (IF t < r THEN t ELSE r)
  IN  first .. first + q - (IF t < r THEN 0 ELSE 1)

=============================================================================
