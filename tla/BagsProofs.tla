----------------------------- MODULE BagsProofs -----------------------------
(***************************************************************************)
(* The threads and the chunks of the parallel simulation.  The colours, the *)
(* tiles and their borders keep two threads from pushing without            *)
(* synchronisation into one bag; no chunk is ever in two lists, none is     *)
(* lost, none is written while it is free, for every mesh, every number of  *)
(* threads and every schedule of the steps of the pushes.                   *)
(***************************************************************************)
EXTENDS PicBarsamian, FiniteSetTheorems, TLAPS

\* On each axis the tiles go in pairs of two parities, or there is one pair.
\* The numbers of cells are powers of two: any tile size that is one will do.
EvenTiling ==
  \A n \in {ncx, ncy, ncz} : n <= 2 * OMP_TILE_SIZE \/ n % (2 * OMP_TILE_SIZE) = 0

-----------------------------------------------------------------------------
(* The threads: the inductive invariant.                                    *)

\* The registers of a thread are those of a push and of a tile.
PushFields == {"pc", "kind", "cell", "p", "c", "index"}
LoopFields == {"tile", "j", "todo", "my_chunk", "i"}
PushShape(r) == r = [field \in PushFields |-> r[field]]
LoopShape(r) == r = [field \in LoopFields |-> r[field]]

RegistersInv ==
  /\ push = [t \in Threads |-> push[t]] /\ \A t \in Threads : PushShape(push[t])
  /\ loop = [t \in Threads |-> loop[t]] /\ \A t \in Threads : LoopShape(loop[t])

\* Each tile of the colour is left to one thread, or visited by one, at most.
TilesInv ==
  /\ i_color \in Colors
  /\ tiles \in [Threads -> SUBSET TilesOfColor(i_color)]
  /\ \A t \in Threads : Working(t) => phase = "move" /\ loop[t].tile \in TilesOfColor(i_color)
  /\ \A t, u \in Threads :
       t # u => /\ tiles[t] \cap tiles[u] = {}
                /\ Working(t) => loop[t].tile \notin tiles[u]
                /\ Working(t) /\ Working(u) => loop[t].tile # loop[u].tile

\* A thread that pushes works on a tile, whose private region has the cell.
PushInv ==
  \A t \in Threads :
    ~Idle(t) => /\ Working(t)
                /\ push[t].cell \in Cells
                /\ push[t].kind = ID_PRIVATE_BAG => InPrivateRegion(loop[t].tile, push[t].cell)

PInv == RegistersInv /\ TilesInv /\ PushInv


-----------------------------------------------------------------------------
(* Geometry.                                                                *)

LEMMA TileSize == OMP_TILE_SIZE \in Nat /\ OMP_TILE_SIZE > 0
BY GridAssumption

LEMMA MeshSizes ==
  /\ ncx \in Nat /\ ncx > 0
  /\ ncy \in Nat /\ ncy > 0
  /\ ncz \in Nat /\ ncz > 0
<1>1. \A n \in {ncx, ncy, ncz} : n \in Nat \ {0}
  BY GridAssumption, Zenon
<1> QED BY <1>1

LEMMA Coordinates ==
  ASSUME NEW j \in Cells
  PROVE  CellX(j) \in Int /\ CellY(j) \in Int /\ CellZ(j) \in Int
<1>1. j \in Int
  BY DEF Cells
<1>2. j \div ncz \in Int
  BY <1>1, MeshSizes
<1> QED BY <1>1, <1>2, MeshSizes DEF CellX, CellY, CellZ

\* Two tiles of one parity are two tile sizes apart, and the last of them is
\* followed by the end of its pair.
LEMMA TilesApart ==
  ASSUME NEW n \in Nat, n <= 2 * OMP_TILE_SIZE \/ n % (2 * OMP_TILE_SIZE) = 0,
         NEW parity \in {0, 1}, NEW lo \in TileStarts(parity, n), NEW hi \in TileStarts(parity, n), lo < hi
  PROVE  /\ hi - lo >= 2 * OMP_TILE_SIZE
         /\ hi - parity * OMP_TILE_SIZE + 2 * OMP_TILE_SIZE <= n
<1> DEFINE D == 2 * OMP_TILE_SIZE
<1>1. D \in Nat /\ D > 0 /\ parity \in Nat /\ parity * OMP_TILE_SIZE \in Nat /\ parity * OMP_TILE_SIZE < D
  BY TileSize
<1> DEFINE off == parity * OMP_TILE_SIZE
<1>2. lo \in 0..(n - 1) /\ hi \in 0..(n - 1) /\ lo % D = off /\ hi % D = off
  BY DEF TileStarts
<1>3. n % D = 0 \/ n <= D
  OBVIOUS
<1> HIDE DEF D, off
<1>4. /\ lo = D * (lo \div D) + off /\ lo \div D \in Int
      /\ hi = D * (hi \div D) + off /\ hi \div D \in Int
  BY <1>1, <1>2
<1>5. lo \div D + 1 <= hi \div D
  <2> SUFFICES ASSUME hi \div D <= lo \div D PROVE FALSE
    BY <1>4
  <2>1. D * (hi \div D) <= D * (lo \div D)
    BY <1>1, <1>4
  <2> QED BY <2>1, <1>4, <1>1, <1>2 DEF off
<1>6. D * (lo \div D) + D <= D * (hi \div D)
  BY <1>5, <1>4, <1>1
<1>7. hi - lo >= D
  BY <1>6, <1>4, <1>2, <1>1 DEF off
<1>8. n % D = 0
  BY <1>7, <1>3, <1>2, <1>1
<1>9. n = D * (n \div D) /\ n \div D \in Int
  BY <1>8, <1>1
<1>10. hi \div D + 1 <= n \div D
  <2> SUFFICES ASSUME n \div D <= hi \div D PROVE FALSE
    BY <1>4, <1>9
  <2>1. D * (n \div D) <= D * (hi \div D)
    BY <1>1, <1>4, <1>9
  <2> QED BY <2>1, <1>9, <1>4, <1>1, <1>2 DEF off
<1>11. D * (hi \div D) + D <= n
  BY <1>10, <1>9, <1>4, <1>1
<1>12. hi - off + D <= n
  BY <1>11, <1>4, <1>1, <1>2 DEF off
<1> QED BY <1>7, <1>12 DEF D, off

\* The cells that one of them may reach on the axis are out of reach of the other.
LEMMA ReachesApart ==
  ASSUME NEW n \in Nat, n <= 2 * OMP_TILE_SIZE \/ n % (2 * OMP_TILE_SIZE) = 0,
         NEW parity \in {0, 1}, NEW lo \in TileStarts(parity, n), NEW hi \in TileStarts(parity, n), lo < hi,
         NEW ic \in Int
  PROVE  ~(NearTileOnAxis(ic, lo, n) /\ NearTileOnAxis(ic, hi, n))
<1> DEFINE T == OMP_TILE_SIZE  B == OMP_TILE_BORDERS
<1>1. T \in Nat /\ T > 0 /\ B \in Nat /\ 2 * B <= T
  BY TileSize DEF OMP_TILE_BORDERS
<1>2. lo \in 0..(n - 1) /\ hi \in 0..(n - 1)
  BY DEF TileStarts
<1>3. hi - lo >= 2 * T /\ hi - parity * T + 2 * T <= n
  BY TilesApart
<1>4. parity * T = 0 \/ parity * T = T
  BY <1>1
<1>5. lo >= parity * T
  <2>1. lo % (2 * T) = parity * T
    BY DEF TileStarts
  <2> QED BY <2>1, <1>1, <1>2, <1>4
<1>6. LastOfTile(lo, n) = lo + T - 1 /\ LastOfTile(hi, n) = hi + T - 1
  BY <1>1, <1>2, <1>3, <1>4 DEF LastOfTile
<1>7. ASSUME NearTileOnAxis(ic, lo, n), NearTileOnAxis(ic, hi, n) PROVE FALSE
  <2>1. \/ ic >= lo - B /\ ic <= lo + T - 1 + B
        \/ lo = 0 /\ ic >= n - B
        \/ lo + T - 1 = n - 1 /\ ic <= B - 1
    BY <1>6, <1>7 DEF NearTileOnAxis
  <2>2. \/ ic >= hi - B /\ ic <= hi + T - 1 + B
        \/ hi = 0 /\ ic >= n - B
        \/ hi + T - 1 = n - 1 /\ ic <= B - 1
    BY <1>6, <1>7 DEF NearTileOnAxis
  <2> HIDE DEF T, B
  <2>3. CASE parity * T = 0
    BY <2>1, <2>2, <2>3, <1>1, <1>2, <1>3, <1>5
  <2>4. CASE parity * T = T
    BY <2>1, <2>2, <2>4, <1>1, <1>2, <1>3, <1>5
  <2> QED BY <2>3, <2>4, <1>4
<1> QED BY <1>7

\* Two tiles of a colour have no cell in common in their private regions.
LEMMA RegionsApart ==
  ASSUME EvenTiling, NEW color \in Colors, NEW s \in TilesOfColor(color), NEW t \in TilesOfColor(color), s # t,
         NEW j \in Cells
  PROVE  ~(InPrivateRegion(s, j) /\ InPrivateRegion(t, j))
<1> DEFINE SameParity(n, parity, lo, hi, ic) ==
             /\ n \in {ncx, ncy, ncz} /\ parity \in {0, 1}
             /\ lo \in TileStarts(parity, n) /\ hi \in TileStarts(parity, n)
             /\ ic \in Int
             /\ NearTileOnAxis(ic, lo, n) /\ NearTileOnAxis(ic, hi, n)
<1>1. ASSUME NEW n, NEW parity, NEW lo, NEW hi, NEW ic, SameParity(n, parity, lo, hi, ic) PROVE lo = hi
  <2>1. n \in Nat /\ (n <= 2 * OMP_TILE_SIZE \/ n % (2 * OMP_TILE_SIZE) = 0)
    BY <1>1, GridAssumption DEF EvenTiling
  <2>2. lo \in Int /\ hi \in Int
    BY <1>1 DEF TileStarts
  <2>3. ~(lo < hi)
    BY <1>1, <2>1, ReachesApart
  <2>4. ~(hi < lo)
    BY <1>1, <2>1, ReachesApart
  <2> QED BY <2>2, <2>3, <2>4
<1>2. color % 2 \in {0, 1} /\ (color \div 2) % 2 \in {0, 1} /\ (color \div 4) % 2 \in {0, 1}
  BY DEF Colors
<1>3. CellX(j) \in Int /\ CellY(j) \in Int /\ CellZ(j) \in Int
  BY Coordinates
<1>4. ASSUME InPrivateRegion(s, j), InPrivateRegion(t, j) PROVE FALSE
  <2>1. SameParity(ncx, color % 2, s[1], t[1], CellX(j))
    BY <1>2, <1>3, <1>4 DEF InPrivateRegion, TilesOfColor
  <2>2. SameParity(ncy, (color \div 2) % 2, s[2], t[2], CellY(j))
    BY <1>2, <1>3, <1>4 DEF InPrivateRegion, TilesOfColor
  <2>3. SameParity(ncz, (color \div 4) % 2, s[3], t[3], CellZ(j))
    BY <1>2, <1>3, <1>4 DEF InPrivateRegion, TilesOfColor
  <2> HIDE DEF SameParity
  <2>4. s[1] = t[1]
    BY <2>1, <1>1
  <2>5. s[2] = t[2]
    BY <2>2, <1>1
  <2>6. s[3] = t[3]
    BY <2>3, <1>1
  <2> QED BY <2>4, <2>5, <2>6 DEF TilesOfColor
<1> QED BY <1>4

\* The destination of a particle is a cell, on either side of the mesh: Destinations
\* has all of them.
LEMMA ShiftInMesh ==
  ASSUME NEW j \in Cells, NEW d \in Int \X Int \X Int
  PROVE  Shift(j, d) \in Cells
<1>1. ncx \in Nat /\ ncx > 0 /\ ncy \in Nat /\ ncy > 0 /\ ncz \in Nat /\ ncz > 0
  BY MeshSizes
<1>2. CellX(j) \in Int /\ CellY(j) \in Int /\ CellZ(j) \in Int
  BY Coordinates
<1> DEFINE x == (CellX(j) + d[1]) % ncx
           y == (CellY(j) + d[2]) % ncy
           z == (CellZ(j) + d[3]) % ncz
<1>3. x \in 0..(ncx - 1) /\ y \in 0..(ncy - 1) /\ z \in 0..(ncz - 1)
  BY <1>1, <1>2
<1> HIDE DEF x, y, z
<1>4. x * ncy + y \in 0..(ncx * ncy - 1)
  <2>1. x * ncy >= 0 /\ x * ncy \in Int
    BY <1>1, <1>3
  <2>2. (x + 1) * ncy <= ncx * ncy
    BY <1>1, <1>3
  <2>3. (x + 1) * ncy = x * ncy + ncy
    BY <1>1, <1>3
  <2> QED BY <2>1, <2>2, <2>3, <1>1, <1>3
<1> DEFINE w == x * ncy + y
           m == ncx * ncy
<1> HIDE DEF w, m
<1>5. w \in 0..(m - 1) /\ m \in Nat
  BY <1>1, <1>4 DEF w, m
<1>6. w * ncz + z \in 0..(m * ncz - 1)
  <2>1. w * ncz >= 0 /\ w * ncz \in Int
    BY <1>1, <1>5
  <2>2. (w + 1) * ncz <= m * ncz
    BY <1>1, <1>5
  <2>3. (w + 1) * ncz = w * ncz + ncz
    BY <1>1, <1>5
  <2> QED BY <2>1, <2>2, <2>3, <1>1, <1>3, <1>5
<1>7. Shift(j, d) = w * ncz + z
  BY DEF Shift, CellOf, w, x, y, z
<1> QED BY <1>6, <1>7 DEF Cells, NumCells, m

\* A static schedule gives an iteration to one thread.
LEMMA BlocksApart ==
  ASSUME NEW n \in Nat, NEW t \in Threads, NEW u \in Threads, t # u
  PROVE  StaticBlock(t, NbThreads, n) \cap StaticBlock(u, NbThreads, n) = {}
<1> DEFINE q == n \div NbThreads
           r == n % NbThreads
           First(x) == x * q + (IF x < r THEN x ELSE r)
           Beyond(x) == First(x) + q + (IF x < r THEN 1 ELSE 0)
<1>1. NbThreads \in Nat /\ NbThreads > 0 /\ q \in Nat /\ r \in Nat
  BY ChunkAssumption
<1>2. \A x \in Threads : x \in Nat /\ x * q \in Nat
  BY <1>1 DEF Threads
<1> HIDE DEF q, r
<1>3. ASSUME NEW x \in Threads, NEW y \in Threads, x < y
      PROVE  Beyond(x) <= First(y)
  <2>1. x * q + q <= y * q
    <3>1. (x + 1) * q <= y * q
      BY <1>1, <1>2, <1>3
    <3>2. (x + 1) * q = x * q + q
      BY <1>1, <1>2
    <3> QED BY <3>1, <3>2
  <2> QED BY <2>1, <1>1, <1>2, <1>3
<1>4. \A x \in Threads : First(x) \in Int /\ Beyond(x) \in Int
  BY <1>1, <1>2
<1>5. \A x \in Threads : StaticBlock(x, NbThreads, n) = First(x)..(Beyond(x) - 1)
  <2> TAKE x \in Threads
  <2>1. StaticBlock(x, NbThreads, n) = First(x)..(First(x) + q - (IF x < r THEN 0 ELSE 1))
    BY DEF StaticBlock, q, r
  <2>2. First(x) + q - (IF x < r THEN 0 ELSE 1) = Beyond(x) - 1
    <3> HIDE DEF First
    <3>1. First(x) \in Int
      BY <1>4
    <3> QED BY <3>1, <1>1
  <2> HIDE DEF First, Beyond
  <2> QED BY <2>1, <2>2
<1> HIDE DEF First, Beyond
<1>6. t < u \/ u < t
  BY <1>2
<1>7. CASE t < u
  BY <1>7, <1>3, <1>4, <1>5
<1>8. CASE u < t
  BY <1>8, <1>3, <1>4, <1>5
<1> QED BY <1>6, <1>7, <1>8

LEMMA TilesFinite ==
  ASSUME NEW color \in Colors
  PROVE  IsFiniteSet(TilesOfColor(color)) /\ Cardinality(TilesOfColor(color)) \in Nat
<1>1. \A n \in {ncx, ncy, ncz}, parity \in Int : IsFiniteSet(TileStarts(parity, n))
  <2> TAKE n \in {ncx, ncy, ncz}, parity \in Int
  <2>1. n \in Nat
    BY GridAssumption
  <2>2. IsFiniteSet(0..(n - 1))
    BY <2>1, FS_Interval
  <2>3. TileStarts(parity, n) \subseteq 0..(n - 1)
    BY DEF TileStarts
  <2> QED BY <2>2, <2>3, FS_Subset
<1>2. color % 2 \in Int /\ (color \div 2) % 2 \in Int /\ (color \div 4) % 2 \in Int
  BY DEF Colors
<1> DEFINE A == TileStarts(color % 2, ncx)
           B == TileStarts((color \div 2) % 2, ncy)
           C == TileStarts((color \div 4) % 2, ncz)
<1>3. IsFiniteSet(A) /\ IsFiniteSet(B) /\ IsFiniteSet(C)
  BY <1>1, <1>2
<1> HIDE DEF A, B, C
<1>4. IsFiniteSet(B \X C)
  BY <1>3, FS_Product
<1>5. IsFiniteSet(A \X (B \X C))
  BY <1>3, <1>4, FS_Product
<1>6. IsFiniteSet(A \X B \X C)
  <2> DEFINE f == [p \in A \X (B \X C) |-> <<p[1], p[2][1], p[2][2]>>]
  <2>1. f \in Surjection(A \X (B \X C), A \X B \X C)
    <3>1. \A y \in A \X B \X C : \E p \in A \X (B \X C) : f[p] = y
      <4> TAKE y \in A \X B \X C
      <4>1. <<y[1], <<y[2], y[3]>>>> \in A \X (B \X C)
        OBVIOUS
      <4>2. f[<<y[1], <<y[2], y[3]>>>>] = y
        BY <4>1
      <4> QED BY <4>1, <4>2
    <3>2. f \in [A \X (B \X C) -> A \X B \X C]
      OBVIOUS
    <3> QED BY <3>1, <3>2, Zenon DEF Surjection
  <2> QED BY <2>1, <1>5, FS_Surjection, Zenon
<1>7. IsFiniteSet(TilesOfColor(color))
  BY <1>6 DEF TilesOfColor, A, B, C
<1> QED BY <1>7, FS_CardinalityType

\* Each thread has tiles of its own, all of the colour.
LEMMA TilesShared ==
  ASSUME NEW color \in Colors
  PROVE  /\ TileBlocks(color) \in [Threads -> SUBSET TilesOfColor(color)]
         /\ \A t, u \in Threads : t # u => TileBlocks(color)[t] \cap TileBlocks(color)[u] = {}
<1>1. Cardinality(TilesOfColor(color)) \in Nat
  BY TilesFinite
<1>2. ASSUME NEW t \in Threads, NEW u \in Threads, t # u
      PROVE  TileBlocks(color)[t] \cap TileBlocks(color)[u] = {}
  <2> DEFINE n == Cardinality(TilesOfColor(color))
  <2>1. StaticBlock(t, NbThreads, n) \cap StaticBlock(u, NbThreads, n) = {}
    BY <1>1, <1>2, BlocksApart
  <2> QED BY <2>1 DEF TileBlocks
<1>3. TileBlocks(color) \in [Threads -> SUBSET TilesOfColor(color)]
  BY DEF TileBlocks
<1> QED BY <1>2, <1>3

-----------------------------------------------------------------------------
(* The threads: the steps of the program.                                   *)

LEMMA PInvAtStart == Init => PInv
<1> SUFFICES ASSUME Init PROVE PInv
  OBVIOUS
<1>1. push = [t \in Threads |-> NoPush] /\ loop = [t \in Threads |-> NoTile] /\ tiles = NoTiles /\ i_color = 0
  BY DEF Init
<1>2. \A t \in Threads : ~Working(t) /\ Idle(t)
  BY <1>1 DEF Working, NoTile, Idle, NoPush
<1>3. RegistersInv
  BY <1>1 DEF RegistersInv, PushShape, PushFields, LoopShape, LoopFields, NoPush, NoTile
<1>4. TilesInv
  BY <1>1, <1>2 DEF TilesInv, NoTiles, Colors
<1>5. PushInv
  BY <1>2 DEF PushInv
<1> QED BY <1>3, <1>4, <1>5 DEF PInv

\* The steps of the program that leave the tiles and the pushes alone.
LEMMA OtherStep ==
  ASSUME PInv, UNCHANGED <<push, loop, tiles, i_color>>, phase = "move" => UNCHANGED phase
  PROVE  PInv'
<1>1. RegistersInv'
  BY DEF PInv, RegistersInv
<1>2. TilesInv'
  BY DEF PInv, TilesInv, Working
<1>3. PushInv'
  BY DEF PInv, PushInv, Working, Idle
<1> QED BY <1>1, <1>2, <1>3 DEF PInv

\* While no thread visits a tile, the tiles of a colour are dealt out.
LEMMA DealTiles ==
  ASSUME PInv, UNCHANGED <<push, loop>>, \A t \in Threads : ~Working(t),
         NEW color \in Colors, i_color' = color, tiles' = TileBlocks(color)
  PROVE  PInv'
<1>1. RegistersInv'
  BY DEF PInv, RegistersInv
<1>2. \A t \in Threads : ~Working(t)'
  BY DEF Working
<1>3. TilesInv'
  BY <1>2, TilesShared DEF TilesInv
<1>4. PushInv'
  BY DEF PInv, PushInv, Working, Idle
<1> QED BY <1>1, <1>3, <1>4 DEF PInv

LEMMA NobodyWorks ==
  ASSUME PInv, phase # "move"
  PROVE  \A t \in Threads : ~Working(t)
BY DEF PInv, TilesInv

LEMMA LoopStart ==
  ASSUME PInv, phase # "move", UNCHANGED <<push, loop>>, NEW time, StartLoop(time)
  PROVE  PInv'
<1>1. CASE time < num_iteration
  <2>1. i_color' = 0 /\ tiles' = TileBlocks(0) /\ 0 \in Colors
    BY <1>1 DEF StartLoop, Colors
  <2> QED BY <2>1, DealTiles, NobodyWorks
<1>2. CASE ~(time < num_iteration)
  <2>1. UNCHANGED <<push, loop, tiles, i_color>>
    BY <1>2 DEF StartLoop
  <2> QED BY <2>1, OtherStep
<1> QED BY <1>1, <1>2

LEMMA NextColorStep ==
  ASSUME PInv, NextColor
  PROVE  PInv'
<1>1. UNCHANGED <<push, loop>> /\ \A t \in Threads : ~Working(t)
  BY DEF NextColor, ColorDone, bagVars
<1>2. CASE i_color < Max(Colors)
  <2>1. i_color \in Colors
    BY DEF PInv, TilesInv
  <2>2. Max(Colors) \in Colors
    <3>1. \A x \in Colors : 7 >= x
      BY DEF Colors
    <3>2. 7 \in Colors
      BY DEF Colors
    <3> QED BY <3>1, <3>2 DEF Max
  <2>3. i_color + 1 \in Colors
    BY <1>2, <2>1, <2>2 DEF Colors
  <2>4. i_color' = i_color + 1 /\ tiles' = TileBlocks(i_color + 1)
    BY <1>2 DEF NextColor
  <2> QED BY <1>1, <2>3, <2>4, DealTiles
<1>3. CASE ~(i_color < Max(Colors))
  <2>1. UNCHANGED <<i_color, tiles>>
    BY <1>3 DEF NextColor
  <2>2. RegistersInv'
    BY <1>1 DEF PInv, RegistersInv
  <2>3. \A t \in Threads : ~Working(t)'
    BY <1>1 DEF Working
  <2>4. TilesInv'
    BY <2>1, <2>3 DEF PInv, TilesInv
  <2>5. PushInv'
    BY <1>1 DEF PInv, PushInv, Working, Idle
  <2> QED BY <2>2, <2>4, <2>5 DEF PInv
<1> QED BY <1>2, <1>3

LEMMA TakeTileStep ==
  ASSUME PInv, NEW t \in Threads, TakeTile(t)
  PROVE  PInv'
<1> DEFINE At(tile) == [tile |-> tile, j |-> FirstCellOf(tile), todo |-> CellsOfTile(tile) \ {FirstCellOf(tile)},
                        my_chunk |-> particles[FirstCellOf(tile)].front, i |-> 0]
<1>1. PICK tile \in tiles[t] : /\ tiles' = [tiles EXCEPT ![t] = @ \ {tile}]
                              /\ loop' = [loop EXCEPT ![t] = At(tile)]
  BY DEF TakeTile
<1> DEFINE r == At(tile)
<1>2. LoopShape(r) /\ r.tile = tile
  BY DEF LoopShape, LoopFields
<1> HIDE DEF r
<1>3. ~Working(t) /\ phase = "move" /\ UNCHANGED <<push, phase, i_color>>
  BY DEF TakeTile, bagVars
<1>4. loop' = [u \in Threads |-> IF u = t THEN r ELSE loop[u]]
  BY <1>1 DEF PInv, RegistersInv, r
<1>5. tiles' = [u \in Threads |-> IF u = t THEN tiles[t] \ {tile} ELSE tiles[u]]
  BY <1>1 DEF PInv, TilesInv
<1>6. RegistersInv'
  BY <1>2, <1>3, <1>4 DEF PInv, RegistersInv
<1>7. tile \in TilesOfColor(i_color) /\ \A u \in Threads : u # t => tile \notin tiles[u]
  BY DEF PInv, TilesInv
<1>8. \A u \in Threads : Working(u) /\ u # t => loop[u].tile # tile
  BY DEF PInv, TilesInv
<1>9. TilesInv'
  <2>1. tiles' \in [Threads -> SUBSET TilesOfColor(i_color)]
    BY <1>5 DEF PInv, TilesInv
  <2>2. \A u \in Threads : u # t => loop'[u] = loop[u] /\ tiles'[u] = tiles[u]
    BY <1>4, <1>5
  <2>3. loop'[t].tile = tile /\ tiles'[t] = tiles[t] \ {tile}
    BY <1>2, <1>4, <1>5
  <2> QED BY <1>3, <1>7, <1>8, <2>1, <2>2, <2>3 DEF PInv, TilesInv, Working
<1>10. PushInv'
  BY <1>3, <1>4 DEF PInv, PushInv, Working, Idle
<1> QED BY <1>6, <1>9, <1>10 DEF PInv

\* A step of thread t that keeps its tile, and its cell if it still pushes.
LEMMA PushOnly ==
  ASSUME PInv, NEW t \in Threads, UNCHANGED <<phase, i_color, tiles>>,
         NEW r, push' = [push EXCEPT ![t] = r], PushShape(r),
         NEW l, loop' = [loop EXCEPT ![t] = l], LoopShape(l),
         Working(t), l.tile = loop[t].tile, l.my_chunk = loop[t].my_chunk,
         r.pc # "idle" => /\ r.cell \in Cells
                          /\ r.kind = ID_PRIVATE_BAG => InPrivateRegion(loop[t].tile, r.cell)
  PROVE  PInv'
<1>1. loop' = [u \in Threads |-> IF u = t THEN l ELSE loop[u]]
  BY DEF PInv, RegistersInv
<1>2. push' = [u \in Threads |-> IF u = t THEN r ELSE push[u]]
  BY DEF PInv, RegistersInv
<1>3. RegistersInv'
  BY <1>1, <1>2 DEF PInv, RegistersInv
<1>4. \A u \in Threads : loop'[u].tile = loop[u].tile /\ loop'[u].my_chunk = loop[u].my_chunk
  BY <1>1
<1>5. TilesInv'
  BY <1>4 DEF PInv, TilesInv, Working
<1>6. PushInv'
  <2>1. \A u \in Threads : u # t => push'[u] = push[u]
    BY <1>2
  <2>2. push'[t] = r
    BY <1>2
  <2> QED BY <1>4, <2>1, <2>2 DEF PInv, PushInv, Working, Idle
<1> QED BY <1>3, <1>5, <1>6 DEF PInv

LEMMA MoveParticleStep ==
  ASSUME PInv, NEW t \in Threads, MoveParticle(t)
  PROVE  PInv'
<1> DEFINE p == chunk[loop[t].my_chunk].item[loop[t].i]
<1>1. PICK i_cell \in Cells :
        StartPush(t, IF InPrivateRegion(loop[t].tile, i_cell) THEN ID_PRIVATE_BAG ELSE ID_SHARED_BAG, i_cell, p)
  BY DEF MoveParticle, Destinations
<1> HIDE DEF p
<1> DEFINE kind == IF InPrivateRegion(loop[t].tile, i_cell) THEN ID_PRIVATE_BAG ELSE ID_SHARED_BAG
           r == [NoPush EXCEPT !.kind = kind, !.cell = i_cell, !.p = p,
                   !.pc = IF kind = ID_PRIVATE_BAG THEN "serial_take" ELSE "read_front"]
<1>2. push' = [push EXCEPT ![t] = r]
  BY <1>1 DEF StartPush
<1>3. PushShape(r) /\ r.cell = i_cell /\ r.kind = kind
  BY DEF PushShape, PushFields, NoPush
<1>4. kind = ID_PRIVATE_BAG => InPrivateRegion(loop[t].tile, i_cell)
  BY DEF ID_PRIVATE_BAG, ID_SHARED_BAG
<1>5. loop' = [loop EXCEPT ![t] = loop[t]] /\ LoopShape(loop[t])
  BY DEF MoveParticle, simVars, PInv, RegistersInv
<1>6. Working(t) /\ UNCHANGED <<phase, i_color, tiles>>
  BY DEF MoveParticle, simVars
<1> HIDE DEF r, kind
<1> QED BY <1>2, <1>3, <1>4, <1>5, <1>6, PushOnly

\* The steps of a push keep its bag.
LEMMA PushGoesOn ==
  ASSUME PInv, NEW t \in Threads, PushStep(t)
  PROVE  \E r : /\ push' = [push EXCEPT ![t] = r] /\ PushShape(r)
                /\ r.kind = push[t].kind /\ r.cell = push[t].cell
                /\ ~Idle(t)
<1>1. PushShape(push[t])
  BY DEF PInv, RegistersInv
<1> DEFINE Change(pc, c, index) == [push[t] EXCEPT !.pc = pc, !.c = c, !.index = index]
<1>2. ASSUME NEW pc, NEW c, NEW index
      PROVE  /\ PushShape(Change(pc, c, index))
             /\ Change(pc, c, index).kind = push[t].kind /\ Change(pc, c, index).cell = push[t].cell
  BY <1>1 DEF PushShape, PushFields
<1>3. ~Idle(t) /\ \E pc, c, index : push' = [push EXCEPT ![t] = Change(pc, c, index)]
  <2>5. CASE SerialTake(t)
    <3>1. push' = [push EXCEPT ![t] = Change("serial_write", Target(t).front, chunk[Target(t).front].size)]
      BY <1>1, <2>5 DEF SerialTake, PushShape, PushFields, PInv, RegistersInv
    <3>2. ~Idle(t)
      BY <2>5 DEF SerialTake, Idle
    <3> HIDE DEF Change
    <3> QED BY <3>1, <3>2
  <2>6. CASE SerialWrite(t)
    <3>1. push' = [push EXCEPT ![t] = Change(AfterWrite(push[t].index), push[t].c, push[t].index)]
      BY <1>1, <2>6 DEF SerialWrite, Goto, PushShape, PushFields, PInv, RegistersInv
    <3>2. ~Idle(t)
      BY <2>6 DEF SerialWrite, Idle
    <3> HIDE DEF Change
    <3> QED BY <3>1, <3>2
  <2>7. CASE ReadFront(t)
    <3>1. push' = [push EXCEPT ![t] = Change("capture", Target(t).front, push[t].index)]
      BY <1>1, <2>7 DEF ReadFront, PushShape, PushFields, PInv, RegistersInv
    <3>2. ~Idle(t)
      BY <2>7 DEF ReadFront, Idle
    <3> HIDE DEF Change
    <3> QED BY <3>1, <3>2
  <2>8. CASE Capture(t)
    <3>1. push' = [push EXCEPT ![t] = Change(IF chunk[push[t].c].size < CHUNK_SIZE THEN "write" ELSE "undo", push[t].c, chunk[push[t].c].size)]
      BY <1>1, <2>8 DEF Capture, PushShape, PushFields, PInv, RegistersInv
    <3>2. ~Idle(t)
      BY <2>8 DEF Capture, Idle
    <3> HIDE DEF Change
    <3> QED BY <3>1, <3>2
  <2>9. CASE WriteItem(t)
    <3>1. push' = [push EXCEPT ![t] = Change(AfterWrite(push[t].index), push[t].c, push[t].index)]
      BY <1>1, <2>9 DEF WriteItem, Goto, PushShape, PushFields, PInv, RegistersInv
    <3>2. ~Idle(t)
      BY <2>9 DEF WriteItem, Idle
    <3> HIDE DEF Change
    <3> QED BY <3>1, <3>2
  <2>10. CASE UndoCapture(t)
    <3>1. push' = [push EXCEPT ![t] = Change("spin", push[t].c, push[t].index)]
      BY <1>1, <2>10 DEF UndoCapture, Goto, PushShape, PushFields, PInv, RegistersInv
    <3>2. ~Idle(t)
      BY <2>10 DEF UndoCapture, Idle
    <3> HIDE DEF Change
    <3> QED BY <3>1, <3>2
  <2>11. CASE LeaveSpin(t)
    <3>1. push' = [push EXCEPT ![t] = Change("read_front", push[t].c, push[t].index)]
      BY <1>1, <2>11 DEF LeaveSpin, Goto, PushShape, PushFields, PInv, RegistersInv
    <3>2. ~Idle(t)
      BY <2>11 DEF LeaveSpin, Idle
    <3> HIDE DEF Change
    <3> QED BY <3>1, <3>2
  <2>12. CASE ExtendBag(t)
    <3>1. push' = [push EXCEPT ![t] = Change("publish", ChunkAllocated(t), push[t].index)]
      BY <1>1, <2>12 DEF ExtendBag, PushShape, PushFields, PInv, RegistersInv
    <3>2. ~Idle(t)
      BY <2>12 DEF ExtendBag, Idle
    <3> HIDE DEF Change
    <3> QED BY <3>1, <3>2
  <2>13. CASE Publish(t)
    <3>1. push' = [push EXCEPT ![t] = Change("returned", push[t].c, push[t].index)]
      BY <1>1, <2>13 DEF Publish, Goto, PushShape, PushFields, PInv, RegistersInv
    <3>2. ~Idle(t)
      BY <2>13 DEF Publish, Idle
    <3> HIDE DEF Change
    <3> QED BY <3>1, <3>2
  <2> QED BY <2>5, <2>6, <2>7, <2>8, <2>9, <2>10, <2>11, <2>12, <2>13 DEF PushStep
<1> HIDE DEF Change
<1> QED BY <1>2, <1>3

LEMMA PushParticleStep ==
  ASSUME PInv, NEW t \in Threads, PushParticle(t)
  PROVE  PInv'
<1>1. PICK r : /\ push' = [push EXCEPT ![t] = r] /\ PushShape(r)
               /\ r.kind = push[t].kind /\ r.cell = push[t].cell
               /\ ~Idle(t)
  BY PushGoesOn DEF PushParticle
<1>2. /\ Working(t) /\ push[t].cell \in Cells
      /\ push[t].kind = ID_PRIVATE_BAG => InPrivateRegion(loop[t].tile, push[t].cell)
  BY <1>1 DEF PInv, PushInv
<1>3. loop' = [loop EXCEPT ![t] = loop[t]] /\ LoopShape(loop[t]) /\ UNCHANGED <<phase, i_color, tiles>>
  BY DEF PushParticle, simVars, PInv, RegistersInv
<1> QED BY <1>1, <1>2, <1>3, PushOnly

LEMMA DepositChargeStep ==
  ASSUME PInv, NEW t \in Threads, DepositCharge(t)
  PROVE  PInv'
<1> DEFINE l == [loop[t] EXCEPT !.i = @ + 1]
<1>1. LoopShape(l) /\ l.tile = loop[t].tile /\ l.my_chunk = loop[t].my_chunk
  BY DEF PInv, RegistersInv, LoopShape, LoopFields
<1>2. loop' = [loop EXCEPT ![t] = l]
  BY DEF DepositCharge
<1>3. push' = [push EXCEPT ![t] = NoPush] /\ PushShape(NoPush) /\ NoPush.pc = "idle"
  BY DEF DepositCharge, PushShape, PushFields, NoPush
<1>4. ~Idle(t) /\ UNCHANGED <<phase, i_color, tiles>>
  BY DEF DepositCharge, Idle
<1>5. Working(t)
  BY <1>4 DEF PInv, PushInv
<1> HIDE DEF l
<1> QED BY <1>1, <1>2, <1>3, <1>4, <1>5, PushOnly

LEMMA NextChunkStep ==
  ASSUME PInv, NEW t \in Threads, NextChunk(t)
  PROVE  PInv'
<1>1. PICK l : /\ loop' = [loop EXCEPT ![t] = l] /\ LoopShape(l)
               /\ l.tile = loop[t].tile \/ l.my_chunk = NULL
  <2>1. LoopShape(loop[t])
    BY DEF PInv, RegistersInv
  <2>2. LoopShape(NoTile) /\ NoTile.my_chunk = NULL
    BY DEF LoopShape, LoopFields, NoTile
  <2> DEFINE SameTile(c) == [loop[t] EXCEPT !.my_chunk = c, !.i = 0]
             NextCell(j, todo, c) == [loop[t] EXCEPT !.j = j, !.todo = todo, !.my_chunk = c, !.i = 0]
  <2>3. ASSUME NEW c PROVE LoopShape(SameTile(c)) /\ SameTile(c).tile = loop[t].tile
    BY <2>1 DEF LoopShape, LoopFields
  <2>4. ASSUME NEW j, NEW todo, NEW c
        PROVE  LoopShape(NextCell(j, todo, c)) /\ NextCell(j, todo, c).tile = loop[t].tile
    BY <2>1 DEF LoopShape, LoopFields
  <2>5. \E c, j, todo : loop' = [loop EXCEPT ![t] = SameTile(c)] \/ loop' = [loop EXCEPT ![t] = NoTile]
                        \/ loop' = [loop EXCEPT ![t] = NextCell(j, todo, c)]
    BY DEF NextChunk
  <2> HIDE DEF SameTile, NextCell
  <2> QED BY <2>2, <2>3, <2>4, <2>5
<1>2. Working(t) /\ Idle(t) /\ UNCHANGED <<push, phase, i_color, tiles>>
  BY DEF NextChunk
<1>3. loop' = [u \in Threads |-> IF u = t THEN l ELSE loop[u]]
  BY <1>1 DEF PInv, RegistersInv
<1>4. RegistersInv'
  BY <1>1, <1>2, <1>3 DEF PInv, RegistersInv
<1>5. \A u \in Threads : Working(u)' => Working(u) /\ loop'[u].tile = loop[u].tile
  BY <1>1, <1>2, <1>3 DEF Working
<1>6. TilesInv'
  BY <1>2, <1>5 DEF PInv, TilesInv
<1>7. PushInv'
  BY <1>2, <1>3 DEF PInv, PushInv, Working, Idle
<1> QED BY <1>4, <1>6, <1>7 DEF PInv

LEMMA PInvKept == PInv /\ [Next]_vars => PInv'
<1> SUFFICES ASSUME PInv, [Next]_vars PROVE PInv'
  OBVIOUS
<1>1. ASSUME NEW j \in Cells, CreateParticle(j) PROVE PInv'
  BY <1>1, OtherStep DEF CreateParticle
<1>2. CASE StartSimulation
  BY <1>2, LoopStart DEF StartSimulation
<1>3. CASE NextColor
  BY <1>3, NextColorStep
<1>4. CASE Single
  BY <1>4, OtherStep DEF Single
<1>5. CASE EndStep
  BY <1>5, LoopStart DEF EndStep
<1>6. ASSUME NEW t \in Threads, ThreadStep(t) PROVE PInv'
  <2>1. CASE TakeTile(t)
    BY <2>1, TakeTileStep
  <2>2. CASE MoveParticle(t)
    BY <2>2, MoveParticleStep
  <2>3. CASE PushParticle(t)
    BY <2>3, PushParticleStep
  <2>4. CASE DepositCharge(t)
    BY <2>4, DepositChargeStep
  <2>5. CASE NextChunk(t)
    BY <2>5, NextChunkStep
  <2>6. CASE AppendAndReduce(t)
    BY <2>6, OtherStep DEF AppendAndReduce
  <2> QED BY <1>6, <2>1, <2>2, <2>3, <2>4, <2>5, <2>6 DEF ThreadStep
<1>7. CASE UNCHANGED vars
  BY <1>7, OtherStep DEF vars, bagVars, simVars
<1> QED BY <1>1, <1>2, <1>3, <1>4, <1>5, <1>6, <1>7 DEF Next, MainStep

-----------------------------------------------------------------------------
(* The threads: the theorem.                                                *)

LEMMA TilesKeepThreadsApart ==
  ASSUME PInv, EvenTiling
  PROVE  SerialPushExclusive
<1> SUFFICES ASSUME NEW t \in Threads, NEW u \in Threads, t # u, InSerialPush(t), InSerialPush(u),
                    push[t].cell = push[u].cell
             PROVE  FALSE
  BY DEF SerialPushExclusive
<1>1. /\ Working(t) /\ push[t].cell \in Cells /\ InPrivateRegion(loop[t].tile, push[t].cell)
      /\ Working(u) /\ InPrivateRegion(loop[u].tile, push[t].cell)
  BY DEF PInv, PushInv, InSerialPush
<1>2. /\ i_color \in Colors /\ loop[t].tile # loop[u].tile
      /\ loop[t].tile \in TilesOfColor(i_color) /\ loop[u].tile \in TilesOfColor(i_color)
  BY <1>1 DEF PInv, TilesInv
<1> QED BY <1>1, <1>2, RegionsApart

\* "This function is not thread-safe" (bag_push_serial): no two threads are ever in it
\* for one bag, whatever the schedule and wherever the particles go, if the tiles of
\* each axis go in pairs.
THEOREM SerialPushAlwaysExclusive ==
  ASSUME EvenTiling
  PROVE  Spec => []SerialPushExclusive
<1>1. PInv => SerialPushExclusive
  BY TilesKeepThreadsApart
<1> QED BY <1>1, PInvAtStart, PInvKept, PTL DEF Spec

-----------------------------------------------------------------------------
(* The chunks: the inductive invariant.                                     *)

CurrentId(j) == <<"current", j, 0>>
NextId(kind, j) == <<"next", j, kind>>
ListIds == {CurrentId(j) : j \in Cells} \cup {NextId(kind, j) : kind \in BagKinds, j \in Cells}
Fronts == [l \in ListIds |-> IF l[1] = "current" THEN CurrentFront(l[2]) ELSE NextFront(l[3], l[2])]
Links == [a \in Addresses |-> chunk[a].next]

\* The spare chunk of a number, and those that the append phase has taken.
PlaceOfSpare(id) ==
  LET k == ListOfSpare(id)
  IN  IF build = "SPARE_LOC_OPTIMIZED"
      THEN 1 + (id - cumulative[k]) + (IF k = lastSpare THEN FREE_INDEX(k) - (number_of_spare_chunks - cumulative[k]) ELSE 0)
      ELSE FREE_INDEX(k) - (id - cumulative[k])
Spare(id) == freeChunks[ListOfSpare(id)][PlaceOfSpare(id)]
Handed ==
  IF phase = "append" /\ build # "STDCHUNKALLOC"
  THEN {Spare(SpareChunkId(kind, j)) : kind \in BagKinds, j \in {i \in Cells : Appended(i)}} ELSE {}

\* The chunks that are in the list of a bag: all but those of a freelist or in the
\* hands of a thread.
Loose == (UNION {Elements(freeChunks[t]) \ Handed : t \in Threads}) \cup (UNION {InHand(t) : t \in Threads})
Listed == allocated \ Loose

\* The lists that start at hd and go along nx hold each address of lv once: it is in
\* the list owner, with pos addresses after it.
Chained(owner, pos, nx, lv, hd) ==
  /\ owner \in [Addresses -> ListIds] /\ pos \in [Addresses -> Nat]
  /\ lv \subseteq Addresses
  /\ \A c \in lv : IF pos[c] = 0 THEN nx[c] = NULL
                   ELSE nx[c] \in lv /\ owner[nx[c]] = owner[c] /\ pos[nx[c]] = pos[c] - 1
  /\ \A c, d \in lv : owner[c] = owner[d] /\ pos[c] = pos[d] => c = d
  /\ \A l \in ListIds : hd[l] # NULL => hd[l] \in lv /\ owner[hd[l]] = l
  /\ \A c \in lv : hd[owner[c]] # NULL /\ pos[c] <= pos[hd[owner[c]]]

\* The fields of a chunk, and the types of what the lists are made of.
ChunkShape(r) ==
  /\ r = [size |-> r.size, next |-> r.next, item |-> r.item]
  /\ r.size \in Nat /\ r.next \in 0 .. MaxChunks /\ r.item = [i \in Slots |-> r.item[i]]

MemoryInv ==
  /\ build \in Builds /\ phase \in {"create", "move", "single", "append", "done"}
  /\ chunk = [a \in Addresses |-> chunk[a]] /\ \A a \in Addresses : ChunkShape(chunk[a])
  /\ allocated \subseteq Addresses
  /\ freeChunks \in [Threads -> Seq(Addresses)]
  /\ particles \in [Cells -> Bag] /\ particlesNext \in [BagKinds -> [Cells -> Bag]]

\* A chunk is in one freelist at most, once.
FreesInv ==
  /\ \A t \in Threads : Elements(freeChunks[t]) \subseteq allocated
  /\ \A t \in Threads : \A i, k \in DOMAIN freeChunks[t] : freeChunks[t][i] = freeChunks[t][k] => i = k
  /\ \A t, u \in Threads : t # u => Elements(freeChunks[t]) \cap Elements(freeChunks[u]) = {}
  /\ phase = "create" => \A t \in Threads : t # 0 => freeChunks[t] = <<>>

\* The chunk with which a thread extends a bag is its own until it is published.
HandsInv ==
  \A t \in Threads : push[t].pc = "publish" =>
    /\ push[t].c \in allocated
    /\ \A u \in Threads : push[t].c \notin Elements(freeChunks[u])
    /\ \A u \in Threads : u # t /\ push[u].pc = "publish" => push[u].c # push[t].c
    /\ chunk[push[t].c].next = Target(t).front /\ chunk[push[t].c].size = 0

\* A thread without a tile has no cell; one with a tile has some cells of the tile.
LoopInv ==
  \A t \in Threads :
    /\ ~Working(t) => loop[t] = NoTile
    /\ Working(t) => /\ loop[t].j \in Cells /\ TileOfCell[loop[t].j] = loop[t].tile
                     /\ loop[t].todo \subseteq {i \in Cells : TileOfCell[i] = loop[t].tile}
                     /\ loop[t].j \notin loop[t].todo
                     /\ loop[t].tile \notin tiles[t]

\* Each thread appends the cells of its block in order.
AppendInv ==
  /\ appendNext = [t \in Threads |-> appendNext[t]]
  /\ \A t \in Threads :
       /\ appendNext[t] \in Nat
       /\ appendNext[t] \in CellBlock(t) \/ \A j \in CellBlock(t) : j < appendNext[t]

\* The sums of the lengths of the freelists, which locate the spare chunks.
SparesInv ==
  phase = "append" /\ build # "STDCHUNKALLOC" =>
    /\ cumulative = [k \in Threads |-> SumTo(k, freeChunks)]
    /\ lastSpare = Max({k \in Threads : cumulative[k] <= number_of_spare_chunks})
    /\ SumTo(NbThreads, freeChunks) >= number_of_spare_chunks
    /\ spareLocation = [t \in Threads |-> spareLocation[t]]
    /\ build = "SPARE_LOC_OPTIMIZED" =>
         \A t \in Threads : appendNext[t] \in CellBlock(t) /\ ~MustLocate(spareLocation[t])
                             => spareLocation[t] = locate_spare_chunk(2 * appendNext[t])

Heads(owner, pos) ==
  /\ \A j \in Cells : \/ Fronts[CurrentId(j)] # NULL
                      \/ phase \in {"single", "append"} /\ ~(phase = "append" /\ Appended(j))
                      \/ phase = "move" /\ ~Pending(j)
  /\ \A kind \in BagKinds, j \in Cells :
       /\ Fronts[NextId(kind, j)] # NULL
       /\ particlesNext[kind][j].back \in Listed
       /\ owner[particlesNext[kind][j].back] = NextId(kind, j)
       /\ pos[particlesNext[kind][j].back] = 0

\* A thread that will extend the bag it pushes into, which is full.
Extends(t) ==
  \/ push[t].pc \in {"extend", "publish"}
  \/ push[t].pc = "write" /\ push[t].index = CHUNK_SIZE - 1
Full(c) == chunk[c].size >= CHUNK_SIZE

\* No late increment is left in a chunk, but the one its thread will undo.
LateInv ==
  \A c \in Addresses : chunk[c].size > CHUNK_SIZE => \E t \in Threads : push[t].pc = "undo" /\ push[t].c = c

\* A bag of the next step has room in its front chunk only, and one thread extends
\* the bag when that chunk is full.
BehindInv(owner) ==
  \A c \in Listed, kind \in BagKinds, j \in Cells :
    owner[c] = NextId(kind, j) /\ c # NextFront(kind, j) => Full(c)
ExtendersInv ==
  /\ \A kind \in BagKinds, j \in Cells :
       Full(NextFront(kind, j)) <=> \E t \in Threads : Extends(t) /\ push[t].kind = kind /\ push[t].cell = j
  /\ \A t, u \in Threads :
       t # u /\ Extends(t) /\ Extends(u) => push[t].kind # push[u].kind \/ push[t].cell # push[u].cell

\* At the creation each bag has room in its front chunk.
CreateInv == phase = "create" /\ ~failed => \A j \in Cells : ~Full(particles[j].front)

\* The registers of a push are about a chunk of the bag it pushes into.
PushAt(owner, t) ==
  /\ push[t].kind \in BagKinds
  /\ push[t].pc \in {"serial_take", "serial_write"} => push[t].kind = ID_PRIVATE_BAG
  /\ push[t].pc \in {"read_front", "capture", "write", "undo", "spin"} => push[t].kind = ID_SHARED_BAG
  /\ push[t].pc \in {"serial_write", "capture", "write", "undo", "spin"} =>
       push[t].c \in Listed /\ owner[push[t].c] = NextId(push[t].kind, push[t].cell)
  /\ push[t].pc \in {"undo", "spin"} => Full(push[t].c)
  /\ push[t].pc = "write" => push[t].index \in Slots /\ push[t].index < chunk[push[t].c].size
  /\ push[t].pc = "serial_write" => /\ push[t].c = Target(t).front
                                    /\ push[t].index = chunk[push[t].c].size
PushesInv(owner) == \A t \in Threads : PushAt(owner, t)

ListsInv(owner, pos) ==
  /\ Chained(owner, pos, Links, Listed, Fronts) /\ Heads(owner, pos)
  /\ LateInv /\ BehindInv(owner) /\ ExtendersInv /\ CreateInv /\ PushesInv(owner)

OwnInv ==
  /\ MemoryInv /\ FreesInv /\ HandsInv /\ LoopInv /\ AppendInv /\ SparesInv
  /\ \E owner, pos : ListsInv(owner, pos)

\* The chunks that a step leaves in the list of a bag stay in the list of the same bag ...
OwnersStay ==
  \E owner, pos, owner2, pos2 :
    ListsInv(owner, pos) /\ ListsInv(owner2, pos2)' /\ \A c \in Listed \cap Listed' : owner2[c] = owner[c]

\* ... but for those of the bags of the next step of a cell that it appends.
OwnersJoin(j) ==
  \E owner, pos, owner2, pos2 :
    /\ ListsInv(owner, pos) /\ ListsInv(owner2, pos2)'
    /\ \A c \in Listed :
         owner2[c] = IF \E kind \in BagKinds : owner[c] = NextId(kind, j) THEN CurrentId(j) ELSE owner[c]
    /\ \A c \in Listed' : c \notin Listed => \E kind \in BagKinds : owner2[c] = NextId(kind, j)

-----------------------------------------------------------------------------
(* Linked lists.                                                            *)

LEMMA NotNull == NULL \notin Addresses
BY DEF NULL, Addresses

LEMMA Ids ==
  /\ \A j \in Cells : CurrentId(j) \in ListIds
  /\ \A kind \in BagKinds, j \in Cells : NextId(kind, j) \in ListIds
  /\ \A i, j : CurrentId(i) = CurrentId(j) => i = j
  /\ \A k, kind, i, j : NextId(k, i) = NextId(kind, j) => k = kind /\ i = j
  /\ \A kind, i, j : CurrentId(i) # NextId(kind, j)
  /\ \A l \in ListIds : \/ \E j \in Cells : l = CurrentId(j)
                        \/ \E kind \in BagKinds, j \in Cells : l = NextId(kind, j)
BY DEF ListIds, CurrentId, NextId

LEMMA FrontOf ==
  /\ \A j \in Cells : Fronts[CurrentId(j)] = CurrentFront(j)
  /\ \A kind \in BagKinds, j \in Cells : Fronts[NextId(kind, j)] = NextFront(kind, j)
<1>1. \A j \in Cells : CurrentId(j) \in ListIds /\ CurrentId(j)[1] = "current" /\ CurrentId(j)[2] = j
  BY DEF ListIds, CurrentId
<1>2. \A kind \in BagKinds, j \in Cells :
        /\ NextId(kind, j) \in ListIds /\ NextId(kind, j)[1] # "current"
        /\ NextId(kind, j)[2] = j /\ NextId(kind, j)[3] = kind
  BY DEF ListIds, NextId
<1> HIDE DEF ListIds, CurrentId, NextId, CurrentFront, NextFront
<1> QED BY <1>1, <1>2 DEF Fronts

\* Two functions that agree on a set.
SameOn(f, g, S) == \A a \in S : f[a] = g[a]

LEMMA ChainedSame ==
  ASSUME NEW owner, NEW pos, NEW nx, NEW lv, NEW hd, Chained(owner, pos, nx, lv, hd),
         NEW nx2, \A c \in lv : nx2[c] = nx[c],
         NEW hd2, \A l \in ListIds : hd2[l] = hd[l]
  PROVE  Chained(owner, pos, nx2, lv, hd2)
<1>1. \A c \in lv : owner[c] \in ListIds
  BY DEF Chained
<1> QED BY <1>1 DEF Chained

\* A new address goes in front of a list.
LEMMA PrependKeeps ==
  ASSUME NEW owner, NEW pos, NEW nx, NEW lv, NEW hd, Chained(owner, pos, nx, lv, hd),
         NEW n \in Addresses \ lv, NEW b \in ListIds,
         NEW nx2, SameOn(nx2, nx, lv), nx2[n] = hd[b],
         NEW hd2, hd2[b] = n, SameOn(hd2, hd, ListIds \ {b})
  PROVE  Chained([owner EXCEPT ![n] = b], [pos EXCEPT ![n] = IF hd[b] = NULL THEN 0 ELSE pos[hd[b]] + 1],
                 nx2, lv \cup {n}, hd2)
<1> USE DEF SameOn
<1> DEFINE rank == IF hd[b] = NULL THEN 0 ELSE pos[hd[b]] + 1
           owner2 == [owner EXCEPT ![n] = b]
           pos2 == [pos EXCEPT ![n] = rank]
<1>1. /\ owner \in [Addresses -> ListIds] /\ pos \in [Addresses -> Nat] /\ lv \subseteq Addresses
      /\ \A c \in lv : IF pos[c] = 0 THEN nx[c] = NULL
                       ELSE nx[c] \in lv /\ owner[nx[c]] = owner[c] /\ pos[nx[c]] = pos[c] - 1
      /\ \A c, d \in lv : owner[c] = owner[d] /\ pos[c] = pos[d] => c = d
      /\ \A a \in ListIds : hd[a] # NULL => hd[a] \in lv /\ owner[hd[a]] = a
      /\ \A c \in lv : hd[owner[c]] # NULL /\ pos[c] <= pos[hd[owner[c]]]
  BY DEF Chained
<1>2. rank \in Nat /\ (hd[b] # NULL => hd[b] \in lv /\ pos[hd[b]] = rank - 1) /\ (hd[b] = NULL => rank = 0)
  BY <1>1
<1> HIDE DEF rank
<1>3. /\ owner2 \in [Addresses -> ListIds] /\ pos2 \in [Addresses -> Nat] /\ n \in Addresses
      /\ owner2[n] = b /\ pos2[n] = rank /\ hd2[b] = n
      /\ \A c \in lv : owner2[c] = owner[c] /\ pos2[c] = pos[c] /\ c # n
      /\ \A a \in ListIds : a # b => hd2[a] = hd[a]
      /\ n # NULL
  BY <1>1, <1>2, NotNull
<1> HIDE DEF owner2, pos2
<1>4. \A c \in lv : owner[c] = b => hd[b] # NULL /\ pos[c] < rank
  <2> SUFFICES ASSUME NEW c \in lv, owner[c] = b PROVE hd[b] # NULL /\ pos[c] < rank
    OBVIOUS
  <2>1. hd[b] # NULL /\ pos[c] <= pos[hd[b]] /\ pos[c] \in Nat
    BY <1>1
  <2> QED BY <2>1, <1>2
<1>5. ASSUME NEW c \in lv \cup {n}
      PROVE  IF pos2[c] = 0 THEN nx2[c] = NULL
             ELSE nx2[c] \in lv \cup {n} /\ owner2[nx2[c]] = owner2[c] /\ pos2[nx2[c]] = pos2[c] - 1
  <2>1. CASE c \in lv
    BY <1>1, <1>3, <2>1
  <2>2. CASE c = n
    <3>1. nx2[c] = hd[b] /\ pos2[c] = rank /\ owner2[c] = b
      BY <1>3, <2>2
    <3>2. CASE hd[b] = NULL
      BY <1>2, <3>1, <3>2
    <3>3. CASE hd[b] # NULL
      <4>1. hd[b] \in lv /\ owner[hd[b]] = b /\ pos[hd[b]] = rank - 1 /\ pos[hd[b]] \in Nat
        BY <1>1, <1>2, <3>3
      <4>2. owner2[hd[b]] = b /\ pos2[hd[b]] = rank - 1
        BY <1>3, <4>1
      <4> QED BY <1>2, <3>1, <4>1, <4>2
    <3> QED BY <3>2, <3>3
  <2> QED BY <2>1, <2>2
<1>6. \A c, d \in lv \cup {n} : owner2[c] = owner2[d] /\ pos2[c] = pos2[d] => c = d
  <2>1. \A c \in lv : owner2[c] = owner2[n] => pos2[c] # pos2[n]
    BY <1>1, <1>2, <1>3, <1>4
  <2> QED BY <1>1, <1>3, <2>1
<1>7. \A a \in ListIds : hd2[a] # NULL => hd2[a] \in lv \cup {n} /\ owner2[hd2[a]] = a
  BY <1>1, <1>3
<1>8. ASSUME NEW c \in lv \cup {n} PROVE hd2[owner2[c]] # NULL /\ pos2[c] <= pos2[hd2[owner2[c]]]
  <2>1. CASE owner2[c] = b
    <3>1. pos2[c] <= rank
      BY <1>2, <1>3, <1>4, <1>1, <2>1
    <3> QED BY <1>3, <2>1, <3>1
  <2>2. CASE owner2[c] # b
    <3>1. c \in lv /\ owner2[c] = owner[c] /\ owner[c] \in ListIds /\ pos2[c] = pos[c]
      BY <1>1, <1>3, <2>2
    <3>2. hd2[owner2[c]] = hd[owner[c]]
      BY <1>3, <2>2, <3>1
    <3>3. hd[owner[c]] # NULL /\ pos[c] <= pos[hd[owner[c]]] /\ hd[owner[c]] \in lv
      BY <1>1, <3>1
    <3> QED BY <1>3, <3>1, <3>2, <3>3
  <2> QED BY <2>1, <2>2
<1> QED
  <2>1. lv \cup {n} \subseteq Addresses
    BY <1>1, <1>3
  <2>2. Chained(owner2, pos2, nx2, lv \cup {n}, hd2)
    BY <1>3, <1>5, <1>6, <1>7, <1>8, <2>1 DEF Chained
  <2> QED BY <2>2 DEF owner2, pos2, rank

\* The first address of a list is taken from it.
LEMMA CutKeeps ==
  ASSUME NEW owner, NEW pos, NEW nx, NEW lv, NEW hd, Chained(owner, pos, nx, lv, hd),
         NEW b \in ListIds, hd[b] # NULL,
         NEW hd2, hd2[b] = nx[hd[b]], SameOn(hd2, hd, ListIds \ {b})
  PROVE  Chained(owner, pos, nx, lv \ {hd[b]}, hd2)
<1> USE DEF SameOn
<1> DEFINE lv2 == lv \ {hd[b]}
<1>1. /\ owner \in [Addresses -> ListIds] /\ pos \in [Addresses -> Nat] /\ lv \subseteq Addresses
      /\ \A c \in lv : IF pos[c] = 0 THEN nx[c] = NULL
                       ELSE nx[c] \in lv /\ owner[nx[c]] = owner[c] /\ pos[nx[c]] = pos[c] - 1
      /\ \A c, e \in lv : owner[c] = owner[e] /\ pos[c] = pos[e] => c = e
      /\ \A a \in ListIds : hd[a] # NULL => hd[a] \in lv /\ owner[hd[a]] = a
      /\ \A c \in lv : hd[owner[c]] # NULL /\ pos[c] <= pos[hd[owner[c]]]
  BY DEF Chained
<1>2. hd[b] \in lv /\ owner[hd[b]] = b /\ pos[hd[b]] \in Nat
  BY <1>1
<1>3. \A c \in lv2 : c \in lv /\ c # hd[b] /\ pos[c] \in Nat /\ owner[c] \in ListIds
  BY <1>1
<1>4. \A c \in lv2 : owner[c] = b => pos[c] < pos[hd[b]]
  BY <1>1, <1>2, <1>3
<1>5. ASSUME NEW c \in lv2
      PROVE  IF pos[c] = 0 THEN nx[c] = NULL
             ELSE nx[c] \in lv2 /\ owner[nx[c]] = owner[c] /\ pos[nx[c]] = pos[c] - 1
  <2>1. CASE pos[c] # 0
    <3>1. nx[c] \in lv /\ owner[nx[c]] = owner[c] /\ pos[nx[c]] = pos[c] - 1
      BY <1>1, <1>3, <2>1
    <3>2. nx[c] # hd[b]
      BY <1>2, <1>3, <1>4, <3>1
    <3> QED BY <2>1, <3>1, <3>2
  <2> QED BY <1>1, <1>3, <2>1
<1>6. ASSUME NEW a \in ListIds, hd2[a] # NULL PROVE hd2[a] \in lv2 /\ owner[hd2[a]] = a
  <2>1. CASE a = b
    <3>1. nx[hd[b]] # NULL
      BY <1>6, <2>1
    <3>2. pos[hd[b]] # 0
      BY <1>1, <1>2, <3>1
    <3>3. nx[hd[b]] \in lv /\ owner[nx[hd[b]]] = b /\ pos[nx[hd[b]]] = pos[hd[b]] - 1
      BY <1>1, <1>2, <3>2
    <3>4. nx[hd[b]] # hd[b]
      BY <1>2, <3>3
    <3> QED BY <2>1, <3>3, <3>4
  <2>2. CASE a # b
    BY <1>1, <1>2, <1>6, <2>2
  <2> QED BY <2>1, <2>2
<1>7. ASSUME NEW c \in lv2 PROVE hd2[owner[c]] # NULL /\ pos[c] <= pos[hd2[owner[c]]]
  <2>1. CASE owner[c] = b
    <3>1. pos[c] < pos[hd[b]] /\ pos[hd[b]] # 0
      BY <1>2, <1>3, <1>4, <2>1
    <3>2. nx[hd[b]] \in lv /\ pos[nx[hd[b]]] = pos[hd[b]] - 1
      BY <1>1, <1>2, <3>1
    <3>3. nx[hd[b]] # NULL
      BY <1>1, <3>2, NotNull
    <3> QED BY <1>2, <1>3, <2>1, <3>1, <3>2, <3>3
  <2>2. CASE owner[c] # b
    BY <1>1, <1>3, <2>2
  <2> QED BY <2>1, <2>2
<1>8. \A c, e \in lv2 : owner[c] = owner[e] /\ pos[c] = pos[e] => c = e
  BY <1>1, <1>3
<1>9. lv2 \subseteq Addresses
  BY <1>1
<1> HIDE DEF lv2
<1>10. Chained(owner, pos, nx, lv2, hd2)
  BY <1>1, <1>5, <1>6, <1>7, <1>8, <1>9 DEF Chained
<1> QED BY <1>10 DEF lv2

\* List p goes behind list s: together they are the list l, which was empty, and
\* each of them starts again from a new address.
JoinedOwner(owner, s, p, l, c1, c2) ==
  [a \in Addresses |-> IF a = c1 THEN s ELSE IF a = c2 THEN p ELSE IF owner[a] \in {s, p} THEN l ELSE owner[a]]
JoinedPos(owner, pos, s, first, c1, c2) ==
  [a \in Addresses |-> IF a \in {c1, c2} THEN 0 ELSE IF owner[a] = s THEN pos[a] + pos[first] + 1 ELSE pos[a]]

LEMMA JoinKeeps ==
  ASSUME NEW owner, NEW pos, NEW nx, NEW lv, NEW hd, Chained(owner, pos, nx, lv, hd),
         NEW s \in ListIds, NEW p \in ListIds, NEW l \in ListIds, s # p, s # l, p # l,
         hd[s] # NULL, hd[p] # NULL, hd[l] = NULL,
         NEW last \in lv, owner[last] = s, pos[last] = 0,
         NEW c1 \in Addresses \ lv, NEW c2 \in Addresses \ lv, c1 # c2,
         NEW nx2, SameOn(nx2, nx, lv \ {last}), nx2[last] = hd[p],
         nx2[c1] = NULL, nx2[c2] = NULL,
         NEW hd2, hd2[l] = hd[s], hd2[s] = c1, hd2[p] = c2,
         SameOn(hd2, hd, ListIds \ {s, p, l})
  PROVE  Chained(JoinedOwner(owner, s, p, l, c1, c2), JoinedPos(owner, pos, s, hd[p], c1, c2),
                 nx2, lv \cup {c1, c2}, hd2)
<1> USE DEF SameOn
<1> DEFINE owner2 == JoinedOwner(owner, s, p, l, c1, c2)
           pos2 == JoinedPos(owner, pos, s, hd[p], c1, c2)
           lv2 == lv \cup {c1, c2}
<1>1. /\ owner \in [Addresses -> ListIds] /\ pos \in [Addresses -> Nat] /\ lv \subseteq Addresses
      /\ \A c \in lv : IF pos[c] = 0 THEN nx[c] = NULL
                       ELSE nx[c] \in lv /\ owner[nx[c]] = owner[c] /\ pos[nx[c]] = pos[c] - 1
      /\ \A c, e \in lv : owner[c] = owner[e] /\ pos[c] = pos[e] => c = e
      /\ \A a \in ListIds : hd[a] # NULL => hd[a] \in lv /\ owner[hd[a]] = a
      /\ \A c \in lv : hd[owner[c]] # NULL /\ pos[c] <= pos[hd[owner[c]]]
  BY DEF Chained
<1>2. hd[p] \in lv /\ owner[hd[p]] = p /\ pos[hd[p]] \in Nat /\ hd[s] \in lv /\ owner[hd[s]] = s /\ pos[hd[s]] \in Nat
  BY <1>1
<1> DEFINE m == pos[hd[p]] + 1
<1>3. m \in Nat /\ m > 0 /\ m = pos[hd[p]] + 1
  BY <1>2
<1>4. \A c \in lv : /\ c \in Addresses /\ c # c1 /\ c # c2 /\ pos[c] \in Nat /\ owner[c] \in ListIds /\ owner[c] # l
  BY <1>1
<1>5. \A c \in lv : /\ owner2[c] = IF owner[c] \in {s, p} THEN l ELSE owner[c]
                    /\ pos2[c] = IF owner[c] = s THEN pos[c] + m ELSE pos[c]
  <2>1. \A c \in lv : owner2[c] = IF owner[c] \in {s, p} THEN l ELSE owner[c]
    BY <1>4 DEF JoinedOwner
  <2>2. \A c \in lv : pos2[c] = IF owner[c] = s THEN pos[c] + m ELSE pos[c]
    <3> SUFFICES ASSUME NEW c \in lv PROVE pos2[c] = IF owner[c] = s THEN pos[c] + m ELSE pos[c]
      OBVIOUS
    <3>1. pos2[c] = IF owner[c] = s THEN pos[c] + pos[hd[p]] + 1 ELSE pos[c]
      BY <1>4 DEF JoinedPos
    <3> QED BY <3>1, <1>2, <1>4
  <2> QED BY <2>1, <2>2
<1>6. owner2[c1] = s /\ owner2[c2] = p /\ pos2[c1] = 0 /\ pos2[c2] = 0 /\ c1 # NULL /\ c2 # NULL
  BY NotNull DEF JoinedOwner, JoinedPos
<1>7. owner2 \in [Addresses -> ListIds] /\ pos2 \in [Addresses -> Nat]
  <2>1. owner2 \in [Addresses -> ListIds]
    BY <1>1 DEF JoinedOwner
  <2>2. \A a \in Addresses : pos[a] \in Nat /\ pos[a] + pos[hd[p]] + 1 \in Nat
    BY <1>1, <1>2
  <2>3. pos2 \in [Addresses -> Nat]
    BY <2>2 DEF JoinedPos
  <2> QED BY <2>1, <2>3
<1> HIDE DEF owner2, pos2, m
<1>8. \A c \in lv : owner[c] = p => pos[c] < m
  <2> SUFFICES ASSUME NEW c \in lv, owner[c] = p PROVE pos[c] < m
    OBVIOUS
  <2>1. pos[c] <= pos[hd[p]]
    BY <1>1
  <2> QED BY <2>1, <1>2, <1>3, <1>4
<1>9. ASSUME NEW c \in lv2
      PROVE  IF pos2[c] = 0 THEN nx2[c] = NULL
             ELSE nx2[c] \in lv2 /\ owner2[nx2[c]] = owner2[c] /\ pos2[nx2[c]] = pos2[c] - 1
  <2>1. CASE c \in {c1, c2}
    BY <1>6, <2>1
  <2>2. CASE c \in lv /\ c = last
    <3>1. pos2[c] = m /\ owner2[c] = l /\ nx2[c] = hd[p]
      BY <1>5, <1>3, <2>2
    <3>2. owner2[hd[p]] = l /\ pos2[hd[p]] = m - 1
      BY <1>2, <1>3, <1>5
    <3> QED BY <3>1, <3>2, <1>2, <1>3
  <2>3. CASE c \in lv /\ c # last
    <3>1. nx2[c] = nx[c]
      BY <2>3
    <3>2. CASE pos[c] = 0
      <4>1. nx2[c] = NULL /\ owner[c] # s
        BY <1>1, <2>3, <3>1, <3>2
      <4> QED BY <4>1, <1>5, <2>3, <3>2
    <3>3. CASE pos[c] # 0
      <4>1. nx[c] \in lv /\ owner[nx[c]] = owner[c] /\ pos[nx[c]] = pos[c] - 1 /\ pos[c] \in Nat /\ pos[nx[c]] \in Nat
        BY <1>1, <1>4, <2>3, <3>3
      <4>2. /\ owner2[nx[c]] = owner2[c]
            /\ pos2[nx[c]] = IF owner[c] = s THEN pos[c] - 1 + m ELSE pos[c] - 1
            /\ pos2[c] = IF owner[c] = s THEN pos[c] + m ELSE pos[c]
        BY <1>5, <2>3, <4>1
      <4>3. pos2[c] # 0 /\ pos2[nx[c]] = pos2[c] - 1
        BY <4>1, <4>2, <1>3, <3>3
      <4> QED BY <3>1, <4>1, <4>2, <4>3
    <3> QED BY <3>2, <3>3
  <2> QED BY <2>1, <2>2, <2>3
<1>10. ASSUME NEW c \in lv2, NEW e \in lv2, owner2[c] = owner2[e], pos2[c] = pos2[e] PROVE c = e
  <2>1. CASE c \in lv /\ e \in lv
    <3>1. pos[c] \in Nat /\ pos[e] \in Nat
      BY <1>4, <2>1
    <3>2. /\ owner2[c] = IF owner[c] \in {s, p} THEN l ELSE owner[c]
          /\ owner2[e] = IF owner[e] \in {s, p} THEN l ELSE owner[e]
          /\ owner[c] # l /\ owner[e] # l
      BY <1>4, <1>5, <2>1
    <3>3. /\ pos2[c] = IF owner[c] = s THEN pos[c] + m ELSE pos[c]
          /\ pos2[e] = IF owner[e] = s THEN pos[e] + m ELSE pos[e]
      BY <1>5, <2>1
    <3>4. (owner[c] = p => pos[c] < m) /\ (owner[e] = p => pos[e] < m)
      BY <1>8, <2>1
    <3>5. owner[c] = owner[e]
      BY <3>1, <3>2, <3>3, <3>4, <1>3, <1>10
    <3>6. pos[c] = pos[e]
      BY <3>1, <3>3, <3>5, <1>3, <1>10
    <3> QED BY <2>1, <3>5, <3>6, <1>1
  <2>2. \A a \in lv : owner2[a] # s /\ owner2[a] # p
    BY <1>4, <1>5
  <2> QED BY <2>1, <2>2, <1>6, <1>10
<1>11. ASSUME NEW a \in ListIds, hd2[a] # NULL PROVE hd2[a] \in lv2 /\ owner2[hd2[a]] = a
  <2>1. CASE a = l
    BY <1>2, <1>5, <2>1
  <2>2. CASE a \in {s, p}
    BY <1>6, <2>2
  <2>3. CASE a \notin {s, p, l}
    BY <1>1, <1>5, <1>11, <2>3
  <2> QED BY <2>1, <2>2, <2>3
<1>12. ASSUME NEW c \in lv2 PROVE hd2[owner2[c]] # NULL /\ pos2[c] <= pos2[hd2[owner2[c]]]
  <2>1. CASE c \in {c1, c2}
    BY <1>6, <2>1
  <2>2. CASE c \in lv /\ owner[c] \in {s, p}
    <3>1. owner2[c] = l /\ hd2[l] = hd[s] /\ pos2[hd[s]] = pos[hd[s]] + m /\ hd[s] # NULL
      BY <1>2, <1>5, <2>2
    <3>2. pos[c] \in Nat
      BY <1>4, <2>2
    <3>3. CASE owner[c] = s
      <4>1. pos[c] <= pos[hd[s]] /\ pos2[c] = pos[c] + m
        BY <1>1, <1>5, <2>2, <3>3
      <4> QED BY <3>1, <3>2, <4>1, <1>2, <1>3
    <3>4. CASE owner[c] = p
      <4>1. pos[c] < m /\ pos2[c] = pos[c]
        BY <1>5, <1>8, <2>2, <3>4
      <4> QED BY <3>1, <3>2, <4>1, <1>2, <1>3
    <3> QED BY <2>2, <3>3, <3>4
  <2>3. CASE c \in lv /\ owner[c] \notin {s, p}
    <3>1. owner2[c] = owner[c] /\ pos2[c] = pos[c] /\ owner[c] \in ListIds /\ owner[c] # l
      BY <1>4, <1>5, <2>3
    <3>2. hd[owner[c]] # NULL /\ pos[c] <= pos[hd[owner[c]]] /\ hd2[owner[c]] = hd[owner[c]]
      BY <1>1, <2>3, <3>1
    <3>3. hd[owner[c]] \in lv /\ owner[hd[owner[c]]] = owner[c]
      BY <1>1, <3>1, <3>2
    <3>4. pos2[hd[owner[c]]] = pos[hd[owner[c]]]
      BY <1>5, <2>3, <3>3
    <3> QED BY <3>1, <3>2, <3>4
  <2> QED BY <2>1, <2>2, <2>3
<1>13. lv2 \subseteq Addresses
  BY <1>1
<1> HIDE DEF lv2
<1>14. Chained(owner2, pos2, nx2, lv2, hd2)
  <2>1. \A c, e \in lv2 : owner2[c] = owner2[e] /\ pos2[c] = pos2[e] => c = e
    BY <1>10
  <2> QED BY <1>7, <1>9, <2>1, <1>11, <1>12, <1>13 DEF Chained
<1> QED BY <1>14 DEF owner2, pos2, lv2

-----------------------------------------------------------------------------
(* Naturals, and functions defined by recursion on them.                    *)

\* As in TilingProofs.
LEMMA LeastNatural ==
  ASSUME NEW S, S \subseteq Nat, S # {}
  PROVE  \E n \in S : \A m \in S : n <= m
<1> DEFINE Below(n) == 0 .. n - 1
           R == StrictSubsetOrdering(Nat)
           F == FiniteSubsetsOf(Nat)
           U == {Below(n) : n \in S}
<1>1. IsWellFoundedOn(R, F)
  BY FS_StrictSubsetOrderingWellFounded
<1>2. U \subseteq F
  <2> SUFFICES ASSUME NEW n \in S PROVE Below(n) \in F
    OBVIOUS
  <2>1. IsFiniteSet(0 .. n - 1)
    BY FS_Interval
  <2> QED BY <2>1 DEF FiniteSubsetsOf
<1>3. \E x \in U : \A y \in U : ~(<<y, x>> \in R)
  <2>1. U # {}
    OBVIOUS
  <2> HIDE DEF R, F, U
  <2> QED BY <1>1, <1>2, <2>1, WFMin
<1>4. PICK n \in S : \A m \in S : ~(<<Below(m), Below(n)>> \in R)
  BY <1>3
<1>5. ASSUME NEW m \in S, m < n PROVE FALSE
  <2>1. Below(m) \subseteq Below(n) /\ Below(m) \in SUBSET Nat /\ Below(n) \in SUBSET Nat
    BY <1>5
  <2>2. m \in Below(n) /\ m \notin Below(m)
    BY <1>5
  <2>3. <<Below(m), Below(n)>> \in R
    BY <2>1, <2>2 DEF StrictSubsetOrdering
  <2> QED BY <2>3, <1>4
<1> QED BY <1>5

LEMMA MinOf ==
  ASSUME NEW S, S \subseteq Nat, S # {}
  PROVE  Min(S) \in S /\ \A m \in S : Min(S) <= m
<1>1. \E n \in S : \A m \in S : n <= m
  BY LeastNatural
<1> QED BY <1>1 DEF Min

LEMMA MaxOf ==
  ASSUME NEW n \in Nat, NEW S, S \subseteq 0 .. n, S # {}
  PROVE  Max(S) \in S /\ \A m \in S : m <= Max(S)
<1> DEFINE T == {n - m : m \in S}
<1>1. T \subseteq Nat /\ T # {}
  <2>1. \A m \in S : n - m \in Nat
    OBVIOUS
  <2>2. \E m \in S : n - m \in T
    OBVIOUS
  <2> QED BY <2>1, <2>2
<1>2. PICK d \in T : \A e \in T : d <= e
  <2> HIDE DEF T
  <2> QED BY <1>1, LeastNatural
<1>3. PICK m \in S : d = n - m
  BY <1>2
<1>4. \A k \in S : k <= m
  BY <1>2, <1>3
<1>5. \E k \in S : \A i \in S : k >= i
  BY <1>3, <1>4
<1>6. Max(S) \in S /\ \A i \in S : Max(S) >= i
  BY <1>5 DEF Max
<1> QED BY <1>6

Recurs(f, n, S, first, step) ==
  f \in [0 .. n -> S] /\ f[0] = first /\ \A k \in 1 .. n : f[k] = step[k][f[k - 1]]

LEMMA Recursion ==
  ASSUME NEW n \in Nat, NEW S, NEW first \in S, NEW step, \A k \in 1 .. n, x \in S : step[k][x] \in S
  PROVE  \E f : Recurs(f, n, S, first, step)
<1> DEFINE Good(m, f) == f \in [0 .. m -> S] /\ f[0] = first /\ \A k \in 1 .. m : f[k] = step[k][f[k - 1]]
           Bad == {m \in 0 .. n : ~\E f : Good(m, f)}
<1> SUFFICES ASSUME Bad # {} PROVE FALSE
  <2>1. n \in 0 .. n
    OBVIOUS
  <2>2. Bad = {} => \E f : Good(n, f)
    <3> HIDE DEF Good
    <3> QED BY <2>1
  <2> QED BY <2>2 DEF Recurs
<1>1. PICK m \in Bad : \A k \in Bad : m <= k
  <2>1. Bad \subseteq Nat
    OBVIOUS
  <2> HIDE DEF Bad
  <2> QED BY <2>1, LeastNatural
<1>2. m # 0
  <2>1. Good(0, [i \in 0 .. 0 |-> first])
    OBVIOUS
  <2> QED BY <2>1, <1>1
<1>3. m \in Nat /\ m - 1 \in 0 .. n /\ m - 1 \notin Bad /\ m \in 1 .. n
  <2>1. m \in 0 .. n
    BY <1>1
  <2>2. ~(m <= m - 1)
    BY <2>1
  <2> HIDE DEF Bad
  <2> QED BY <2>1, <2>2, <1>1, <1>2
<1>4. PICK f : Good(m - 1, f)
  <2> HIDE DEF Good
  <2> QED BY <1>3
<1> DEFINE next == step[m][f[m - 1]]
           g == [i \in 0 .. m |-> IF i = m THEN next ELSE f[i]]
<1>5. next \in S
  <2>1. f[m - 1] \in S
    BY <1>3, <1>4
  <2> QED BY <2>1, <1>3
<1>6. g \in [0 .. m -> S] /\ g[0] = first
  BY <1>2, <1>3, <1>4, <1>5
<1>7. \A k \in 1 .. m : g[k] = step[k][g[k - 1]]
  <2> SUFFICES ASSUME NEW k \in 1 .. m PROVE g[k] = step[k][g[k - 1]]
    OBVIOUS
  <2>1. g[k - 1] = f[k - 1]
    BY <1>3
  <2>2. CASE k = m
    <3>1. g[k] = next
      BY <2>2, <1>3
    <3> QED BY <2>1, <2>2, <3>1
  <2>3. CASE k # m
    <3>1. k \in 1 .. m - 1 /\ g[k] = f[k]
      BY <2>3, <1>3
    <3>2. f[k] = step[k][f[k - 1]]
      BY <1>4, <3>1
    <3> HIDE DEF g
    <3> QED BY <2>1, <3>1, <3>2
  <2> QED BY <2>2, <2>3
<1>8. Good(m, g)
  <2> HIDE DEF g
  <2> QED BY <1>6, <1>7
<1> QED BY <1>8, <1>1

-----------------------------------------------------------------------------
(* Following the links of a list.                                           *)

LinksTyped == \A a \in Addresses : chunk[a].next \in 0 .. MaxChunks

Follows(f) ==
  f = [k \in 0 .. MaxChunks |->
        [a \in 0 .. MaxChunks |-> IF a = NULL \/ k = 0 THEN {} ELSE {a} \cup f[k - 1][chunk[a].next]]]

LEMMA FollowsExists ==
  ASSUME LinksTyped
  PROVE  \E f : Follows(f)
<1> DEFINE S == [0 .. MaxChunks -> SUBSET (0 .. MaxChunks)]
           first == [a \in 0 .. MaxChunks |-> {}]
           Step(g) == [a \in 0 .. MaxChunks |-> IF a = NULL THEN {} ELSE {a} \cup g[chunk[a].next]]
           step == [k \in 1 .. MaxChunks |-> [g \in S |-> Step(g)]]
<1>1. MaxChunks \in Nat
  BY ChunkAssumption
<1>2. first \in S
  OBVIOUS
<1>3. \A g \in S : Step(g) \in S
  <2> SUFFICES ASSUME NEW g \in S, NEW a \in 0 .. MaxChunks, a # NULL
               PROVE  {a} \cup g[chunk[a].next] \in SUBSET (0 .. MaxChunks)
    OBVIOUS
  <2>1. chunk[a].next \in 0 .. MaxChunks
    BY <1>1 DEF LinksTyped, Addresses, NULL
  <2>2. g[chunk[a].next] \in SUBSET (0 .. MaxChunks)
    BY <2>1
  <2> QED BY <2>2
<1>4. \A k \in 1 .. MaxChunks, g \in S : step[k][g] \in S
  <2> HIDE DEF S, Step
  <2> QED BY <1>3
<1>5. PICK f \in [0 .. MaxChunks -> S] : f[0] = first /\ \A k \in 1 .. MaxChunks : f[k] = step[k][f[k - 1]]
  <2> HIDE DEF S, first, step
  <2>1. \E f : Recurs(f, MaxChunks, S, first, step)
    BY <1>1, <1>2, <1>4, Recursion
  <2> QED BY <2>1 DEF Recurs
<1>6. \A k \in 1 .. MaxChunks : f[k] = Step(f[k - 1])
  <2> SUFFICES ASSUME NEW k \in 1 .. MaxChunks PROVE f[k] = Step(f[k - 1])
    OBVIOUS
  <2>1. f[k - 1] \in S
    BY <1>1, <1>5
  <2> HIDE DEF S, Step
  <2> QED BY <2>1, <1>5
<1>7. \A k \in 0 .. MaxChunks :
        f[k] = [a \in 0 .. MaxChunks |-> IF a = NULL \/ k = 0 THEN {} ELSE {a} \cup f[k - 1][chunk[a].next]]
  <2> SUFFICES ASSUME NEW k \in 0 .. MaxChunks
               PROVE  f[k] = [a \in 0 .. MaxChunks |-> IF a = NULL \/ k = 0 THEN {} ELSE {a} \cup f[k - 1][chunk[a].next]]
    OBVIOUS
  <2>1. CASE k = 0
    BY <1>5, <2>1
  <2>2. CASE k # 0
    <3>1. f[k] = Step(f[k - 1])
      <4>1. k \in 1 .. MaxChunks
        BY <1>1, <2>2
      <4> HIDE DEF Step
      <4> QED BY <1>6, <4>1
    <3> QED BY <2>2, <3>1
  <2> QED BY <2>1, <2>2
<1>8. f = [k \in 0 .. MaxChunks |-> f[k]]
  BY <1>5
<1>9. Follows(f)
  BY <1>7, <1>8, Zenon DEF Follows
<1> QED BY <1>9

LEMMA ChunksFollow ==
  ASSUME LinksTyped
  PROVE  \E f : /\ \A c : ChunksFrom(c) = f[MaxChunks][c]
                /\ \A k \in 0 .. MaxChunks, a \in 0 .. MaxChunks :
                     f[k][a] = IF a = NULL \/ k = 0 THEN {} ELSE {a} \cup f[k - 1][chunk[a].next]
<1> DEFINE f == CHOOSE g : Follows(g)
<1>1. Follows(f)
  BY FollowsExists
<1>2. \A c : ChunksFrom(c) = f[MaxChunks][c]
  BY DEF ChunksFrom, Follows
<1> HIDE DEF f
<1>3. \A k \in 0 .. MaxChunks, a \in 0 .. MaxChunks :
        f[k][a] = IF a = NULL \/ k = 0 THEN {} ELSE {a} \cup f[k - 1][chunk[a].next]
  <2> SUFFICES ASSUME NEW k \in 0 .. MaxChunks, NEW a \in 0 .. MaxChunks
               PROVE  f[k][a] = IF a = NULL \/ k = 0 THEN {} ELSE {a} \cup f[k - 1][chunk[a].next]
    OBVIOUS
  <2> DEFINE g == [b \in 0 .. MaxChunks |-> IF b = NULL \/ k = 0 THEN {} ELSE {b} \cup f[k - 1][chunk[b].next]]
  <2>1. f[k] = g
    BY <1>1 DEF Follows
  <2> QED BY <2>1
<1> WITNESS f
<1> QED BY <1>2, <1>3

\* A list holds one address for each position: fewer than there are addresses.
Behind(owner, pos, lv, c) == {e \in lv : owner[e] = owner[c] /\ pos[e] <= pos[c]}

LEMMA BehindSteps ==
  ASSUME NEW owner, NEW pos, NEW nx, NEW lv, NEW hd, Chained(owner, pos, nx, lv, hd), NEW c \in lv
  PROVE  Behind(owner, pos, lv, c) = {c} \cup (IF pos[c] = 0 THEN {} ELSE Behind(owner, pos, lv, nx[c]))
<1>1. /\ pos \in [Addresses -> Nat] /\ lv \subseteq Addresses
      /\ \A e \in lv : IF pos[e] = 0 THEN nx[e] = NULL
                       ELSE nx[e] \in lv /\ owner[nx[e]] = owner[e] /\ pos[nx[e]] = pos[e] - 1
      /\ \A e, d \in lv : owner[e] = owner[d] /\ pos[e] = pos[d] => e = d
  BY DEF Chained
<1>2. \A e \in lv : pos[e] \in Nat
  BY <1>1
<1>3. CASE pos[c] = 0
  <2>1. \A e \in lv : owner[e] = owner[c] /\ pos[e] <= pos[c] <=> e = c
    BY <1>1, <1>2, <1>3
  <2> QED BY <1>3, <2>1 DEF Behind
<1>4. CASE pos[c] # 0
  <2>1. nx[c] \in lv /\ owner[nx[c]] = owner[c] /\ pos[nx[c]] = pos[c] - 1
    BY <1>1, <1>4
  <2>2. \A e \in lv : owner[e] = owner[c] /\ pos[e] <= pos[c] <=> e = c \/ (owner[e] = owner[nx[c]] /\ pos[e] <= pos[nx[c]])
    BY <1>1, <1>2, <1>4, <2>1
  <2> QED BY <1>4, <2>2 DEF Behind
<1> QED BY <1>3, <1>4

LEMMA AddressesFinite == IsFiniteSet(Addresses) /\ Cardinality(Addresses) = MaxChunks
<1>1. MaxChunks \in Nat
  BY ChunkAssumption
<1>2. IsFiniteSet(1 .. MaxChunks) /\ Cardinality(1 .. MaxChunks) = IF 1 > MaxChunks THEN 0 ELSE MaxChunks - 1 + 1
  BY <1>1, FS_Interval
<1> QED BY <1>1, <1>2 DEF Addresses

LEMMA PositionsBounded ==
  ASSUME NEW owner, NEW pos, NEW nx, NEW lv, NEW hd, Chained(owner, pos, nx, lv, hd), NEW c \in lv
  PROVE  pos[c] \in Nat /\ pos[c] < MaxChunks
<1>1. /\ pos \in [Addresses -> Nat] /\ lv \subseteq Addresses
      /\ \A e \in lv : IF pos[e] = 0 THEN nx[e] = NULL
                       ELSE nx[e] \in lv /\ owner[nx[e]] = owner[e] /\ pos[nx[e]] = pos[e] - 1
  BY DEF Chained
<1>2. \A e \in lv : pos[e] \in Nat
  BY <1>1
<1> DEFINE B(e) == Behind(owner, pos, lv, e)
           Bad == {pos[e] : e \in {d \in lv : Cardinality(B(d)) # pos[d] + 1}}
<1>3. \A e \in lv : IsFiniteSet(B(e))
  <2> TAKE e \in lv
  <2>1. B(e) \subseteq Addresses
    BY <1>1 DEF Behind
  <2> QED BY <2>1, AddressesFinite, FS_Subset
<1>4. Bad = {}
  <2> SUFFICES ASSUME Bad # {} PROVE FALSE
    OBVIOUS
  <2>1. Bad \subseteq Nat
    BY <1>2
  <2>2. PICK m \in Bad : \A k \in Bad : m <= k
    <3> HIDE DEF Bad
    <3> QED BY <2>1, LeastNatural
  <2>3. PICK e \in lv : pos[e] = m /\ Cardinality(B(e)) # pos[e] + 1
    BY <2>2
  <2>4. CASE pos[e] = 0
    <3>1. B(e) = {e}
      BY <2>4, BehindSteps
    <3>2. Cardinality({e}) = 1
      BY FS_Singleton
    <3> HIDE DEF B
    <3> QED BY <2>3, <2>4, <3>1, <3>2
  <2>5. CASE pos[e] # 0
    <3>1. nx[e] \in lv /\ owner[nx[e]] = owner[e] /\ pos[nx[e]] = pos[e] - 1 /\ pos[nx[e]] \in Nat /\ pos[e] \in Nat
      BY <1>1, <1>2, <2>5
    <3>2. Cardinality(B(nx[e])) = pos[nx[e]] + 1
      <4>1. pos[nx[e]] \notin Bad
        BY <2>2, <2>3, <3>1
      <4> HIDE DEF B
      <4> QED BY <3>1, <4>1
    <3>3. B(e) = B(nx[e]) \cup {e}
      BY <2>5, BehindSteps
    <3>4. e \notin B(nx[e])
      BY <3>1 DEF Behind
    <3>5. IsFiniteSet(B(nx[e]))
      BY <1>3, <3>1
    <3> HIDE DEF B
    <3>6. Cardinality(B(e)) = Cardinality(B(nx[e])) + 1
      BY <3>3, <3>4, <3>5, FS_AddElement
    <3> QED BY <2>3, <3>1, <3>2, <3>6
  <2> QED BY <2>4, <2>5
<1>5. Cardinality(B(c)) = pos[c] + 1
  <2> HIDE DEF B
  <2> QED BY <1>4
<1>6. B(c) \subseteq Addresses
  BY <1>1 DEF Behind
<1>7. Cardinality(B(c)) <= Cardinality(Addresses)
  <2> HIDE DEF B
  <2> QED BY <1>6, AddressesFinite, FS_Subset
<1> HIDE DEF B
<1> QED BY <1>2, <1>5, <1>7, AddressesFinite, ChunkAssumption

\* The chunks that the program reaches from a chunk of a list are those behind it.
LEMMA ChunksBehind ==
  ASSUME LinksTyped, NEW owner, NEW pos, NEW lv, NEW hd, Chained(owner, pos, Links, lv, hd), NEW c \in lv
  PROVE  ChunksFrom(c) = Behind(owner, pos, lv, c)
<1>1. PICK f : /\ \A a : ChunksFrom(a) = f[MaxChunks][a]
               /\ \A k \in 0 .. MaxChunks, a \in 0 .. MaxChunks :
                    f[k][a] = IF a = NULL \/ k = 0 THEN {} ELSE {a} \cup f[k - 1][chunk[a].next]
  BY ChunksFollow
<1>2. /\ pos \in [Addresses -> Nat] /\ lv \subseteq Addresses
      /\ \A e \in lv : IF pos[e] = 0 THEN Links[e] = NULL
                       ELSE Links[e] \in lv /\ owner[Links[e]] = owner[e] /\ pos[Links[e]] = pos[e] - 1
  BY DEF Chained
<1>3. \A e \in lv : pos[e] \in Nat /\ e \in 0 .. MaxChunks /\ e # NULL /\ Links[e] = chunk[e].next
  BY <1>2, ChunkAssumption DEF Addresses, NULL, Links
<1>4. MaxChunks \in Nat /\ NULL \in 0 .. MaxChunks
  BY ChunkAssumption DEF NULL
<1> DEFINE B(e) == Behind(owner, pos, lv, e)
           Bad == {k \in 0 .. MaxChunks : \E e \in lv : pos[e] < k /\ f[k][e] # B(e)}
<1>5. Bad = {}
  <2> SUFFICES ASSUME Bad # {} PROVE FALSE
    OBVIOUS
  <2>1. PICK k \in Bad : \A m \in Bad : k <= m
    <3>1. Bad \subseteq Nat
      OBVIOUS
    <3> HIDE DEF Bad
    <3> QED BY <3>1, LeastNatural
  <2>2. PICK e \in lv : pos[e] < k /\ f[k][e] # B(e)
    BY <2>1
  <2>3. k \in 0 .. MaxChunks /\ k # 0 /\ k - 1 \in 0 .. MaxChunks /\ k - 1 \notin Bad
    <3>1. k \in 0 .. MaxChunks /\ pos[e] \in Nat
      BY <1>3, <2>1
    <3>2. k # 0 /\ k - 1 \in 0 .. MaxChunks
      BY <1>4, <2>2, <3>1
    <3>3. ~(k <= k - 1)
      BY <3>1
    <3> HIDE DEF Bad
    <3> QED BY <2>1, <3>1, <3>2, <3>3
  <2>4. f[k][e] = {e} \cup f[k - 1][chunk[e].next]
    BY <1>1, <1>3, <2>3
  <2>5. B(e) = {e} \cup (IF pos[e] = 0 THEN {} ELSE B(Links[e]))
    BY BehindSteps
  <2>6. CASE pos[e] = 0
    <3>1. chunk[e].next = NULL
      BY <1>2, <1>3, <2>6
    <3>2. f[k - 1][NULL] = {}
      BY <1>1, <1>4, <2>3
    <3> HIDE DEF B
    <3> QED BY <2>2, <2>4, <2>5, <2>6, <3>1, <3>2
  <2>7. CASE pos[e] # 0
    <3>1. chunk[e].next \in lv /\ Links[e] = chunk[e].next /\ pos[chunk[e].next] = pos[e] - 1
      BY <1>2, <1>3, <2>7
    <3>2. pos[chunk[e].next] < k - 1
      BY <1>3, <2>2, <2>3, <3>1
    <3>3. f[k - 1][chunk[e].next] = B(chunk[e].next)
      <4> HIDE DEF B
      <4> QED BY <2>3, <3>1, <3>2
    <3> HIDE DEF B
    <3> QED BY <2>2, <2>4, <2>5, <2>7, <3>1, <3>3
  <2> QED BY <2>6, <2>7
<1>6. pos[c] < MaxChunks
  BY PositionsBounded
<1>7. f[MaxChunks][c] = B(c)
  <2>1. MaxChunks \in 0 .. MaxChunks
    BY <1>4
  <2> HIDE DEF B
  <2> QED BY <1>5, <1>6, <2>1
<1> QED BY <1>1, <1>7

-----------------------------------------------------------------------------
(* Cells, tiles and colours.                                                *)

LEMMA Division ==
  ASSUME NEW x \in Nat, NEW d \in Nat, d > 0
  PROVE  /\ x = d * (x \div d) + (x % d) /\ x \div d \in Nat
         /\ x % d \in 0 .. d - 1
OBVIOUS

LEMMA Monotone ==
  ASSUME NEW d \in Nat, NEW x \in Int, NEW y \in Int, x + 1 <= y
  PROVE  d * x + d <= d * y
OBVIOUS

\* Only one multiple of d is at less than d below a number.
Divides(x, d, s, r) == x \in Nat /\ d \in Nat /\ s \in Int /\ r \in 0 .. d - 1 /\ x = d * s + r
LEMMA Quotient ==
  ASSUME NEW x, NEW d, NEW s, NEW r, Divides(x, d, s, r)
  PROVE  x \div d = s /\ x % d = r
<1>1. x \in Nat /\ d \in Nat /\ d > 0 /\ s \in Int /\ r \in 0 .. d - 1 /\ x = d * s + r
  BY DEF Divides
<1> DEFINE q == x \div d
<1>2. x = d * q + (x % d) /\ q \in Nat /\ x % d \in 0 .. d - 1
  BY <1>1, Division
<1> HIDE DEF q
<1>3. ~(q + 1 <= s)
  <2> SUFFICES ASSUME q + 1 <= s PROVE FALSE
    OBVIOUS
  <2>1. d * q + d <= d * s
    BY <1>1, <1>2, Monotone
  <2> QED BY <2>1, <1>1, <1>2
<1>4. ~(s + 1 <= q)
  <2> SUFFICES ASSUME s + 1 <= q PROVE FALSE
    OBVIOUS
  <2>1. d * s + d <= d * q
    BY <1>1, <1>2, Monotone
  <2> QED BY <2>1, <1>1, <1>2
<1>5. q = s
  BY <1>1, <1>2, <1>3, <1>4
<1> QED BY <1>1, <1>2, <1>5 DEF q

\* In a row of n blocks of d numbers, the block of a number is one of the n.
LEMMA BlockInRow ==
  ASSUME NEW n \in Nat, NEW d \in Nat, d > 0, NEW x \in Nat, x < n * d
  PROVE  x \div d \in Nat /\ x \div d < n
<1> DEFINE q == x \div d
<1>1. x = d * q + (x % d) /\ q \in Nat /\ x % d \in 0 .. d - 1
  BY Division
<1> HIDE DEF q
<1>2. ~(n <= q)
  <2> SUFFICES ASSUME n <= q PROVE FALSE
    OBVIOUS
  <2>1. d * n <= d * q
    BY <1>1
  <2> QED BY <2>1, <1>1
<1> QED BY <1>1, <1>2 DEF q

LEMMA NumCellsNatural == NumCells \in Nat /\ NumCells > 0
<1>1. ncx * ncy \in Nat /\ ncx * ncy > 0
  BY MeshSizes
<1> DEFINE m == ncx * ncy
<1> HIDE DEF m
<1>2. m * ncz \in Nat /\ m * ncz > 0
  BY <1>1, MeshSizes DEF m
<1> QED BY <1>2 DEF NumCells, m

LEMMA CellCoordinates ==
  ASSUME NEW j \in Cells
  PROVE  CellX(j) \in 0 .. ncx - 1 /\ CellY(j) \in 0 .. ncy - 1 /\ CellZ(j) \in 0 .. ncz - 1
<1> DEFINE m == ncx * ncy
<1>1. m \in Nat /\ j \in Nat
  BY MeshSizes DEF Cells
<1>2. j < m * ncz
  BY NumCellsNatural DEF Cells, NumCells
<1>3. m = ncx * ncy
  OBVIOUS
<1> HIDE DEF m
<1>4. j \div ncz \in Nat /\ j \div ncz < m /\ j % ncz \in 0 .. ncz - 1
  BY <1>1, <1>2, BlockInRow, MeshSizes
<1>5. (j \div ncz) \div ncy \in Nat /\ (j \div ncz) \div ncy < ncx /\ (j \div ncz) % ncy \in 0 .. ncy - 1
  BY <1>3, <1>4, BlockInRow, MeshSizes
<1> QED BY <1>4, <1>5, MeshSizes DEF CellX, CellY, CellZ

LEMMA CoordinatesOfCell ==
  ASSUME NEW x \in 0 .. ncx - 1, NEW y \in 0 .. ncy - 1, NEW z \in 0 .. ncz - 1
  PROVE  /\ CellOf(x, y, z) \in Cells
         /\ CellX(CellOf(x, y, z)) = x /\ CellY(CellOf(x, y, z)) = y /\ CellZ(CellOf(x, y, z)) = z
<1>1. ncx \in Nat /\ ncx > 0 /\ ncy \in Nat /\ ncy > 0 /\ ncz \in Nat /\ ncz > 0
  BY MeshSizes
<1> DEFINE w == x * ncy + y
           m == ncx * ncy
<1>2. w \in Nat /\ m \in Nat /\ w <= m - 1
  <2>1. x * ncy >= 0 /\ x * ncy \in Int /\ m \in Nat
    BY <1>1
  <2>2. (x + 1) * ncy <= ncx * ncy
    BY <1>1
  <2>3. (x + 1) * ncy = x * ncy + ncy
    BY <1>1
  <2> QED BY <2>1, <2>2, <2>3, <1>1
<1>3. Divides(w, ncy, x, y)
  BY <1>1, <1>2 DEF Divides
<1>4. w \div ncy = x /\ w % ncy = y
  <2> HIDE DEF w
  <2> QED BY <1>3, Quotient
<1> HIDE DEF w, m
<1> DEFINE j == w * ncz + z
<1>5. j \in Nat /\ j <= m * ncz - 1
  <2>1. w * ncz >= 0 /\ w * ncz \in Int /\ m * ncz \in Nat
    BY <1>1, <1>2
  <2>2. (w + 1) * ncz <= m * ncz
    BY <1>1, <1>2
  <2>3. (w + 1) * ncz = w * ncz + ncz
    BY <1>1, <1>2
  <2> QED BY <2>1, <2>2, <2>3, <1>1, <1>2
<1>6. Divides(j, ncz, w, z)
  BY <1>1, <1>2, <1>5 DEF Divides
<1>7. CellOf(x, y, z) = j
  BY DEF CellOf, w
<1> HIDE DEF j
<1>8. j \div ncz = w /\ j % ncz = z
  BY <1>6, Quotient
<1>9. m * ncz = NumCells
  BY DEF NumCells, m
<1> QED BY <1>1, <1>2, <1>4, <1>5, <1>7, <1>8, <1>9 DEF Cells, CellX, CellY, CellZ

\* The tile of a coordinate starts at a multiple of the tile size.
LEMMA TileOnAxis ==
  ASSUME NEW n \in Nat, NEW x \in 0 .. n - 1
  PROVE  \E parity \in {0, 1} : x - (x % OMP_TILE_SIZE) \in TileStarts(parity, n)
<1> DEFINE T == OMP_TILE_SIZE
           k == x \div T
<1>1. T \in Nat /\ T > 0
  BY TileSize
<1>2. x \in Nat /\ x = T * k + (x % T) /\ k \in Nat /\ x % T \in 0 .. T - 1
  BY <1>1, Division
<1>3. k = 2 * (k \div 2) + (k % 2) /\ k \div 2 \in Nat /\ k % 2 \in {0, 1}
  BY <1>2
<1> DEFINE lo == x - (x % T)
           m == k \div 2
           parity == k % 2
           D == 2 * T
<1> HIDE DEF k
<1>4. lo = T * k /\ lo \in 0 .. n - 1
  <2>1. T * k \in Nat
    BY <1>1, <1>2
  <2> QED BY <2>1, <1>2
<1>5. lo = (2 * T) * m + T * parity
  <2>1. T * k = T * (2 * m + parity)
    BY <1>3
  <2>2. T * (2 * m + parity) = (2 * T) * m + T * parity
    BY <1>1, <1>3
  <2> QED BY <2>1, <2>2, <1>4
<1>6. T * parity \in {0, T} /\ T * parity = parity * T
  BY <1>1, <1>3
<1>7. Divides(lo, D, m, T * parity)
  BY <1>1, <1>3, <1>4, <1>5, <1>6 DEF Divides
<1> HIDE DEF lo, m, parity, D
<1>8. lo % D = T * parity
  BY <1>7, Quotient
<1>9. lo \in TileStarts(parity, n)
  BY <1>4, <1>6, <1>8 DEF TileStarts, D
<1>10. parity \in {0, 1}
  BY <1>3 DEF parity
<1> QED BY <1>9, <1>10 DEF lo

LEMMA InTileOnAxis ==
  ASSUME NEW n \in Nat, NEW x \in 0 .. n - 1, NEW parity \in {0, 1}, NEW lo \in TileStarts(parity, n)
  PROVE  x \in lo .. LastOfTile(lo, n) <=> x - (x % OMP_TILE_SIZE) = lo
<1> DEFINE T == OMP_TILE_SIZE
           D == 2 * T
           m == lo \div D
<1>1. T \in Nat /\ T > 0
  BY TileSize
<1>2. lo \in 0 .. n - 1 /\ lo % D = parity * T /\ lo \in Nat
  BY DEF TileStarts
<1>3. lo = D * m + (lo % D) /\ m \in Nat
  BY <1>1, <1>2, Division
<1> HIDE DEF m
<1>4. lo = T * (2 * m + parity)
  BY <1>1, <1>2, <1>3
<1> DEFINE k == 2 * m + parity
<1>5. k \in Nat
  BY <1>3
<1> HIDE DEF k
<1>6. x \in Nat /\ x % T \in 0 .. T - 1
  BY <1>1, Division
<1>7. x \in lo .. LastOfTile(lo, n) <=> x - lo \in 0 .. T - 1
  BY <1>1, <1>2, <1>6 DEF LastOfTile
<1>8. ASSUME x - lo \in 0 .. T - 1 PROVE x - (x % T) = lo
  <2>1. Divides(x, T, k, x - lo)
    BY <1>1, <1>4, <1>5, <1>6, <1>8 DEF Divides, k
  <2>2. x % T = x - lo
    BY <2>1, Quotient
  <2> QED BY <2>2, <1>2, <1>6
<1>9. ASSUME x - (x % T) = lo PROVE x - lo \in 0 .. T - 1
  BY <1>6, <1>9
<1> QED BY <1>7, <1>8, <1>9

LEMMA ColorBits ==
  /\ \A color \in Colors : color % 2 \in {0, 1} /\ (color \div 2) % 2 \in {0, 1} /\ (color \div 4) % 2 \in {0, 1}
  /\ \A a, b, c \in {0, 1} : \E color \in Colors : color % 2 = a /\ (color \div 2) % 2 = b /\ (color \div 4) % 2 = c
  /\ \A color, other \in Colors :
       /\ color % 2 = other % 2 /\ (color \div 2) % 2 = (other \div 2) % 2 /\ (color \div 4) % 2 = (other \div 4) % 2
       => color = other
<1>1. \A color \in Colors : color % 2 \in {0, 1} /\ (color \div 2) % 2 \in {0, 1} /\ (color \div 4) % 2 \in {0, 1}
  BY DEF Colors
<1>2. ASSUME NEW a \in {0, 1}, NEW b \in {0, 1}, NEW c \in {0, 1}
      PROVE  \E color \in Colors : color % 2 = a /\ (color \div 2) % 2 = b /\ (color \div 4) % 2 = c
  <2> DEFINE color == 4 * c + 2 * b + a
  <2>1. color \in Colors /\ color % 2 = a /\ (color \div 2) % 2 = b /\ (color \div 4) % 2 = c
    BY DEF Colors
  <2> QED BY <2>1
<1>3. \A color \in Colors : color = 4 * ((color \div 4) % 2) + 2 * ((color \div 2) % 2) + (color % 2)
  BY DEF Colors
<1> QED BY <1>1, <1>2, <1>3

LEMMA CellOfTheTile ==
  ASSUME NEW color \in Colors, NEW tile \in TilesOfColor(color), NEW j \in Cells
  PROVE  j \in CellsOfTile(tile) <=> TileOfCell[j] = tile
<1>1. ncx \in Nat /\ ncy \in Nat /\ ncz \in Nat
  BY MeshSizes
<1>2. CellX(j) \in 0 .. ncx - 1 /\ CellY(j) \in 0 .. ncy - 1 /\ CellZ(j) \in 0 .. ncz - 1
  BY CellCoordinates
<1> DEFINE a == color % 2  b == (color \div 2) % 2  c == (color \div 4) % 2
<1>3. a \in {0, 1} /\ b \in {0, 1} /\ c \in {0, 1}
  BY ColorBits
<1> HIDE DEF a, b, c
<1>4. /\ tile = <<tile[1], tile[2], tile[3]>>
      /\ tile[1] \in TileStarts(a, ncx) /\ tile[2] \in TileStarts(b, ncy) /\ tile[3] \in TileStarts(c, ncz)
  BY DEF TilesOfColor, a, b, c
<1> DEFINE x == CellX(j)  y == CellY(j)  z == CellZ(j)
<1>5. TileOfCell[j] = <<x - (x % OMP_TILE_SIZE), y - (y % OMP_TILE_SIZE), z - (z % OMP_TILE_SIZE)>>
  BY DEF TileOfCell
<1>6. j \in CellsOfTile(tile) <=> /\ x \in tile[1] .. LastOfTile(tile[1], ncx)
                                  /\ y \in tile[2] .. LastOfTile(tile[2], ncy)
                                  /\ z \in tile[3] .. LastOfTile(tile[3], ncz)
  BY DEF CellsOfTile
<1> HIDE DEF x, y, z
<1>7. /\ x \in 0 .. ncx - 1 /\ y \in 0 .. ncy - 1 /\ z \in 0 .. ncz - 1
  BY <1>2 DEF x, y, z
<1>8. x \in tile[1] .. LastOfTile(tile[1], ncx) <=> x - (x % OMP_TILE_SIZE) = tile[1]
  BY <1>1, <1>3, <1>4, <1>7, InTileOnAxis
<1>9. y \in tile[2] .. LastOfTile(tile[2], ncy) <=> y - (y % OMP_TILE_SIZE) = tile[2]
  BY <1>1, <1>3, <1>4, <1>7, InTileOnAxis
<1>10. z \in tile[3] .. LastOfTile(tile[3], ncz) <=> z - (z % OMP_TILE_SIZE) = tile[3]
  BY <1>1, <1>3, <1>4, <1>7, InTileOnAxis
<1>11. TileOfCell[j] = tile <=> /\ x - (x % OMP_TILE_SIZE) = tile[1]
                                /\ y - (y % OMP_TILE_SIZE) = tile[2]
                                /\ z - (z % OMP_TILE_SIZE) = tile[3]
  BY <1>4, <1>5
<1> QED BY <1>6, <1>8, <1>9, <1>10, <1>11

\* Every cell has a tile, of one colour.
LEMMA TileHasColor ==
  ASSUME NEW j \in Cells
  PROVE  ColorOfCell[j] \in Colors /\ TileOfCell[j] \in TilesOfColor(ColorOfCell[j])
<1>1. ncx \in Nat /\ ncy \in Nat /\ ncz \in Nat
  BY MeshSizes
<1> DEFINE x == CellX(j)  y == CellY(j)  z == CellZ(j)  T == OMP_TILE_SIZE
<1>2. x \in 0 .. ncx - 1 /\ y \in 0 .. ncy - 1 /\ z \in 0 .. ncz - 1
  BY CellCoordinates
<1>3. TileOfCell[j] = <<x - (x % T), y - (y % T), z - (z % T)>>
  BY DEF TileOfCell
<1> HIDE DEF x, y, z
<1>4. PICK a \in {0, 1} : x - (x % T) \in TileStarts(a, ncx)
  BY <1>1, <1>2, TileOnAxis
<1>5. PICK b \in {0, 1} : y - (y % T) \in TileStarts(b, ncy)
  BY <1>1, <1>2, TileOnAxis
<1>6. PICK c \in {0, 1} : z - (z % T) \in TileStarts(c, ncz)
  BY <1>1, <1>2, TileOnAxis
<1>7. PICK color \in Colors : color % 2 = a /\ (color \div 2) % 2 = b /\ (color \div 4) % 2 = c
  BY ColorBits
<1>8. TileOfCell[j] \in TilesOfColor(color)
  BY <1>3, <1>4, <1>5, <1>6, <1>7 DEF TilesOfColor
<1>9. ColorOfCell[j] = CHOOSE k \in Colors : TileOfCell[j] \in TilesOfColor(k)
  BY DEF ColorOfCell
<1> QED BY <1>8, <1>9

LEMMA StartsApart ==
  ASSUME NEW n \in Nat, NEW a \in {0, 1}, NEW b \in {0, 1}, NEW lo, lo \in TileStarts(a, n), lo \in TileStarts(b, n)
  PROVE  a = b
<1>1. a * OMP_TILE_SIZE = b * OMP_TILE_SIZE
  BY DEF TileStarts
<1> QED BY <1>1, TileSize

LEMMA ColorOfTheTile ==
  ASSUME NEW j \in Cells, NEW color \in Colors, TileOfCell[j] \in TilesOfColor(color)
  PROVE  ColorOfCell[j] = color
<1> DEFINE other == ColorOfCell[j]  tile == TileOfCell[j]
<1>1. other \in Colors /\ tile \in TilesOfColor(other)
  BY TileHasColor
<1>2. ncx \in Nat /\ ncy \in Nat /\ ncz \in Nat
  BY MeshSizes
<1> HIDE DEF other, tile
<1>3. /\ tile[1] \in TileStarts(color % 2, ncx) /\ tile[2] \in TileStarts((color \div 2) % 2, ncy)
      /\ tile[3] \in TileStarts((color \div 4) % 2, ncz)
  BY DEF TilesOfColor, tile
<1>4. /\ tile[1] \in TileStarts(other % 2, ncx) /\ tile[2] \in TileStarts((other \div 2) % 2, ncy)
      /\ tile[3] \in TileStarts((other \div 4) % 2, ncz)
  BY <1>1 DEF TilesOfColor
<1>5. /\ color % 2 \in {0, 1} /\ (color \div 2) % 2 \in {0, 1} /\ (color \div 4) % 2 \in {0, 1}
      /\ other % 2 \in {0, 1} /\ (other \div 2) % 2 \in {0, 1} /\ (other \div 4) % 2 \in {0, 1}
  BY <1>1, ColorBits
<1>6. color % 2 = other % 2
  BY <1>2, <1>3, <1>4, <1>5, StartsApart
<1>7. (color \div 2) % 2 = (other \div 2) % 2
  BY <1>2, <1>3, <1>4, <1>5, StartsApart
<1>8. (color \div 4) % 2 = (other \div 4) % 2
  BY <1>2, <1>3, <1>4, <1>5, StartsApart
<1>9. color = other
  BY <1>1, <1>6, <1>7, <1>8, ColorBits
<1> QED BY <1>9 DEF other

\* The first cell of a tile is one of its cells.
LEMMA FirstCellInTile ==
  ASSUME NEW color \in Colors, NEW tile \in TilesOfColor(color)
  PROVE  FirstCellOf(tile) \in Cells /\ TileOfCell[FirstCellOf(tile)] = tile
<1>1. /\ tile = <<tile[1], tile[2], tile[3]>>
      /\ tile[1] \in TileStarts(color % 2, ncx) /\ tile[2] \in TileStarts((color \div 2) % 2, ncy)
      /\ tile[3] \in TileStarts((color \div 4) % 2, ncz)
  BY DEF TilesOfColor
<1>2. tile[1] \in 0 .. ncx - 1 /\ tile[2] \in 0 .. ncy - 1 /\ tile[3] \in 0 .. ncz - 1
  BY <1>1 DEF TileStarts
<1> DEFINE j == FirstCellOf(tile)
<1>3. j \in Cells /\ CellX(j) = tile[1] /\ CellY(j) = tile[2] /\ CellZ(j) = tile[3]
  BY <1>2, CoordinatesOfCell DEF FirstCellOf
<1> HIDE DEF j
<1>4. /\ tile[1] \in tile[1] .. LastOfTile(tile[1], ncx) /\ tile[2] \in tile[2] .. LastOfTile(tile[2], ncy)
      /\ tile[3] \in tile[3] .. LastOfTile(tile[3], ncz)
  BY <1>2, TileSize, MeshSizes DEF LastOfTile
<1>5. j \in CellsOfTile(tile)
  BY <1>3, <1>4 DEF CellsOfTile
<1>6. TileOfCell[j] = tile
  BY <1>3, <1>5, CellOfTheTile
<1> QED BY <1>3, <1>6 DEF j

-----------------------------------------------------------------------------
(* Iterations shared out statically.                                        *)

\* Every iteration is in the block of a thread.
LEMMA BlocksCover ==
  ASSUME NEW n \in Nat
  PROVE  /\ \A t \in Threads : StaticBlock(t, NbThreads, n) \subseteq 0 .. n - 1
         /\ \A i \in 0 .. n - 1 : \E t \in Threads : i \in StaticBlock(t, NbThreads, n)
<1> DEFINE q == n \div NbThreads
           r == n % NbThreads
           M == NbThreads
           First(x) == x * q + (IF x < r THEN x ELSE r)
<1>1. M \in Nat /\ M > 0
  BY ChunkAssumption
<1>2. q \in Nat /\ r \in 0 .. M - 1 /\ n = M * q + r
  BY <1>1, Division
<1>3. \A t \in Threads : StaticBlock(t, NbThreads, n) = First(t) .. First(t) + q - (IF t < r THEN 0 ELSE 1)
  BY DEF StaticBlock
<1>4. Threads = 0 .. M - 1
  BY DEF Threads
<1> HIDE DEF q, r, M
<1>5. \A x \in 0 .. M : x * q \in Nat /\ First(x) \in Nat
  <2> TAKE x \in 0 .. M
  <2>1. x \in Nat
    BY <1>1
  <2>2. x * q \in Nat
    BY <2>1, <1>2
  <2> QED BY <2>1, <2>2, <1>2
<1>6. First(0) = 0 /\ First(M) = n
  <2>1. 0 * q = 0
    BY <1>2
  <2> QED BY <2>1, <1>1, <1>2
<1>7. \A x \in 0 .. M - 1 : First(x + 1) = First(x) + q + (IF x < r THEN 1 ELSE 0)
  <2> TAKE x \in 0 .. M - 1
  <2>1. (x + 1) * q = x * q + q
    BY <1>1, <1>2
  <2>2. x * q \in Nat /\ x \in Nat
    BY <1>1, <1>5
  <2> QED BY <2>1, <2>2, <1>1, <1>2
<1>8. \A x \in 0 .. M : x * q <= M * q
  BY <1>1, <1>2
<1>9. \A x \in 0 .. M : First(x) <= n
  <2> TAKE x \in 0 .. M
  <2>1. x * q <= M * q /\ x * q \in Nat /\ M * q \in Nat
    BY <1>1, <1>2, <1>5, <1>8
  <2> QED BY <2>1, <1>1, <1>2
<1> HIDE DEF First
<1>10. \A t \in Threads : StaticBlock(t, NbThreads, n) = First(t) .. First(t + 1) - 1
  <2> TAKE t \in Threads
  <2>1. t \in 0 .. M - 1 /\ First(t) \in Nat /\ First(t + 1) = First(t) + q + (IF t < r THEN 1 ELSE 0)
    BY <1>1, <1>4, <1>5, <1>7
  <2>2. First(t) + q - (IF t < r THEN 0 ELSE 1) = First(t + 1) - 1
    BY <2>1, <1>2
  <2> QED BY <2>2, <1>3
<1>11. \A t \in Threads : StaticBlock(t, NbThreads, n) \subseteq 0 .. n - 1
  <2> TAKE t \in Threads
  <2>1. First(t) \in Nat /\ First(t + 1) \in Nat /\ First(t + 1) <= n
    BY <1>1, <1>4, <1>5, <1>9
  <2> QED BY <2>1, <1>10
<1>12. ASSUME NEW i \in 0 .. n - 1 PROVE \E t \in Threads : i \in StaticBlock(t, NbThreads, n)
  <2> DEFINE S == {x \in 0 .. M - 1 : First(x) <= i}
             t == Max(S)
  <2>1. 0 \in S /\ S \subseteq 0 .. M - 1 /\ M - 1 \in Nat
    BY <1>1, <1>6
  <2>2. t \in S /\ \A m \in S : m <= t
    BY <2>1, MaxOf
  <2> HIDE DEF t
  <2>3. t \in 0 .. M - 1 /\ First(t) <= i /\ t + 1 \notin S
    BY <2>2, <1>1
  <2>4. i < First(t + 1)
    <3>1. CASE t + 1 = M
      BY <3>1, <1>2, <1>6, <1>12
    <3>2. CASE t + 1 # M
      <4>1. t + 1 \in 0 .. M - 1
        BY <2>3, <3>2, <1>1
      <4>2. First(t + 1) \in Nat /\ ~(First(t + 1) <= i)
        BY <2>3, <4>1, <1>5, <1>1
      <4> QED BY <4>2, <1>12
    <3> QED BY <3>1, <3>2
  <2>5. First(t) \in Nat /\ First(t + 1) \in Nat
    BY <2>3, <1>1, <1>5
  <2>6. i \in First(t) .. First(t + 1) - 1
    BY <2>3, <2>4, <2>5, <1>12
  <2> QED BY <2>3, <2>6, <1>4, <1>10
<1> QED BY <1>11, <1>12

\* Every tile of a colour is dealt to a thread.
LEMMA TilesDealt ==
  ASSUME NEW color \in Colors, NEW tile \in TilesOfColor(color)
  PROVE  \E t \in Threads : tile \in TileBlocks(color)[t]
<1> DEFINE S == TilesOfColor(color)
           Before == {other \in S : FirstCellOf(other) < FirstCellOf(tile)}
           n == Cardinality(S)
           rank == Cardinality(Before)
<1>1. IsFiniteSet(S) /\ n \in Nat
  BY TilesFinite
<1>2. FirstCellOf(tile) \in Int
  BY FirstCellInTile DEF Cells
<1>3. Before \subseteq S /\ Before # S
  BY <1>2
<1>4. rank \in Nat /\ rank < n
  BY <1>1, <1>3, FS_Subset, FS_CardinalityType
<1>5. TileRank(tile, color) = rank
  BY DEF TileRank
<1> HIDE DEF n, rank, Before
<1>6. PICK t \in Threads : rank \in StaticBlock(t, NbThreads, n)
  <2>1. rank \in 0 .. n - 1
    BY <1>1, <1>4
  <2> QED BY <1>1, <2>1, BlocksCover
<1>7. TileBlocks(color)[t] = {other \in S : TileRank(other, color) \in StaticBlock(t, NbThreads, n)}
  BY DEF TileBlocks, n
<1> HIDE DEF S
<1>8. tile \in S
  BY DEF S
<1> QED BY <1>5, <1>6, <1>7, <1>8

\* The cells of the append loop: each is in the block of one thread.
LEMMA CellsShared ==
  /\ \A t \in Threads : CellBlock(t) \subseteq Cells
  /\ \A j \in Cells : \E t \in Threads : j \in CellBlock(t)
  /\ \A t, u \in Threads : t # u => CellBlock(t) \cap CellBlock(u) = {}
BY BlocksCover, BlocksApart, NumCellsNatural DEF CellBlock, Cells

-----------------------------------------------------------------------------
(* Allocation, and the sums of the lengths of the freelists.                *)

LEMMA MallocFresh ==
  ASSUME NEW S, S \subseteq Addresses, S # Addresses
  PROVE  Malloc(S) \in Addresses \ S
<1>1. Addresses \subseteq Nat
  BY DEF Addresses
<1>2. Addresses \ S \subseteq Nat /\ Addresses \ S # {}
  BY <1>1
<1>3. Min(Addresses \ S) \in Addresses \ S
  BY <1>2, MinOf
<1> QED BY <1>3 DEF Malloc

LEMMA RoomLeft ==
  ASSUME NEW S, S \subseteq Addresses, NEW n \in Nat, n > 0, Cardinality(Addresses \ S) >= n
  PROVE  /\ Malloc(S) \in Addresses \ S
         /\ Cardinality(Addresses \ (S \cup {Malloc(S)})) >= n - 1
<1>1. Addresses \ S # {}
  BY FS_EmptySet
<1>2. Malloc(S) \in Addresses \ S
  BY <1>1, MallocFresh
<1>3. IsFiniteSet(Addresses \ S)
  BY AddressesFinite, FS_Subset
<1> DEFINE a == Malloc(S)
<1> HIDE DEF a
<1>4. Cardinality((Addresses \ S) \ {a}) = Cardinality(Addresses \ S) - 1
  BY <1>2, <1>3, FS_RemoveElement DEF a
<1>5. (Addresses \ S) \ {a} = Addresses \ (S \cup {a})
  OBVIOUS
<1>6. Cardinality(Addresses \ S) \in Nat
  BY <1>3, FS_CardinalityType
<1> QED BY <1>2, <1>4, <1>5, <1>6 DEF a

\* The chunks that compute_cumulative_free_list_sizes adds: new ones, all different.
Takes(f, n) ==
  f = [k \in 0 .. n |-> IF k = 0 THEN allocated ELSE f[k - 1] \cup {Malloc(f[k - 1])}]

LEMMA TakesExists ==
  ASSUME allocated \subseteq Addresses, NEW n \in Nat
  PROVE  \E f : Takes(f, n)
<1> DEFINE S == SUBSET (Addresses \cup {Malloc(Addresses)})
           Step(x) == x \cup {Malloc(x)}
           step == [k \in 1 .. n |-> [x \in S |-> Step(x)]]
<1>1. allocated \in S
  OBVIOUS
<1>2. \A x \in S : Step(x) \in S
  <2> SUFFICES ASSUME NEW x \in S PROVE Malloc(x) \in Addresses \cup {Malloc(Addresses)}
    OBVIOUS
  <2> DEFINE y == x \cap Addresses
  <2>1. Addresses \ x = Addresses \ y
    OBVIOUS
  <2>2. Malloc(x) = Malloc(y)
    BY <2>1 DEF Malloc
  <2>3. y # Addresses => Malloc(y) \in Addresses
    BY MallocFresh
  <2> QED BY <2>2, <2>3
<1>3. \A k \in 1 .. n, x \in S : step[k][x] \in S
  <2> HIDE DEF S, Step
  <2> QED BY <1>2
<1>4. PICK f \in [0 .. n -> S] : f[0] = allocated /\ \A k \in 1 .. n : f[k] = step[k][f[k - 1]]
  <2> HIDE DEF S, step
  <2>1. \E f : Recurs(f, n, S, allocated, step)
    BY <1>1, <1>3, Recursion
  <2> QED BY <2>1 DEF Recurs
<1>5. \A k \in 1 .. n : f[k] = Step(f[k - 1])
  <2> SUFFICES ASSUME NEW k \in 1 .. n PROVE f[k] = Step(f[k - 1])
    OBVIOUS
  <2>1. f[k - 1] \in S
    BY <1>4
  <2> HIDE DEF S, Step
  <2> QED BY <2>1, <1>4
<1>6. \A k \in 0 .. n : f[k] = IF k = 0 THEN allocated ELSE Step(f[k - 1])
  <2> SUFFICES ASSUME NEW k \in 0 .. n PROVE f[k] = IF k = 0 THEN allocated ELSE Step(f[k - 1])
    OBVIOUS
  <2>1. k # 0 => k \in 1 .. n
    OBVIOUS
  <2> HIDE DEF Step
  <2> QED BY <2>1, <1>4, <1>5
<1>7. f = [k \in 0 .. n |-> f[k]]
  BY <1>4
<1>8. Takes(f, n)
  BY <1>6, <1>7, Zenon DEF Takes
<1> QED BY <1>8

LEMMA RefillTakes ==
  ASSUME allocated \subseteq Addresses, NEW n \in Nat
  PROVE  \E f : /\ f[0] = allocated /\ \A k \in 1 .. n : f[k] = f[k - 1] \cup {Malloc(f[k - 1])}
                /\ Refill(n) = [k \in 1 .. n |-> Malloc(f[k - 1])]
<1> DEFINE f == CHOOSE g : Takes(g, n)
<1>1. Takes(f, n)
  BY TakesExists
<1>2. Refill(n) = [k \in 1 .. n |-> Malloc(f[k - 1])]
  BY DEF Refill, Takes
<1> HIDE DEF f
<1>3. f[0] = allocated
  <2> DEFINE g == [k \in 0 .. n |-> IF k = 0 THEN allocated ELSE f[k - 1] \cup {Malloc(f[k - 1])}]
  <2>1. g[0] = allocated
    OBVIOUS
  <2> HIDE DEF g
  <2>2. f = g
    BY <1>1, Zenon DEF Takes, g
  <2> QED BY <2>1, <2>2
<1>4. ASSUME NEW k \in 1 .. n PROVE f[k] = f[k - 1] \cup {Malloc(f[k - 1])}
  <2> DEFINE g == [i \in 0 .. n |-> IF i = 0 THEN allocated ELSE f[i - 1] \cup {Malloc(f[i - 1])}]
  <2>1. g[k] = f[k - 1] \cup {Malloc(f[k - 1])}
    OBVIOUS
  <2> HIDE DEF g
  <2>2. f = g
    BY <1>1, Zenon DEF Takes, g
  <2> QED BY <2>1, <2>2
<1> QED BY <1>2, <1>3, <1>4

LEMMA RefillFresh ==
  ASSUME allocated \subseteq Addresses, NEW n \in Nat, MemoryFor(n)
  PROVE  /\ Refill(n) \in Seq(Addresses) /\ Len(Refill(n)) = n
         /\ \A i \in 1 .. n : Refill(n)[i] \in Addresses \ allocated
         /\ \A i, k \in 1 .. n : Refill(n)[i] = Refill(n)[k] => i = k
<1>1. PICK f : /\ f[0] = allocated /\ \A k \in 1 .. n : f[k] = f[k - 1] \cup {Malloc(f[k - 1])}
               /\ Refill(n) = [k \in 1 .. n |-> Malloc(f[k - 1])]
  BY RefillTakes
<1> DEFINE Good(k) == /\ f[k] \subseteq Addresses /\ allocated \subseteq f[k]
                      /\ Cardinality(Addresses \ f[k]) >= n - k
                      /\ \A i \in 1 .. k : Malloc(f[i - 1]) \in f[k]
           Bad == {k \in 0 .. n : ~Good(k)}
<1>2. Bad = {}
  <2> SUFFICES ASSUME Bad # {} PROVE FALSE
    OBVIOUS
  <2>1. PICK k \in Bad : \A m \in Bad : k <= m
    <3>1. Bad \subseteq Nat
      OBVIOUS
    <3> HIDE DEF Bad
    <3> QED BY <3>1, LeastNatural
  <2>2. k \in 0 .. n
    BY <2>1
  <2>3. k # 0
    <3>1. Good(0)
      BY <1>1 DEF MemoryFor
    <3> HIDE DEF Good
    <3> QED BY <3>1, <2>1
  <2>4. k - 1 \in 0 .. n /\ k \in 1 .. n
    BY <2>2, <2>3
  <2>5. Good(k - 1)
    <3>1. ~(k <= k - 1)
      BY <2>2
    <3>2. k - 1 \notin Bad
      <4> HIDE DEF Bad
      <4> QED BY <2>1, <3>1
    <3> HIDE DEF Good
    <3> QED BY <3>2, <2>4
  <2> DEFINE S == f[k - 1]
  <2>6. f[k] = S \cup {Malloc(S)}
    BY <1>1, <2>4
  <2>7. S \subseteq Addresses /\ allocated \subseteq S /\ Cardinality(Addresses \ S) >= n - (k - 1)
    BY <2>5
  <2>8. \A i \in 1 .. k - 1 : Malloc(f[i - 1]) \in S
    BY <2>5
  <2> HIDE DEF S
  <2>9. n - (k - 1) \in Nat /\ n - (k - 1) > 0 /\ (n - (k - 1)) - 1 = n - k
    BY <2>4
  <2>10. Malloc(S) \in Addresses \ S /\ Cardinality(Addresses \ (S \cup {Malloc(S)})) >= n - k
    BY <2>7, <2>9, RoomLeft
  <2>11. \A i \in 1 .. k : Malloc(f[i - 1]) \in f[k]
    <3> TAKE i \in 1 .. k
    <3>1. CASE i = k
      BY <2>6, <3>1 DEF S
    <3>2. CASE i # k
      <4>1. i \in 1 .. k - 1
        BY <3>2, <2>4
      <4> QED BY <4>1, <2>6, <2>8
    <3> QED BY <3>1, <3>2
  <2>12. Good(k)
    BY <2>6, <2>7, <2>10, <2>11
  <2> HIDE DEF Good
  <2> QED BY <2>1, <2>12
<1>3. \A k \in 0 .. n : Good(k)
  <2> HIDE DEF Good
  <2> QED BY <1>2
<1>4. \A k \in 1 .. n : Malloc(f[k - 1]) \in Addresses \ f[k - 1]
  <2> TAKE k \in 1 .. n
  <2>1. k - 1 \in 0 .. n /\ n - (k - 1) \in Nat /\ n - (k - 1) > 0
    OBVIOUS
  <2>2. f[k - 1] \subseteq Addresses /\ Cardinality(Addresses \ f[k - 1]) >= n - (k - 1)
    BY <2>1, <1>3
  <2> QED BY <2>1, <2>2, RoomLeft
<1>5. \A k \in 1 .. n : allocated \subseteq f[k - 1]
  <2> TAKE k \in 1 .. n
  <2>1. k - 1 \in 0 .. n
    OBVIOUS
  <2> QED BY <2>1, <1>3
<1>6. \A i, k \in 1 .. n : i < k => Malloc(f[i - 1]) \in f[k - 1]
  <2> TAKE i, k \in 1 .. n
  <2> SUFFICES ASSUME i < k PROVE Malloc(f[i - 1]) \in f[k - 1]
    OBVIOUS
  <2>1. k - 1 \in 0 .. n /\ i \in 1 .. k - 1
    OBVIOUS
  <2> QED BY <2>1, <1>3
<1> HIDE DEF Good, Bad
<1> DEFINE r == Refill(n)
<1>7. r = [k \in 1 .. n |-> Malloc(f[k - 1])]
  BY <1>1
<1> HIDE DEF r
<1>8. \A k \in 1 .. n : r[k] = Malloc(f[k - 1])
  BY <1>7
<1>9. r \in [1 .. n -> Addresses]
  BY <1>4, <1>7
<1>10. r \in Seq(Addresses) /\ Len(r) = n
  BY <1>9
<1>11. \A i \in 1 .. n : r[i] \in Addresses \ allocated
  BY <1>4, <1>5, <1>8
<1>12. \A i, k \in 1 .. n : r[i] = r[k] => i = k
  <2> SUFFICES ASSUME NEW i \in 1 .. n, NEW k \in 1 .. n, r[i] = r[k], i # k PROVE FALSE
    OBVIOUS
  <2>1. i < k \/ k < i
    OBVIOUS
  <2> QED BY <2>1, <1>4, <1>6, <1>8
<1> QED BY <1>10, <1>11, <1>12 DEF r

Sums(f, free) ==
  f = [j \in 0 .. NbThreads |-> IF j = 0 THEN 0 ELSE f[j - 1] + Len(free[j - 1])]

LEMMA SumsExist ==
  ASSUME NEW free \in [Threads -> Seq(Addresses)]
  PROVE  \E f : Sums(f, free)
<1> DEFINE n == NbThreads
           Step(k, x) == x + Len(free[k - 1])
           step == [k \in 1 .. n |-> [x \in Nat |-> Step(k, x)]]
<1>1. n \in Nat
  BY ChunkAssumption
<1>2. \A k \in 1 .. n, x \in Nat : Step(k, x) \in Nat
  <2> TAKE k \in 1 .. n, x \in Nat
  <2>1. k - 1 \in Threads
    BY <1>1 DEF Threads
  <2>2. free[k - 1] \in Seq(Addresses)
    BY <2>1
  <2> QED BY <2>2
<1>3. \A k \in 1 .. n, x \in Nat : step[k][x] \in Nat
  <2> HIDE DEF Step
  <2> QED BY <1>2
<1> HIDE DEF n
<1>4. PICK f \in [0 .. n -> Nat] : f[0] = 0 /\ \A k \in 1 .. n : f[k] = step[k][f[k - 1]]
  <2> HIDE DEF step
  <2>1. \E f : Recurs(f, n, Nat, 0, step)
    BY <1>1, <1>3, Recursion
  <2> QED BY <2>1 DEF Recurs
<1>5. \A k \in 1 .. n : f[k] = Step(k, f[k - 1])
  <2> SUFFICES ASSUME NEW k \in 1 .. n PROVE f[k] = Step(k, f[k - 1])
    OBVIOUS
  <2>1. f[k - 1] \in Nat
    BY <1>1, <1>4
  <2> HIDE DEF Step
  <2> QED BY <2>1, <1>4
<1>6. \A k \in 0 .. n : f[k] = IF k = 0 THEN 0 ELSE Step(k, f[k - 1])
  <2> SUFFICES ASSUME NEW k \in 0 .. n PROVE f[k] = IF k = 0 THEN 0 ELSE Step(k, f[k - 1])
    OBVIOUS
  <2>1. k # 0 => k \in 1 .. n
    BY <1>1
  <2> HIDE DEF Step
  <2> QED BY <2>1, <1>4, <1>5
<1>7. f = [k \in 0 .. n |-> f[k]]
  BY <1>4
<1>8. f = [k \in 0 .. n |-> IF k = 0 THEN 0 ELSE Step(k, f[k - 1])]
  <2> HIDE DEF Step
  <2> QED BY <1>6, <1>7, Zenon
<1>9. Sums(f, free)
  BY <1>8 DEF Sums, n
<1> QED BY <1>9

LEMMA SumsOfLengths ==
  ASSUME NEW free \in [Threads -> Seq(Addresses)]
  PROVE  /\ SumTo(0, free) = 0
         /\ \A k \in Threads : SumTo(k + 1, free) = SumTo(k, free) + Len(free[k])
         /\ \A k \in 0 .. NbThreads : SumTo(k, free) \in Nat
<1> DEFINE f == CHOOSE g : Sums(g, free)
<1>1. Sums(f, free)
  BY SumsExist
<1>2. \A k : SumTo(k, free) = f[k]
  BY DEF SumTo, Sums
<1> HIDE DEF f
<1>3. NbThreads \in Nat
  BY ChunkAssumption
<1> DEFINE g == [j \in 0 .. NbThreads |-> IF j = 0 THEN 0 ELSE f[j - 1] + Len(free[j - 1])]
<1>4. f = g
  BY <1>1, Zenon DEF Sums
<1>5. g[0] = 0 /\ \A k \in Threads : g[k + 1] = f[k] + Len(free[k])
  BY <1>3 DEF Threads
<1> HIDE DEF g
<1>6. f[0] = 0 /\ \A k \in Threads : f[k + 1] = f[k] + Len(free[k])
  BY <1>4, <1>5
<1> DEFINE Bad == {k \in 0 .. NbThreads : f[k] \notin Nat}
<1>7. Bad = {}
  <2> SUFFICES ASSUME Bad # {} PROVE FALSE
    OBVIOUS
  <2>1. PICK k \in Bad : \A m \in Bad : k <= m
    <3>1. Bad \subseteq Nat
      OBVIOUS
    <3> HIDE DEF Bad
    <3> QED BY <3>1, LeastNatural
  <2>2. k \in 0 .. NbThreads /\ f[k] \notin Nat
    BY <2>1
  <2>3. k # 0
    BY <1>6, <2>2
  <2>4. k - 1 \in 0 .. NbThreads /\ k - 1 \in Threads /\ (k - 1) + 1 = k /\ ~(k <= k - 1)
    BY <1>3, <2>2, <2>3 DEF Threads
  <2>5. k - 1 \notin Bad
    <3> HIDE DEF Bad
    <3> QED BY <2>1, <2>4
  <2>6. f[k - 1] \in Nat
    BY <2>4, <2>5
  <2>7. free[k - 1] \in Seq(Addresses)
    BY <2>4
  <2>8. f[k] = f[k - 1] + Len(free[k - 1])
    BY <1>6, <2>4
  <2> QED BY <2>2, <2>6, <2>7, <2>8
<1>8. \A k \in 0 .. NbThreads : f[k] \in Nat
  BY <1>7
<1> QED BY <1>2, <1>6, <1>8

LEMMA Grows ==
  ASSUME NEW n \in Nat, NEW f \in [0 .. n -> Nat], \A k \in 0 .. n - 1 : f[k] <= f[k + 1],
         NEW i \in 0 .. n, NEW k \in 0 .. n, i <= k
  PROVE  f[i] <= f[k]
<1> DEFINE Bad == {m \in 0 .. n : i <= m /\ ~(f[i] <= f[m])}
<1> SUFFICES ASSUME Bad # {} PROVE FALSE
  OBVIOUS
<1>1. PICK m \in Bad : \A b \in Bad : m <= b
  <2>1. Bad \subseteq Nat
    OBVIOUS
  <2> HIDE DEF Bad
  <2> QED BY <2>1, LeastNatural
<1>2. m \in 0 .. n /\ i <= m /\ ~(f[i] <= f[m]) /\ i # m
  BY <1>1
<1>3. m - 1 \in 0 .. n - 1 /\ m - 1 \in 0 .. n /\ i <= m - 1 /\ ~(m <= m - 1) /\ (m - 1) + 1 = m
  BY <1>2
<1>4. m - 1 \notin Bad
  <2> HIDE DEF Bad
  <2> QED BY <1>1, <1>3
<1>5. f[i] <= f[m - 1] /\ f[m - 1] <= f[m]
  BY <1>3, <1>4
<1>6. f[i] \in Nat /\ f[m] \in Nat /\ f[m - 1] \in Nat
  BY <1>2, <1>3
<1> QED BY <1>2, <1>5, <1>6

LEMMA SumsGrow ==
  ASSUME NEW free \in [Threads -> Seq(Addresses)], NEW i \in 0 .. NbThreads, NEW k \in 0 .. NbThreads, i <= k
  PROVE  SumTo(i, free) <= SumTo(k, free)
<1> DEFINE f == [j \in 0 .. NbThreads |-> SumTo(j, free)]
<1>1. NbThreads \in Nat
  BY ChunkAssumption
<1>2. f \in [0 .. NbThreads -> Nat]
  BY SumsOfLengths
<1>3. ASSUME NEW j \in 0 .. NbThreads - 1 PROVE f[j] <= f[j + 1]
  <2>1. j \in Threads /\ j \in 0 .. NbThreads /\ j + 1 \in 0 .. NbThreads
    BY <1>1 DEF Threads
  <2>2. SumTo(j + 1, free) = SumTo(j, free) + Len(free[j]) /\ SumTo(j, free) \in Nat
    BY <2>1, SumsOfLengths
  <2>3. free[j] \in Seq(Addresses)
    BY <2>1
  <2>4. Len(free[j]) \in Nat
    BY <2>3
  <2> QED BY <2>1, <2>2, <2>4
<1>4. f[i] = SumTo(i, free) /\ f[k] = SumTo(k, free)
  OBVIOUS
<1> HIDE DEF f
<1>5. f[i] <= f[k]
  BY <1>1, <1>2, <1>3, Grows
<1> QED BY <1>4, <1>5

\* The list of a number: the last one that starts at or before it.
LastUpTo(k, c, id) == k = Max({i \in Threads : c[i] <= id})
LEMMA ListOfNumber ==
  ASSUME NEW free \in [Threads -> Seq(Addresses)], NEW c, c = [k \in Threads |-> SumTo(k, free)],
         NEW id \in Nat, NEW k, LastUpTo(k, c, id)
  PROVE  /\ k \in Threads /\ c[k] \in Nat /\ c[k] <= id /\ Len(free[k]) \in Nat
         /\ \A i \in Threads : i > k => id < c[i]
         /\ \A i \in Threads : i < k => c[i] + Len(free[i]) <= c[k]
         /\ id < SumTo(NbThreads, free) => id < c[k] + Len(free[k])
         /\ \A i \in Threads : c[i] <= id /\ id < c[i] + Len(free[i]) => i = k
<1> DEFINE S == {i \in Threads : c[i] <= id}
<1>1. NbThreads \in Nat /\ NbThreads > 0 /\ Threads = 0 .. NbThreads - 1
  BY ChunkAssumption DEF Threads
<1>2. \A i \in Threads : c[i] \in Nat /\ c[i] = SumTo(i, free) /\ c[i] + Len(free[i]) = SumTo(i + 1, free)
                         /\ Len(free[i]) \in Nat
  <2> TAKE i \in Threads
  <2>1. i \in 0 .. NbThreads
    BY <1>1
  <2>2. free[i] \in Seq(Addresses)
    OBVIOUS
  <2> QED BY <2>1, <2>2, SumsOfLengths
<1>3. 0 \in S
  <2>1. 0 \in Threads
    BY <1>1
  <2>2. c[0] = SumTo(0, free)
    BY <1>2, <2>1
  <2>3. c[0] = 0
    BY <2>2, SumsOfLengths
  <2> QED BY <2>1, <2>3
<1>4. k \in S /\ \A m \in S : m <= k
  <2>1. S \subseteq Threads
    OBVIOUS
  <2>2. k = Max(S)
    BY DEF LastUpTo
  <2> HIDE DEF S
  <2>3. S \subseteq 0 .. NbThreads - 1 /\ S # {}
    BY <1>1, <1>3, <2>1
  <2>4. NbThreads - 1 \in Nat
    BY <1>1
  <2> QED BY <2>2, <2>3, <2>4, MaxOf
<1>5. k \in Threads /\ c[k] <= id
  BY <1>4
<1>6. \A i \in Threads : i > k => id < c[i]
  <2> SUFFICES ASSUME NEW i \in Threads, i > k PROVE id < c[i]
    OBVIOUS
  <2>1. i \notin S
    <3>1. ~(i <= k)
      BY <1>1, <1>5
    <3> HIDE DEF S
    <3> QED BY <3>1, <1>4
  <2> QED BY <2>1, <1>2
<1>7. \A i, m \in Threads : i < m => c[i] + Len(free[i]) <= c[m]
  <2> SUFFICES ASSUME NEW i \in Threads, NEW m \in Threads, i < m PROVE c[i] + Len(free[i]) <= c[m]
    OBVIOUS
  <2>1. i + 1 \in 0 .. NbThreads /\ m \in 0 .. NbThreads /\ i + 1 <= m
    BY <1>1
  <2>2. SumTo(i + 1, free) <= SumTo(m, free)
    BY <2>1, SumsGrow
  <2> QED BY <2>2, <1>2
<1>8. id < SumTo(NbThreads, free) => id < c[k] + Len(free[k])
  <2> SUFFICES ASSUME id < SumTo(NbThreads, free) PROVE id < c[k] + Len(free[k])
    OBVIOUS
  <2>1. c[k] + Len(free[k]) = SumTo(k + 1, free)
    BY <1>2, <1>5
  <2>2. CASE k + 1 = NbThreads
    BY <2>1, <2>2
  <2>3. CASE k + 1 # NbThreads
    <3>1. k + 1 \in Threads /\ k + 1 > k
      BY <1>1, <1>5, <2>3
    <3>2. id < c[k + 1] /\ c[k + 1] = SumTo(k + 1, free)
      BY <3>1, <1>2, <1>6
    <3> QED BY <2>1, <3>2
  <2> QED BY <2>2, <2>3
<1>9. \A i \in Threads : c[i] <= id /\ id < c[i] + Len(free[i]) => i = k
  <2> SUFFICES ASSUME NEW i \in Threads, c[i] <= id, id < c[i] + Len(free[i]), i # k PROVE FALSE
    OBVIOUS
  <2>1. i \in S
    OBVIOUS
  <2>2. i < k
    <3> HIDE DEF S
    <3>1. i <= k
      BY <2>1, <1>4
    <3> QED BY <3>1, <1>1, <1>5
  <2>3. c[i] + Len(free[i]) <= c[k]
    BY <2>2, <1>5, <1>7
  <2> QED BY <2>3, <1>2, <1>5
<1> QED BY <1>2, <1>5, <1>6, <1>7, <1>8, <1>9

SpareIds == 0 .. number_of_spare_chunks - 1
\* The places of the freelists from which update_free_list_sizes takes chunks.
Taken(t, i) == \/ t < lastSpare
               \/ t = lastSpare /\ i > FREE_INDEX(t) - (number_of_spare_chunks - cumulative[t])

LEMMA SpareIdsOfBags ==
  /\ number_of_spare_chunks \in Nat
  /\ \A kind \in BagKinds, j \in Cells : SpareChunkId(kind, j) \in SpareIds
  /\ \A id \in SpareIds : \E kind \in BagKinds, j \in Cells : id = SpareChunkId(kind, j)
  /\ \A j \in Cells : SpareChunkId(ID_SHARED_BAG, j) = 2 * j /\ SpareChunkId(ID_PRIVATE_BAG, j) = 2 * j + 1
  /\ \A k, kind \in BagKinds, i, j \in Cells : SpareChunkId(k, i) = SpareChunkId(kind, j) => k = kind /\ i = j
<1>1. NumCells \in Nat
  BY NumCellsNatural
<1>2. number_of_spare_chunks \in Nat
  BY <1>1 DEF number_of_spare_chunks
<1>3. \A j \in Cells : SpareChunkId(ID_SHARED_BAG, j) = 2 * j /\ SpareChunkId(ID_PRIVATE_BAG, j) = 2 * j + 1
  BY <1>1 DEF SpareChunkId, ID_SHARED_BAG, ID_PRIVATE_BAG, Cells
<1>4. \A kind \in BagKinds : kind = ID_SHARED_BAG \/ kind = ID_PRIVATE_BAG
  BY DEF BagKinds
<1>5. ID_SHARED_BAG \in BagKinds /\ ID_PRIVATE_BAG \in BagKinds
  BY DEF BagKinds
<1>6. \A kind \in BagKinds, j \in Cells : SpareChunkId(kind, j) = 2 * j \/ SpareChunkId(kind, j) = 2 * j + 1
  BY <1>3, <1>4
<1>7. \A kind \in BagKinds, j \in Cells : SpareChunkId(kind, j) \in SpareIds
  BY <1>1, <1>6 DEF SpareIds, number_of_spare_chunks, Cells
<1>8. ASSUME NEW id \in SpareIds PROVE \E kind \in BagKinds, j \in Cells : id = SpareChunkId(kind, j)
  <2> DEFINE j == id \div 2
  <2>1. id \in Nat /\ id < 2 * NumCells
    BY <1>1 DEF SpareIds, number_of_spare_chunks
  <2>2. j \in Nat /\ j < NumCells /\ (id = 2 * j \/ id = 2 * j + 1)
    BY <1>1, <2>1
  <2> HIDE DEF j
  <2>3. j \in Cells
    BY <1>1, <2>2 DEF Cells
  <2> QED BY <1>3, <1>5, <2>2, <2>3
<1>9. ASSUME NEW k \in BagKinds, NEW kind \in BagKinds, NEW i \in Cells, NEW j \in Cells,
             SpareChunkId(k, i) = SpareChunkId(kind, j)
      PROVE  k = kind /\ i = j
  <2>1. i \in Nat /\ j \in Nat
    BY <1>1 DEF Cells
  <2> QED BY <1>3, <1>4, <1>9, <2>1
<1> QED BY <1>2, <1>3, <1>7, <1>8, <1>9

\* While the append phase takes them, the numbers locate different chunks.
LEMMA SpareLocated ==
  ASSUME MemoryInv, SparesInv, phase = "append", build # "STDCHUNKALLOC", NEW id \in SpareIds
  PROVE  LET k == ListOfSpare(id) IN
         /\ k \in Threads /\ ~SpareMissing(id)
         /\ PlaceOfSpare(id) \in 1 .. FREE_INDEX(k) /\ Taken(k, PlaceOfSpare(id))
         /\ lastSpare \in Threads /\ k <= lastSpare /\ cumulative[k] \in Nat /\ FREE_INDEX(k) \in Nat
         /\ cumulative[k] <= id /\ id < cumulative[k] + FREE_INDEX(k)
<1> DEFINE k == ListOfSpare(id)  n == number_of_spare_chunks  last == lastSpare
<1>1. freeChunks \in [Threads -> Seq(Addresses)]
  BY DEF MemoryInv
<1>2. /\ cumulative = [t \in Threads |-> SumTo(t, freeChunks)]
      /\ last = Max({t \in Threads : cumulative[t] <= n})
      /\ SumTo(NbThreads, freeChunks) >= n
  BY DEF SparesInv
<1>3. n \in Nat /\ id \in Nat /\ id < n /\ SumTo(NbThreads, freeChunks) \in Nat
  <2>1. NbThreads \in 0 .. NbThreads
    BY ChunkAssumption
  <2> QED BY <2>1, <1>1, SpareIdsOfBags, SumsOfLengths DEF SpareIds
<1>4. LastUpTo(k, cumulative, id) /\ LastUpTo(last, cumulative, n)
  BY <1>2 DEF ListOfSpare, LastUpTo
<1>5. id < SumTo(NbThreads, freeChunks)
  BY <1>2, <1>3
<1> HIDE DEF k, n, last
<1>6. /\ k \in Threads /\ cumulative[k] \in Nat /\ cumulative[k] <= id /\ FREE_INDEX(k) \in Nat
      /\ \A i \in Threads : i > k => id < cumulative[i]
      /\ id < cumulative[k] + FREE_INDEX(k)
  BY <1>1, <1>2, <1>3, <1>4, <1>5, ListOfNumber DEF FREE_INDEX
<1>7. /\ last \in Threads /\ cumulative[last] \in Nat /\ cumulative[last] <= n
      /\ \A i \in Threads : i > last => n < cumulative[i]
      /\ \A i \in Threads : i < last => cumulative[i] + FREE_INDEX(i) <= cumulative[last]
  <2>1. cumulative = [t \in Threads |-> SumTo(t, freeChunks)]
    BY <1>2
  <2>2. LastUpTo(last, cumulative, n)
    BY <1>4
  <2>3. /\ last \in Threads /\ cumulative[last] \in Nat /\ cumulative[last] <= n
        /\ \A i \in Threads : i > last => n < cumulative[i]
        /\ \A i \in Threads : i < last => cumulative[i] + Len(freeChunks[i]) <= cumulative[last]
    BY <1>1, <2>1, <1>3, <2>2, ListOfNumber
  <2> QED BY <2>3 DEF FREE_INDEX
<1>8. k <= last
  <2> SUFFICES ASSUME k > last PROVE FALSE
    BY <1>6, <1>7, ChunkAssumption DEF Threads
  <2> QED BY <1>3, <1>6, <1>7
<1>9. SpareMissing(id) <=> id - cumulative[k] >= FREE_INDEX(k)
  BY DEF SpareMissing, k
<1>10. PlaceOfSpare(id) =
         IF build = "SPARE_LOC_OPTIMIZED"
         THEN 1 + (id - cumulative[k]) + (IF k = last THEN FREE_INDEX(k) - (n - cumulative[k]) ELSE 0)
         ELSE FREE_INDEX(k) - (id - cumulative[k])
  BY DEF PlaceOfSpare, k, n, last
<1> DEFINE f == FREE_INDEX(k)  c == cumulative[k]  p == PlaceOfSpare(id)
<1>11. n <= SumTo(NbThreads, freeChunks) /\ k = last => n <= c + f
  <2> SUFFICES ASSUME k = last PROVE n <= c + f
    BY <1>2
  <2>1. NbThreads \in Nat /\ Threads = 0 .. NbThreads - 1
    BY ChunkAssumption DEF Threads
  <2>2. c + f = SumTo(k + 1, freeChunks)
    BY <1>1, <1>2, <1>6, SumsOfLengths DEF FREE_INDEX
  <2>3. CASE k + 1 = NbThreads
    BY <1>2, <2>2, <2>3 DEF n
  <2>4. CASE k + 1 # NbThreads
    <3>1. k + 1 \in Threads /\ k + 1 > last
      BY <1>6, <2>1, <2>4
    <3>2. n < cumulative[k + 1] /\ cumulative[k + 1] = SumTo(k + 1, freeChunks)
      BY <1>2, <1>7, <3>1
    <3>3. SumTo(k + 1, freeChunks) \in Nat
      BY <1>1, <2>1, <3>1, SumsOfLengths
    <3> QED BY <1>3, <2>2, <3>2, <3>3
  <2> QED BY <2>3, <2>4
<1>12. n <= SumTo(NbThreads, freeChunks)
  BY <1>2, <1>3 DEF n
<1>13. p = IF build = "SPARE_LOC_OPTIMIZED" THEN 1 + (id - c) + (IF k = last THEN f - (n - c) ELSE 0) ELSE f - (id - c)
  BY <1>10
<1>14. Taken(k, p) <=> k < last \/ (k = last /\ p > f - (n - c))
  BY DEF Taken, n, last
<1>15. f \in Nat /\ c \in Nat /\ c <= id /\ id < c + f /\ (k = last => n <= c + f)
  BY <1>6, <1>11, <1>12
<1> HIDE DEF f, c, p
<1>16. k \in Int /\ last \in Int
  BY <1>6, <1>7, ChunkAssumption DEF Threads
<1>17. p \in 1 .. f
  BY <1>3, <1>13, <1>15
<1>18. k = last => p > f - (n - c)
  BY <1>3, <1>13, <1>15
<1>19. Taken(k, p)
  BY <1>8, <1>14, <1>16, <1>18
<1>20. ~SpareMissing(id)
  BY <1>3, <1>6, <1>9
<1> QED BY <1>6, <1>7, <1>8, <1>17, <1>19, <1>20 DEF k, p, f, last

LEMMA SparesApart ==
  ASSUME MemoryInv, FreesInv, SparesInv, phase = "append", build # "STDCHUNKALLOC",
         NEW id \in SpareIds, NEW other \in SpareIds, Spare(id) = Spare(other)
  PROVE  id = other
<1> DEFINE k == ListOfSpare(id)  l == ListOfSpare(other)  p == PlaceOfSpare(id)  q == PlaceOfSpare(other)
<1>1. /\ k \in Threads /\ p \in 1 .. FREE_INDEX(k) /\ cumulative[k] \in Nat /\ FREE_INDEX(k) \in Nat
      /\ cumulative[k] <= id
  BY SpareLocated
<1>2. l \in Threads /\ q \in 1 .. FREE_INDEX(l) /\ cumulative[l] <= other
  BY SpareLocated
<1>3. Spare(id) = freeChunks[k][p] /\ Spare(other) = freeChunks[l][q]
  BY DEF Spare
<1>4. p = IF build = "SPARE_LOC_OPTIMIZED"
          THEN 1 + (id - cumulative[k]) + (IF k = lastSpare THEN FREE_INDEX(k) - (number_of_spare_chunks - cumulative[k]) ELSE 0)
          ELSE FREE_INDEX(k) - (id - cumulative[k])
  BY DEF PlaceOfSpare
<1>5. q = IF build = "SPARE_LOC_OPTIMIZED"
          THEN 1 + (other - cumulative[l]) + (IF l = lastSpare THEN FREE_INDEX(l) - (number_of_spare_chunks - cumulative[l]) ELSE 0)
          ELSE FREE_INDEX(l) - (other - cumulative[l])
  BY DEF PlaceOfSpare
<1>6. number_of_spare_chunks \in Nat /\ id \in Nat /\ other \in Nat
  BY SpareIdsOfBags DEF SpareIds
<1> HIDE DEF k, l, p, q
<1>7. \A t \in Threads : DOMAIN freeChunks[t] = 1 .. FREE_INDEX(t)
  BY DEF MemoryInv, FREE_INDEX
<1>8. freeChunks[k][p] \in Elements(freeChunks[k]) /\ freeChunks[l][q] \in Elements(freeChunks[l])
  BY <1>1, <1>2, <1>7 DEF Elements
<1>9. k = l
  BY <1>1, <1>2, <1>3, <1>8 DEF FreesInv
<1>10. p = q
  BY <1>1, <1>2, <1>3, <1>7, <1>9 DEF FreesInv
<1> QED BY <1>1, <1>4, <1>5, <1>6, <1>9, <1>10

\* The chunks that the bags take are those that update_free_list_sizes takes away.
LEMMA SparesTaken ==
  ASSUME MemoryInv, FreesInv, SparesInv, phase = "append", build # "STDCHUNKALLOC",
         NEW t \in Threads, NEW i \in 1 .. FREE_INDEX(t)
  PROVE  Taken(t, i) <=> \E id \in SpareIds : freeChunks[t][i] = Spare(id)
<1> DEFINE n == number_of_spare_chunks  last == lastSpare
<1>1. freeChunks \in [Threads -> Seq(Addresses)]
  BY DEF MemoryInv
<1>2. /\ cumulative = [s \in Threads |-> SumTo(s, freeChunks)]
      /\ last = Max({s \in Threads : cumulative[s] <= n})
      /\ SumTo(NbThreads, freeChunks) >= n
  BY DEF SparesInv
<1>3. n \in Nat
  BY SpareIdsOfBags
<1>4. LastUpTo(last, cumulative, n)
  BY <1>2 DEF LastUpTo
<1>5. \A s \in Threads : DOMAIN freeChunks[s] = 1 .. FREE_INDEX(s)
  BY DEF MemoryInv, FREE_INDEX
<1>6. ASSUME NEW id \in SpareIds, freeChunks[t][i] = Spare(id) PROVE Taken(t, i)
  <2> DEFINE k == ListOfSpare(id)  p == PlaceOfSpare(id)
  <2>1. k \in Threads /\ p \in 1 .. FREE_INDEX(k) /\ Taken(k, p)
    BY SpareLocated
  <2>2. Spare(id) = freeChunks[k][p]
    BY DEF Spare
  <2> HIDE DEF k, p
  <2>3. freeChunks[k][p] \in Elements(freeChunks[k]) /\ freeChunks[t][i] \in Elements(freeChunks[t])
    BY <1>5, <2>1 DEF Elements
  <2>4. k = t
    BY <1>6, <2>1, <2>2, <2>3 DEF FreesInv
  <2>5. p = i
    BY <1>5, <1>6, <2>1, <2>2, <2>4 DEF FreesInv
  <2> QED BY <2>1, <2>4, <2>5
<1>7. ASSUME Taken(t, i) PROVE \E id \in SpareIds : freeChunks[t][i] = Spare(id)
  <2> HIDE DEF n, last
  <2>1. /\ last \in Threads /\ cumulative[last] \in Nat /\ cumulative[last] <= n
        /\ \A s \in Threads : s < last => cumulative[s] + FREE_INDEX(s) <= cumulative[last]
    <3>1. cumulative = [s \in Threads |-> SumTo(s, freeChunks)]
      BY <1>2
    <3>2. /\ last \in Threads /\ cumulative[last] \in Nat /\ cumulative[last] <= n
          /\ \A s \in Threads : s < last => cumulative[s] + Len(freeChunks[s]) <= cumulative[last]
      BY <1>1, <3>1, <1>3, <1>4, ListOfNumber
    <3> QED BY <3>2 DEF FREE_INDEX
  <2>2. t < last \/ (t = last /\ i > FREE_INDEX(t) - (n - cumulative[t]))
    BY <1>7 DEF Taken, n, last
  <2>3. cumulative[t] \in Nat /\ FREE_INDEX(t) \in Nat
    <3>1. t \in 0 .. NbThreads
      BY ChunkAssumption DEF Threads
    <3>2. freeChunks[t] \in Seq(Addresses)
      BY <1>1
    <3> QED BY <1>1, <1>2, <3>1, <3>2, SumsOfLengths DEF FREE_INDEX
  <2> DEFINE c == cumulative[t]  f == FREE_INDEX(t)
             id == IF build = "SPARE_LOC_OPTIMIZED"
                   THEN c + (i - 1) - (IF t = last THEN f - (n - c) ELSE 0)
                   ELSE c + f - i
  <2>4. t < last => c + f <= n
    BY <1>3, <2>1, <2>3
  <2>5. t = last => n <= c + f
    <3> SUFFICES ASSUME t = last PROVE n <= c + f
      OBVIOUS
    <3>1. NbThreads \in Nat /\ Threads = 0 .. NbThreads - 1
      BY ChunkAssumption DEF Threads
    <3>2. c + f = SumTo(t + 1, freeChunks)
      BY <1>1, <1>2, SumsOfLengths DEF FREE_INDEX
    <3>3. CASE t + 1 = NbThreads
      <4>1. SumTo(NbThreads, freeChunks) \in Nat
        BY <1>1, <3>1, SumsOfLengths
      <4> QED BY <1>2, <1>3, <3>2, <3>3, <4>1 DEF n
    <3>4. CASE t + 1 # NbThreads
      <4>1. t + 1 \in Threads /\ t + 1 > last
        BY <3>1, <3>4
      <4>2. \A s \in Threads : s > last => n < cumulative[s]
        <5> HIDE DEF id
        <5> QED BY <1>1, <1>2, <1>3, <1>4, ListOfNumber
      <4>3. n < cumulative[t + 1] /\ cumulative[t + 1] = SumTo(t + 1, freeChunks)
        BY <1>2, <4>1, <4>2
      <4>4. SumTo(t + 1, freeChunks) \in Nat
        BY <1>1, <3>1, <4>1, SumsOfLengths
      <4> QED BY <1>3, <3>2, <4>3, <4>4
    <3> QED BY <3>3, <3>4
  <2>6. t \in Int /\ last \in Int /\ i \in Int /\ i >= 1 /\ i <= f
    BY <2>1, <2>3, ChunkAssumption DEF Threads
  <2>7. c \in Nat /\ f \in Nat
    BY <2>3
  <2>8. t < last \/ (t = last /\ i > f - (n - c))
    BY <2>2
  <2> HIDE DEF c, f
  <2>9. id \in Nat /\ id < n /\ c <= id /\ id < c + f
    BY <1>3, <2>4, <2>5, <2>6, <2>7, <2>8
  <2>10. id \in SpareIds
    BY <2>9, <1>3 DEF SpareIds, n
  <2>11. i = IF build = "SPARE_LOC_OPTIMIZED" THEN 1 + (id - c) + (IF t = last THEN f - (n - c) ELSE 0) ELSE f - (id - c)
    BY <1>3, <2>4, <2>5, <2>6, <2>7, <2>8
  <2> HIDE DEF id
  <2>12. ListOfSpare(id) = t
    <3> DEFINE k == ListOfSpare(id)
    <3>1. LastUpTo(k, cumulative, id)
      BY DEF ListOfSpare, LastUpTo
    <3> HIDE DEF k
    <3>2. \A s \in Threads : cumulative[s] <= id /\ id < cumulative[s] + Len(freeChunks[s]) => s = k
      BY <1>1, <1>2, <2>9, <3>1, ListOfNumber
    <3>3. t = k
      BY <2>9, <3>2 DEF c, f, FREE_INDEX
    <3> QED BY <3>3 DEF k
  <2>13. PlaceOfSpare(id) = i
    BY <2>11, <2>12 DEF PlaceOfSpare, c, f, n, last
  <2>14. Spare(id) = freeChunks[t][i]
    BY <2>12, <2>13 DEF Spare
  <2> QED BY <2>10, <2>14
<1> QED BY <1>6, <1>7

-----------------------------------------------------------------------------
(* What a step leaves alone.                                                *)

LEMMA FrontsSame ==
  ASSUME UNCHANGED <<phase, tiles, loop, i_color, appendNext, particles, particlesNext>>
  PROVE  Fronts' = Fronts
BY DEF Fronts, CurrentFront, NextFront, Pending, Appended, Visitors, Working

OutOfLists(a) == \E t \in Threads : a \in Elements(freeChunks[t]) \/ (push[t].pc = "publish" /\ push[t].c = a)
ListedNow == Handed = {} /\ Listed = {a \in allocated : ~OutOfLists(a)}

LEMMA ListedUnhanded == Handed = {} => ListedNow
<1> SUFFICES ASSUME Handed = {} PROVE ListedNow
  OBVIOUS
<1>1. Handed = {}
  OBVIOUS
<1>2. ASSUME NEW a
      PROVE  a \in Loose <=> OutOfLists(a)
  <2>1. a \in UNION {InHand(t) : t \in Threads} <=> \E t \in Threads : a \in InHand(t)
    OBVIOUS
  <2>2. a \in UNION {Elements(freeChunks[t]) \ Handed : t \in Threads}
          <=> \E t \in Threads : a \in Elements(freeChunks[t])
    BY <1>1
  <2>3. \A t \in Threads : a \in InHand(t) <=> (push[t].pc = "publish" /\ push[t].c = a)
    BY DEF InHand
  <2> QED BY <2>1, <2>2, <2>3 DEF Loose, OutOfLists
<1> QED BY <1>1, <1>2 DEF Listed, ListedNow

LEMMA ListedUnhandedNext == (Handed = {} => ListedNow)'
BY ListedUnhanded, PTL

LEMMA ListedOutsideAppend == phase # "append" => ListedNow
BY ListedUnhanded DEF Handed

LEMMA ListedOutsideAppendNext == (phase # "append" => ListedNow)'
BY ListedOutsideAppend, PTL

LEMMA LinksAre ==
  /\ \A a \in Addresses : Links[a] = chunk[a].next
  /\ MemoryInv => LinksTyped
BY DEF Links, MemoryInv, ChunkShape, LinksTyped

\* The front chunk of a bag of the next step is in its list.
LEMMA FrontListed ==
  ASSUME NEW owner, NEW pos, ListsInv(owner, pos), NEW kind \in BagKinds, NEW j \in Cells
  PROVE  NextFront(kind, j) \in Listed /\ owner[NextFront(kind, j)] = NextId(kind, j)
<1> DEFINE l == NextId(kind, j)
<1>1. l \in ListIds /\ Fronts[l] = NextFront(kind, j)
  BY Ids, FrontOf
<1>2. Fronts[l] # NULL
  BY DEF ListsInv, Heads
<1>3. Chained(owner, pos, Links, Listed, Fronts)
  BY DEF ListsInv
<1> HIDE DEF l
<1>4. Fronts[l] \in Listed /\ owner[Fronts[l]] = l
  BY <1>1, <1>2, <1>3 DEF Chained
<1> QED BY <1>1, <1>4 DEF l

LEMMA TargetListed ==
  ASSUME NEW owner, NEW pos, ListsInv(owner, pos), PInv, NEW t \in Threads, ~Idle(t)
  PROVE  /\ push[t].kind \in BagKinds /\ push[t].cell \in Cells
         /\ Target(t).front = NextFront(push[t].kind, push[t].cell)
         /\ Target(t).front \in Listed
         /\ owner[Target(t).front] = NextId(push[t].kind, push[t].cell)
<1>1. push[t].kind \in BagKinds
  BY DEF ListsInv, PushesInv, PushAt
<1>2. push[t].cell \in Cells
  BY DEF PInv, PushInv
<1>3. Target(t).front = NextFront(push[t].kind, push[t].cell)
  BY DEF Target, NextFront
<1>4. /\ NextFront(push[t].kind, push[t].cell) \in Listed
      /\ owner[NextFront(push[t].kind, push[t].cell)] = NextId(push[t].kind, push[t].cell)
  BY <1>1, <1>2, FrontListed
<1> QED BY <1>1, <1>2, <1>3, <1>4

LEMMA ListedIsMemory == MemoryInv => Listed \subseteq allocated /\ Listed \subseteq Addresses
BY DEF MemoryInv, Listed

-----------------------------------------------------------------------------
(* The steps of a push that leave the lists alone.                          *)

\* Thread t goes on pushing, and writes no other chunk than w, of the bag.
QuietStep(t, r, w, x) ==
  /\ phase = "move"
  /\ UNCHANGED <<build, allocated, freeChunks, spareVars, particles, particlesNext, failed, simVars>>
  /\ ~Idle(t) /\ push[t].pc \notin {"publish", "returned"}
  /\ push' = [push EXCEPT ![t] = r]
  /\ r.kind = push[t].kind /\ r.cell = push[t].cell /\ r.pc # "publish"
  /\ chunk' = [chunk EXCEPT ![w] = x]
  /\ ChunkShape(x) /\ x.next = chunk[w].next
  /\ x.size >= CHUNK_SIZE \/ (~Full(w) /\ x.size >= chunk[w].size)

LEMMA QuietKeeps ==
  ASSUME PInv, OwnInv, SerialPushExclusive, NEW owner, NEW pos, ListsInv(owner, pos),
         NEW t \in Threads, NEW r, NEW w \in Listed, owner[w] = NextId(push[t].kind, push[t].cell), NEW x,
         QuietStep(t, r, w, x),
         LateInv', ExtendersInv', Listed' = Listed => PushAt(owner, t)'
  PROVE  OwnInv' /\ OwnersStay
<1>1. /\ phase = "move" /\ phase' = "move"
      /\ UNCHANGED <<build, allocated, freeChunks, particles, particlesNext, phase, tiles, loop, i_color, appendNext>>
  BY DEF QuietStep, simVars
<1>2. /\ push = [u \in Threads |-> push[u]]
      /\ chunk = [a \in Addresses |-> chunk[a]] /\ \A a \in Addresses : ChunkShape(chunk[a])
      /\ w \in Addresses /\ w \in allocated
  BY ListedIsMemory DEF PInv, RegistersInv, OwnInv, MemoryInv
<1>3. /\ push' = [u \in Threads |-> IF u = t THEN r ELSE push[u]]
      /\ chunk' = [a \in Addresses |-> IF a = w THEN x ELSE chunk[a]]
  BY <1>2 DEF QuietStep
<1>4. \A a \in Addresses : ChunkShape(chunk'[a]) /\ chunk'[a].next = chunk[a].next /\ (a # w => chunk'[a] = chunk[a])
  BY <1>2, <1>3 DEF QuietStep
<1>5. \A u \in Threads : u # t => push'[u] = push[u]
  BY <1>3
<1>6. push'[t] = r /\ r.kind = push[t].kind /\ r.cell = push[t].cell /\ r.pc # "publish" /\ push[t].pc # "publish"
  BY <1>3 DEF QuietStep
<1>7. Fronts' = Fronts
  BY <1>1, FrontsSame
<1>8. Listed' = Listed
  <2>1. \A a : OutOfLists(a)' <=> OutOfLists(a)
    BY <1>1, <1>5, <1>6 DEF OutOfLists
  <2>2. ListedNow /\ ListedNow'
    BY <1>1, ListedOutsideAppend, ListedOutsideAppendNext
  <2> QED BY <1>1, <2>1, <2>2 DEF ListedNow
<1>9. MemoryInv'
  <2>1. MemoryInv
    BY DEF OwnInv
  <2>2. chunk' = [a \in Addresses |-> chunk'[a]]
    BY <1>3
  <2> QED BY <1>1, <1>4, <2>1, <2>2 DEF MemoryInv
<1>10. FreesInv'
  BY <1>1 DEF OwnInv, FreesInv
<1>11. HandsInv'
  <2>1. ASSUME NEW u \in Threads, push'[u].pc = "publish"
        PROVE  /\ push'[u].c \in allocated'
               /\ \A v \in Threads : push'[u].c \notin Elements(freeChunks'[v])
               /\ \A v \in Threads : v # u /\ push'[v].pc = "publish" => push'[v].c # push'[u].c
               /\ chunk'[push'[u].c].next = Target(u)'.front /\ chunk'[push'[u].c].size = 0
    <3>1. u # t /\ push'[u] = push[u] /\ push[u].pc = "publish"
      BY <1>5, <1>6, <2>1
    <3>2. /\ push[u].c \in allocated
          /\ \A v \in Threads : push[u].c \notin Elements(freeChunks[v])
          /\ \A v \in Threads : v # u /\ push[v].pc = "publish" => push[v].c # push[u].c
          /\ chunk[push[u].c].next = Target(u).front /\ chunk[push[u].c].size = 0
      BY <3>1 DEF OwnInv, HandsInv
    <3>3. push[u].c \notin Listed
      <4>1. ListedNow
        BY <1>1, ListedOutsideAppend
      <4> QED BY <3>1, <4>1 DEF ListedNow, OutOfLists
    <3>4. push[u].c \in Addresses /\ push[u].c # w
      BY <3>2, <3>3 DEF OwnInv, MemoryInv
    <3>5. Target(u)' = Target(u)
      BY <1>1, <3>1 DEF Target
    <3>6. \A v \in Threads : v # u /\ push'[v].pc = "publish" => push'[v].c # push'[u].c
      BY <1>5, <1>6, <3>1, <3>2
    <3> QED BY <1>1, <1>4, <3>1, <3>2, <3>4, <3>5, <3>6
  <2> QED BY <2>1 DEF HandsInv
<1>12. LoopInv' /\ AppendInv' /\ SparesInv'
  <2>1. LoopInv'
    BY <1>1 DEF OwnInv, LoopInv, Working
  <2>2. AppendInv'
    BY <1>1 DEF OwnInv, AppendInv
  <2> QED BY <1>1, <2>1, <2>2 DEF SparesInv
<1>13. Chained(owner, pos, Links', Listed', Fronts')
  <2>1. Chained(owner, pos, Links, Listed, Fronts)
    BY DEF ListsInv
  <2>2. Links' = Links
    BY <1>4 DEF Links
  <2> QED BY <1>7, <1>8, <2>1, <2>2
<1>14. Heads(owner, pos)'
  <2>1. Heads(owner, pos)
    BY DEF ListsInv
  <2>2. \A j \in Cells : Pending(j)' <=> Pending(j)
    BY <1>1 DEF Pending
  <2> QED BY <1>1, <1>7, <1>8, <2>1, <2>2 DEF Heads
<1>15. \A c \in Addresses : Full(c) => Full(c)'
  BY <1>2, <1>3, <1>4 DEF QuietStep, Full
<1>16. BehindInv(owner)'
  <2>1. BehindInv(owner)
    BY DEF ListsInv
  <2>2. Listed \subseteq Addresses
    BY ListedIsMemory DEF OwnInv
  <2> QED BY <1>1, <1>8, <1>15, <2>1, <2>2 DEF BehindInv, NextFront
<1>17. CreateInv'
  BY <1>1 DEF CreateInv
<1>18. ASSUME NEW u \in Threads, u # t PROVE PushAt(owner, u)'
  <2>1. push'[u] = push[u] /\ Target(u)' = Target(u)
    BY <1>1, <1>5, <1>18 DEF Target
  <2>2. PushAt(owner, u)
    BY DEF ListsInv, PushesInv
  <2>3. push[u].pc \in {"serial_write", "capture", "write", "undo", "spin"} =>
          push[u].c \in Addresses /\ push[u].c \in Listed /\ owner[push[u].c] = NextId(push[u].kind, push[u].cell)
    BY <2>2, ListedIsMemory DEF PushAt, OwnInv
  <2>4. push[u].pc = "write" => push[u].index < chunk'[push[u].c].size
    <3> SUFFICES ASSUME push[u].pc = "write" PROVE push[u].index < chunk'[push[u].c].size
      OBVIOUS
    <3>1. push[u].index \in Slots /\ push[u].index < chunk[push[u].c].size /\ push[u].c \in Addresses
      BY <2>2, <2>3 DEF PushAt
    <3>2. CASE push[u].c # w
      BY <1>4, <3>1, <3>2
    <3>3. CASE push[u].c = w
      <4>1. chunk'[w] = x /\ (x.size >= CHUNK_SIZE \/ x.size >= chunk[w].size) /\ x.size \in Nat /\ chunk[w].size \in Nat
        BY <1>2, <1>3 DEF QuietStep, ChunkShape
      <4>2. push[u].index \in Nat /\ push[u].index < CHUNK_SIZE /\ CHUNK_SIZE \in Nat
        BY <3>1, ChunkAssumption DEF Slots
      <4> QED BY <3>1, <3>3, <4>1, <4>2
    <3> QED BY <3>2, <3>3
  <2>5. push[u].pc = "serial_write" => push[u].c # w
    <3> SUFFICES ASSUME push[u].pc = "serial_write", push[u].c = w PROVE FALSE
      OBVIOUS
    <3>1. NextId(push[u].kind, push[u].cell) = NextId(push[t].kind, push[t].cell)
      BY <2>3
    <3>2. push[u].kind = push[t].kind /\ push[u].cell = push[t].cell
      BY <3>1, Ids
    <3>3. push[u].kind = ID_PRIVATE_BAG
      BY <2>2 DEF PushAt
    <3>4. InSerialPush(u)
      BY <3>3 DEF InSerialPush, Idle
    <3>5. ~InSerialPush(t)
      BY <3>2, <3>4, <1>18 DEF SerialPushExclusive
    <3>6. push[t].pc = "returned"
      BY <3>2, <3>3, <3>5 DEF InSerialPush, QuietStep
    <3> QED BY <3>6 DEF QuietStep
  <2>6. push[u].pc = "serial_write" => chunk'[push[u].c].size = chunk[push[u].c].size
    BY <1>4, <2>3, <2>5
  <2> QED BY <1>8, <1>15, <2>1, <2>2, <2>3, <2>4, <2>6 DEF PushAt
<1>19. PushesInv(owner)'
  BY <1>8, <1>18 DEF PushesInv
<1>20. ListsInv(owner, pos)'
  BY <1>13, <1>14, <1>16, <1>17, <1>19 DEF ListsInv
<1>21. OwnersStay
  BY <1>20 DEF OwnersStay
<1> QED BY <1>9, <1>10, <1>11, <1>12, <1>20, <1>21 DEF OwnInv

\* The registers of a push after one of its steps.
Changed(t, pc, c, index) == [push[t] EXCEPT !.pc = pc, !.c = c, !.index = index]

LEMMA ChangedFields ==
  ASSUME PInv, NEW t \in Threads, NEW pc, NEW c, NEW index
  PROVE  /\ Changed(t, pc, c, index).pc = pc /\ Changed(t, pc, c, index).c = c
         /\ Changed(t, pc, c, index).index = index
         /\ Changed(t, pc, c, index).kind = push[t].kind /\ Changed(t, pc, c, index).cell = push[t].cell
<1>1. PushShape(push[t])
  BY DEF PInv, RegistersInv
<1> QED BY <1>1 DEF Changed, PushShape, PushFields

\* The step by which thread t comes to extend the bag, which it fills.
LEMMA ExtendersStep ==
  ASSUME ExtendersInv, UNCHANGED particlesNext, NEW t \in Threads,
         push[t].kind \in BagKinds, push[t].cell \in Cells,
         push'[t].kind = push[t].kind, push'[t].cell = push[t].cell,
         \A u \in Threads : u # t => push'[u] = push[u],
         \A kind \in BagKinds, j \in Cells :
           kind # push[t].kind \/ j # push[t].cell => (Full(NextFront(kind, j))' <=> Full(NextFront(kind, j))),
         \/ /\ Extends(t)' <=> Extends(t)
            /\ Full(NextFront(push[t].kind, push[t].cell))' <=> Full(NextFront(push[t].kind, push[t].cell))
         \/ /\ ~Full(NextFront(push[t].kind, push[t].cell))
            /\ Full(NextFront(push[t].kind, push[t].cell))' <=> Extends(t)'
  PROVE  ExtendersInv'
<1> DEFINE Into(u, kind, j) == push[u].kind = kind /\ push[u].cell = j
           k == push[t].kind  i == push[t].cell
           F(kind, j) == Full(NextFront(kind, j))
           F2(kind, j) == F(kind, j)'
           E(u) == Extends(u)
           E2(u) == E(u)'
<1>1. \A u \in Threads : u # t => (E2(u) <=> E(u))
  BY DEF Extends
<1>2. \A u \in Threads : \A kind, j : Into(u, kind, j)' <=> Into(u, kind, j)
  BY DEF Extends
<1>3. \A kind \in BagKinds, j \in Cells : F(kind, j) <=> \E u \in Threads : E(u) /\ Into(u, kind, j)
  BY DEF ExtendersInv
<1>4. \A u, v \in Threads : u # v /\ E(u) /\ E(v) => push[u].kind # push[v].kind \/ push[u].cell # push[v].cell
  BY DEF ExtendersInv
<1>5. \A kind \in BagKinds, j \in Cells : kind # k \/ j # i => (F2(kind, j) <=> F(kind, j))
  OBVIOUS
<1>6. \/ (E2(t) <=> E(t)) /\ (F2(k, i) <=> F(k, i))
      \/ ~F(k, i) /\ (F2(k, i) <=> E2(t))
  OBVIOUS
<1>7. k \in BagKinds /\ i \in Cells /\ Into(t, k, i) /\ \A kind, j : Into(t, kind, j) => kind = k /\ j = i
  OBVIOUS
<1> HIDE DEF F, F2, E, E2
<1>8. \A kind \in BagKinds, j \in Cells : F2(kind, j) <=> \E u \in Threads : E2(u) /\ Into(u, kind, j)
  <2> TAKE kind \in BagKinds, j \in Cells
  <2>1. CASE kind = k /\ j = i
    <3>1. CASE ~F(k, i) /\ (F2(k, i) <=> E2(t))
      <4>1. \A u \in Threads : ~(E(u) /\ Into(u, k, i))
        BY <1>3, <1>7, <3>1
      <4> QED BY <1>1, <1>7, <2>1, <3>1, <4>1
    <3>2. CASE (E2(t) <=> E(t)) /\ (F2(k, i) <=> F(k, i))
      BY <1>1, <1>3, <1>7, <2>1, <3>2
    <3> QED BY <1>6, <3>1, <3>2
  <2>2. CASE ~(kind = k /\ j = i)
    <3>1. ~Into(t, kind, j)
      BY <1>7, <2>2
    <3> QED BY <1>1, <1>3, <1>5, <2>2, <3>1
  <2> QED BY <2>1, <2>2
<1>9. ASSUME NEW u \in Threads, NEW v \in Threads, u # v, E2(u), E2(v), push[u].kind = push[v].kind, push[u].cell = push[v].cell
      PROVE  FALSE
  <2>1. CASE u # t /\ v # t
    BY <1>1, <1>4, <1>9, <2>1
  <2>2. \A w \in Threads : w # t /\ E2(w) /\ Into(w, k, i) => ~E2(t)
    <3> SUFFICES ASSUME NEW w \in Threads, w # t, E2(w), Into(w, k, i), E2(t) PROVE FALSE
      OBVIOUS
    <3>1. E(w) /\ F(k, i)
      BY <1>1, <1>3, <1>7
    <3>2. E(t)
      BY <1>6, <3>1
    <3> QED BY <1>4, <3>1, <3>2
  <2> QED BY <1>9, <2>1, <2>2
<1>10. \A u, v \in Threads : u # v /\ E2(u) /\ E2(v) => push'[u].kind # push'[v].kind \/ push'[u].cell # push'[v].cell
  <2> TAKE u, v \in Threads
  <2>1. /\ push'[u].kind = push[u].kind /\ push'[u].cell = push[u].cell
        /\ push'[v].kind = push[v].kind /\ push'[v].cell = push[v].cell
    OBVIOUS
  <2> QED BY <2>1, <1>9
<1>11. \A kind \in BagKinds, j \in Cells : F2(kind, j) <=> \E u \in Threads : E2(u) /\ push'[u].kind = kind /\ push'[u].cell = j
  BY <1>2, <1>8
<1> QED BY <1>10, <1>11 DEF ExtendersInv, F2, E2, F, E

\* Every late increment that was going to be undone still is.
LEMMA LateStep ==
  ASSUME LateInv, NEW t \in Threads, \A u \in Threads : u # t => push'[u] = push[u],
         NEW w, \A c \in Addresses : c # w => chunk'[c].size = chunk[c].size,
         chunk'[w].size > CHUNK_SIZE => \E u \in Threads : push'[u].pc = "undo" /\ push'[u].c = w,
         push[t].pc = "undo" => push[t].c = w
  PROVE  LateInv'
<1> SUFFICES ASSUME NEW c \in Addresses, chunk'[c].size > CHUNK_SIZE
             PROVE  \E u \in Threads : push'[u].pc = "undo" /\ push'[u].c = c
  BY DEF LateInv
<1>1. CASE c = w
  BY <1>1
<1>2. CASE c # w
  <2>1. PICK u \in Threads : push[u].pc = "undo" /\ push[u].c = c
    BY <1>2 DEF LateInv
  <2>2. u # t
    BY <2>1, <1>2
  <2> QED BY <2>1, <2>2
<1> QED BY <1>1, <1>2

\* What the steps of a push may use: the registers, and the chunk they are about.
LEMMA Registers ==
  ASSUME PInv, OwnInv, NEW t \in Threads, NEW r, push' = [push EXCEPT ![t] = r]
  PROVE  /\ push'[t] = r /\ \A u \in Threads : u # t => push'[u] = push[u]
         /\ \A w \in Listed : w \in Addresses /\ ChunkShape(chunk[w])
         /\ chunk = [a \in Addresses |-> chunk[a]]
         /\ CHUNK_SIZE \in Nat /\ CHUNK_SIZE > 0
<1>1. push = [u \in Threads |-> push[u]]
  BY DEF PInv, RegistersInv
<1>2. push' = [u \in Threads |-> IF u = t THEN r ELSE push[u]]
  BY <1>1
<1>3. MemoryInv
  BY DEF OwnInv
<1>4. \A w \in Listed : w \in Addresses
  BY <1>3, ListedIsMemory
<1> QED BY <1>2, <1>3, <1>4, ChunkAssumption DEF MemoryInv

LEMMA PushingInMove ==
  ASSUME PInv, NEW t \in Threads, ~Idle(t)
  PROVE  phase = "move"
BY DEF PInv, PushInv, TilesInv

\* A step of a push that writes no chunk, and fills no bag.
LEMMA ReadingKeeps ==
  ASSUME PInv, OwnInv, SerialPushExclusive, NEW owner, NEW pos, ListsInv(owner, pos),
         NEW t \in Threads, ~Idle(t), NEW r, push' = [push EXCEPT ![t] = r],
         r.kind = push[t].kind, r.cell = push[t].cell,
         push[t].pc \notin {"publish", "returned", "undo", "extend", "write"}, r.pc \notin {"publish", "extend", "write"},
         UNCHANGED <<build, memoryVars, spareVars, particles, particlesNext, failed, simVars>>,
         Listed' = Listed => PushAt(owner, t)'
  PROVE  OwnInv' /\ OwnersStay
<1> DEFINE w == Target(t).front
<1>1. w \in Listed /\ owner[w] = NextId(push[t].kind, push[t].cell) /\ push[t].kind \in BagKinds /\ push[t].cell \in Cells
  BY TargetListed
<1> HIDE DEF w
<1>2. /\ push'[t] = r /\ \A u \in Threads : u # t => push'[u] = push[u]
      /\ w \in Addresses /\ ChunkShape(chunk[w]) /\ chunk = [a \in Addresses |-> chunk[a]]
      /\ CHUNK_SIZE \in Nat
  BY <1>1, Registers
<1>3. chunk' = [chunk EXCEPT ![w] = chunk[w]]
  BY <1>2 DEF memoryVars
<1>4. QuietStep(t, r, w, chunk[w])
  <2>1. chunk[w].size >= CHUNK_SIZE \/ (~Full(w) /\ chunk[w].size >= chunk[w].size)
    BY <1>2 DEF Full, ChunkShape
  <2>2. phase = "move"
    BY PushingInMove
  <2> QED BY <1>2, <1>3, <2>1, <2>2 DEF QuietStep, memoryVars
<1>5. chunk' = chunk /\ particlesNext' = particlesNext
  BY DEF memoryVars
<1>6. LateInv'
  <2>1. LateInv
    BY DEF ListsInv
  <2>2. ASSUME NEW c \in Addresses, chunk'[c].size > CHUNK_SIZE PROVE \E u \in Threads : push'[u].pc = "undo" /\ push'[u].c = c
    <3>1. PICK u \in Threads : push[u].pc = "undo" /\ push[u].c = c
      BY <1>5, <2>1, <2>2 DEF LateInv
    <3>2. u # t
      BY <3>1
    <3> QED BY <1>2, <3>1, <3>2
  <2> QED BY <2>2 DEF LateInv
<1>7. ExtendersInv'
  <2>1. ~Extends(t) /\ ~Extends(t)'
    BY <1>2 DEF Extends
  <2>2. ExtendersInv
    BY DEF ListsInv
  <2>3. \A kind, j : Full(NextFront(kind, j))' <=> Full(NextFront(kind, j))
    BY <1>5 DEF Full, NextFront
  <2> QED BY <1>1, <1>2, <1>5, <2>1, <2>2, <2>3, ExtendersStep
<1> QED BY <1>1, <1>4, <1>6, <1>7, QuietKeeps

LEMMA SerialTakeKeeps ==
  ASSUME PInv, OwnInv, SerialPushExclusive, NEW t \in Threads, PushParticle(t), SerialTake(t)
  PROVE  OwnInv' /\ OwnersStay
<1>1. PICK owner, pos : ListsInv(owner, pos)
  BY DEF OwnInv
<1> DEFINE w == Target(t).front  r == Changed(t, "serial_write", w, chunk[w].size)
<1>2. ~Idle(t) /\ push[t].pc = "serial_take"
  BY DEF SerialTake, Idle
<1>3. w \in Listed /\ owner[w] = NextId(push[t].kind, push[t].cell)
  BY <1>1, <1>2, TargetListed
<1>4. push' = [push EXCEPT ![t] = r] /\ chunk' = chunk
  <2> DEFINE y == push[t]
  <2>1. push' = [push EXCEPT ![t] = [y EXCEPT !.c = w, !.index = chunk[w].size, !.pc = "serial_write"]]
    BY DEF SerialTake
  <2>2. y = [field \in PushFields |-> y[field]]
    BY DEF PInv, RegistersInv, PushShape
  <2>3. [y EXCEPT !.c = w, !.index = chunk[w].size, !.pc = "serial_write"] = r
    <3>1. r = [y EXCEPT !.pc = "serial_write", !.c = w, !.index = chunk[w].size]
      BY DEF Changed
    <3> HIDE DEF w, y, r
    <3> QED BY <2>2, <3>1 DEF PushFields
  <2>4. chunk' = chunk
    BY DEF SerialTake, memoryVars
  <2> HIDE DEF w, y, r
  <2> QED BY <2>1, <2>3, <2>4
<1>5. UNCHANGED <<build, memoryVars, spareVars, particles, particlesNext, failed, simVars>>
  BY DEF SerialTake, PushParticle, PushStep
<1>6. r.pc = "serial_write" /\ r.c = w /\ r.index = chunk[w].size /\ r.kind = push[t].kind /\ r.cell = push[t].cell
  BY ChangedFields
<1>7. push'[t] = r
  <2> HIDE DEF r
  <2> QED BY <1>4, Registers, Zenon
<1>8. PushAt(owner, t)
  BY <1>1 DEF ListsInv, PushesInv
<1>9. Target(t)' = Target(t)
  BY <1>5, <1>6, <1>7, Zenon DEF Target
<1> HIDE DEF r
<1>10. ASSUME Listed' = Listed PROVE PushAt(owner, t)'
  BY <1>2, <1>3, <1>4, <1>6, <1>7, <1>8, <1>9, <1>10 DEF PushAt
<1> QED BY <1>1, <1>2, <1>4, <1>5, <1>6, <1>10, ReadingKeeps

LEMMA ReadFrontKeeps ==
  ASSUME PInv, OwnInv, SerialPushExclusive, NEW t \in Threads, PushParticle(t), ReadFront(t)
  PROVE  OwnInv' /\ OwnersStay
<1>1. PICK owner, pos : ListsInv(owner, pos)
  BY DEF OwnInv
<1> DEFINE w == Target(t).front  r == Changed(t, "capture", w, push[t].index)
<1>2. ~Idle(t) /\ push[t].pc = "read_front"
  BY DEF ReadFront, Idle
<1>3. w \in Listed /\ owner[w] = NextId(push[t].kind, push[t].cell)
  BY <1>1, <1>2, TargetListed
<1>4. push' = [push EXCEPT ![t] = r]
  BY DEF ReadFront, PInv, RegistersInv, PushShape, PushFields, Changed
<1>5. UNCHANGED <<build, memoryVars, spareVars, particles, particlesNext, failed, simVars>>
  BY DEF ReadFront, PushParticle, PushStep
<1>6. r.pc = "capture" /\ r.c = w /\ r.kind = push[t].kind /\ r.cell = push[t].cell
  BY ChangedFields
<1>7. push'[t] = r
  <2> HIDE DEF r
  <2> QED BY <1>4, Registers
<1>8. PushAt(owner, t)
  BY <1>1 DEF ListsInv, PushesInv
<1> HIDE DEF r, w
<1>9. ASSUME Listed' = Listed PROVE PushAt(owner, t)'
  BY <1>2, <1>3, <1>6, <1>7, <1>8, <1>9 DEF PushAt
<1> QED BY <1>1, <1>2, <1>4, <1>5, <1>6, <1>9, ReadingKeeps

LEMMA LeaveSpinKeeps ==
  ASSUME PInv, OwnInv, SerialPushExclusive, NEW t \in Threads, PushParticle(t), LeaveSpin(t)
  PROVE  OwnInv' /\ OwnersStay
<1>1. PICK owner, pos : ListsInv(owner, pos)
  BY DEF OwnInv
<1> DEFINE r == Changed(t, "read_front", push[t].c, push[t].index)
<1>2. ~Idle(t) /\ push[t].pc = "spin"
  BY DEF LeaveSpin, Idle
<1>3. push' = [push EXCEPT ![t] = r]
  BY DEF LeaveSpin, Goto, PInv, RegistersInv, PushShape, PushFields, Changed
<1>4. UNCHANGED <<build, memoryVars, spareVars, particles, particlesNext, failed, simVars>>
  BY DEF LeaveSpin, PushParticle, PushStep
<1>5. r.pc = "read_front" /\ r.kind = push[t].kind /\ r.cell = push[t].cell
  BY ChangedFields
<1>6. push'[t] = r
  <2> HIDE DEF r
  <2> QED BY <1>3, Registers
<1>7. PushAt(owner, t)
  BY <1>1 DEF ListsInv, PushesInv
<1> HIDE DEF r
<1>8. ASSUME Listed' = Listed PROVE PushAt(owner, t)'
  BY <1>2, <1>5, <1>6, <1>7 DEF PushAt
<1> QED BY <1>1, <1>2, <1>3, <1>4, <1>5, <1>8, ReadingKeeps

\* A chunk in which a particle is written.
LEMMA ItemsWritten ==
  ASSUME NEW y, y = [i \in Slots |-> y[i]], NEW index, NEW p
  PROVE  [y EXCEPT ![index] = p] = [i \in Slots |-> [y EXCEPT ![index] = p][i]]
<1>1. DOMAIN y = Slots
  <2> DEFINE z == [i \in Slots |-> y[i]]
  <2>1. DOMAIN z = Slots
    OBVIOUS
  <2> QED BY <2>1
<1>2. [y EXCEPT ![index] = p] = [i \in DOMAIN y |-> IF i = index THEN p ELSE y[i]]
  OBVIOUS
<1>3. \A i \in Slots : [i2 \in Slots |-> IF i2 = index THEN p ELSE y[i2]][i] = IF i = index THEN p ELSE y[i]
  OBVIOUS
<1> QED BY <1>1, <1>2, <1>3

WithItem(r, size, index, p) == [size |-> size, next |-> r.next, item |-> [r.item EXCEPT ![index] = p]]

LEMMA WithItemShape ==
  ASSUME NEW r, ChunkShape(r), NEW size \in Nat, NEW index, NEW p
  PROVE  /\ ChunkShape(WithItem(r, size, index, p))
         /\ WithItem(r, size, index, p).size = size /\ WithItem(r, size, index, p).next = r.next
<1> DEFINE it == [r.item EXCEPT ![index] = p]
<1>1. it = [i \in Slots |-> it[i]]
  BY ItemsWritten DEF ChunkShape
<1> HIDE DEF it
<1>2. WithItem(r, size, index, p) = [size |-> size, next |-> r.next, item |-> it]
  BY DEF WithItem, it
<1> QED BY <1>1, <1>2 DEF ChunkShape

WritesItem(m2, m, w, size, index, p) == m2 = [m EXCEPT ![w].size = size, ![w].item[index] = p]

LEMMA SizeAndItem ==
  ASSUME NEW m, m = [a \in Addresses |-> m[a]], NEW w \in Addresses, ChunkShape(m[w]), NEW size, NEW index, NEW p,
         NEW m2, WritesItem(m2, m, w, size, index, p)
  PROVE  m2 = [m EXCEPT ![w] = WithItem(m[w], size, index, p)]
<1> DEFINE r == m[w]
<1>1. r = [size |-> r.size, next |-> r.next, item |-> r.item]
  BY DEF ChunkShape
<1> DEFINE r1 == [r EXCEPT !.size = size]
<1>2. r1 = [size |-> size, next |-> r.next, item |-> r.item]
  <2> HIDE DEF r
  <2> QED BY <1>1
<1>3. [r EXCEPT !.size = size, !.item[index] = p] = [r1 EXCEPT !.item[index] = p]
  <2> HIDE DEF r
  <2> QED OBVIOUS
<1>4. [r EXCEPT !.size = size, !.item[index] = p] = WithItem(r, size, index, p)
  <2> HIDE DEF r, r1
  <2>1. r1.item = r.item
    BY <1>2
  <2>2. [r1 EXCEPT !.item[index] = p] = [r1 EXCEPT !.item = [r1.item EXCEPT ![index] = p]]
    OBVIOUS
  <2>3. [r1 EXCEPT !.item = [r.item EXCEPT ![index] = p]] = WithItem(r, size, index, p)
    <3> DEFINE y == [r.item EXCEPT ![index] = p]
    <3> HIDE DEF y
    <3>1. [r1 EXCEPT !.item = y] = [size |-> size, next |-> r.next, item |-> y]
      BY <1>2
    <3> QED BY <3>1 DEF WithItem, y
  <2> QED BY <1>3, <2>1, <2>2, <2>3
<1>5. m2 = [m EXCEPT ![w] = [r EXCEPT !.size = size, !.item[index] = p]]
  BY DEF WritesItem
<1> HIDE DEF r
<1> QED BY <1>4, <1>5 DEF r

\* A thread that pushes without synchronisation finds room in the front chunk.
LEMMA SerialRoom ==
  ASSUME PInv, OwnInv, SerialPushExclusive, NEW owner, NEW pos, ListsInv(owner, pos),
         NEW t \in Threads, push[t].pc = "serial_write"
  PROVE  ~Full(Target(t).front)
<1>1. push[t].kind = ID_PRIVATE_BAG /\ ~Idle(t) /\ InSerialPush(t)
  BY DEF ListsInv, PushesInv, PushAt, Idle, InSerialPush
<1>2. push[t].kind \in BagKinds /\ push[t].cell \in Cells /\ Target(t).front = NextFront(push[t].kind, push[t].cell)
  BY <1>1, TargetListed
<1> SUFFICES ASSUME Full(Target(t).front) PROVE FALSE
  OBVIOUS
<1>3. PICK u \in Threads : Extends(u) /\ push[u].kind = push[t].kind /\ push[u].cell = push[t].cell
  BY <1>2 DEF ListsInv, ExtendersInv
<1>4. u # t
  BY <1>3 DEF Extends
<1>5. push[u].pc # "write"
  <2>1. PushAt(owner, u)
    BY DEF ListsInv, PushesInv
  <2> QED BY <2>1, <1>1, <1>3 DEF PushAt, ID_PRIVATE_BAG, ID_SHARED_BAG
<1>6. InSerialPush(u)
  BY <1>1, <1>3, <1>5 DEF Extends, InSerialPush, Idle
<1> QED BY <1>1, <1>3, <1>4, <1>6 DEF SerialPushExclusive

\* The front chunks of the other bags are not the one that is written.
WritesOnly(w) == \A c \in Addresses : c # w => chunk'[c] = chunk[c]

LEMMA OtherFrontsSame ==
  ASSUME OwnInv, NEW owner, NEW pos, ListsInv(owner, pos), UNCHANGED particlesNext,
         NEW w, NEW k, NEW i, owner[w] = NextId(k, i), WritesOnly(w)
  PROVE  \A kind \in BagKinds, j \in Cells :
           kind # k \/ j # i => (Full(NextFront(kind, j))' <=> Full(NextFront(kind, j)))
<1> SUFFICES ASSUME NEW kind \in BagKinds, NEW j \in Cells, kind # k \/ j # i
             PROVE  Full(NextFront(kind, j))' <=> Full(NextFront(kind, j))
  OBVIOUS
<1>1. NextFront(kind, j) \in Listed /\ owner[NextFront(kind, j)] = NextId(kind, j)
  BY FrontListed
<1>2. NextFront(kind, j) # w
  BY <1>1, Ids
<1>3. NextFront(kind, j) \in Addresses
  BY <1>1, ListedIsMemory DEF OwnInv
<1>4. NextFront(kind, j)' = NextFront(kind, j)
  BY DEF NextFront
<1> QED BY <1>2, <1>3, <1>4 DEF Full, WritesOnly

LEMMA SerialWriteKeeps ==
  ASSUME PInv, OwnInv, SerialPushExclusive, NEW t \in Threads, PushParticle(t), SerialWrite(t)
  PROVE  OwnInv' /\ OwnersStay
<1>1. PICK owner, pos : ListsInv(owner, pos)
  BY DEF OwnInv
<1> DEFINE w == push[t].c  index == push[t].index
           r == Changed(t, AfterWrite(index), w, index)
           x == WithItem(chunk[w], index + 1, index, push[t].p)
<1>2. ~Idle(t) /\ push[t].pc = "serial_write"
  BY DEF SerialWrite, Idle
<1>3. PushAt(owner, t)
  BY <1>1 DEF ListsInv, PushesInv
<1>4. /\ w \in Listed /\ owner[w] = NextId(push[t].kind, push[t].cell) /\ w = Target(t).front /\ index = chunk[w].size
      /\ push[t].kind = ID_PRIVATE_BAG
  BY <1>2, <1>3 DEF PushAt
<1>5. /\ push[t].kind \in BagKinds /\ push[t].cell \in Cells /\ w = NextFront(push[t].kind, push[t].cell)
  BY <1>1, <1>2, <1>4, TargetListed
<1>6. push' = [push EXCEPT ![t] = r]
  BY DEF SerialWrite, Goto, PInv, RegistersInv, PushShape, PushFields, Changed
<1>7. UNCHANGED <<build, allocated, freeChunks, spareVars, particles, particlesNext, failed, simVars>>
  BY DEF SerialWrite, PushParticle, PushStep
<1>8. r.pc = AfterWrite(index) /\ r.c = w /\ r.index = index /\ r.kind = push[t].kind /\ r.cell = push[t].cell
  BY ChangedFields
<1> HIDE DEF r
<1>9. /\ push'[t] = r /\ \A u \in Threads : u # t => push'[u] = push[u]
      /\ w \in Addresses /\ ChunkShape(chunk[w]) /\ chunk = [a \in Addresses |-> chunk[a]]
      /\ CHUNK_SIZE \in Nat /\ CHUNK_SIZE > 0
  BY <1>4, <1>6, Registers
<1>10. ~Full(w)
  BY <1>1, <1>2, <1>4, SerialRoom
<1>11. index \in Nat /\ index < CHUNK_SIZE
  BY <1>4, <1>9, <1>10 DEF Full, ChunkShape
<1>12. ChunkShape(x) /\ x.size = index + 1 /\ x.next = chunk[w].next
  BY <1>9, <1>11, WithItemShape
<1>13. chunk' = [chunk EXCEPT ![w] = x]
  <2>1. WritesItem(chunk', chunk, w, index + 1, index, push[t].p)
    BY DEF SerialWrite, WritesItem
  <2> HIDE DEF w, index, x
  <2>2. chunk' = [chunk EXCEPT ![w] = WithItem(chunk[w], index + 1, index, push[t].p)]
    BY <1>9, <2>1, SizeAndItem
  <2> QED BY <2>2 DEF x
<1> HIDE DEF x, index
<1>14. /\ chunk'[w] = x /\ \A c \in Addresses : c # w => chunk'[c] = chunk[c]
  BY <1>9, <1>13
<1>15. AfterWrite(index) \in {"extend", "returned"} /\ (AfterWrite(index) = "extend" <=> index = CHUNK_SIZE - 1)
  BY DEF AfterWrite
<1>16. QuietStep(t, r, w, x)
  <2>1. ~Full(w) /\ x.size >= chunk[w].size
    BY <1>4, <1>10, <1>11, <1>12
  <2>2. phase = "move"
    BY <1>2, PushingInMove
  <2> QED BY <1>2, <1>6, <1>7, <1>8, <1>12, <1>13, <1>15, <2>1, <2>2 DEF QuietStep
<1>17. LateInv'
  <2>1. LateInv
    BY <1>1 DEF ListsInv
  <2>2. ~(chunk'[w].size > CHUNK_SIZE)
    BY <1>9, <1>11, <1>12, <1>14
  <2> QED BY <1>2, <1>9, <1>14, <2>1, <2>2, LateStep
<1>18. ExtendersInv'
  <2>1. ExtendersInv
    BY <1>1 DEF ListsInv
  <2>2. \A kind, j : NextFront(kind, j)' = NextFront(kind, j)
    BY <1>7 DEF NextFront
  <2>3. \A kind \in BagKinds, j \in Cells :
          kind # push[t].kind \/ j # push[t].cell => (Full(NextFront(kind, j))' <=> Full(NextFront(kind, j)))
    <3>1. WritesOnly(w) /\ UNCHANGED particlesNext
      BY <1>7, <1>14 DEF WritesOnly
    <3>2. OwnInv /\ ListsInv(owner, pos) /\ owner[w] = NextId(push[t].kind, push[t].cell)
      BY <1>1, <1>4
    <3> HIDE DEF w
    <3> QED BY <3>1, <3>2, OtherFrontsSame
  <2>4. Full(NextFront(push[t].kind, push[t].cell))' <=> Extends(t)'
    <3>1. Extends(t)' <=> index = CHUNK_SIZE - 1
      BY <1>8, <1>9, <1>15 DEF Extends
    <3>2. Full(NextFront(push[t].kind, push[t].cell))' <=> chunk'[NextFront(push[t].kind, push[t].cell)'].size >= CHUNK_SIZE
      BY <1>8, <1>9 DEF Full
    <3>3. Full(NextFront(push[t].kind, push[t].cell))' <=> index + 1 >= CHUNK_SIZE
      BY <1>5, <1>8, <1>9, <1>12, <1>14, <2>2, <3>2
    <3> QED BY <3>1, <3>3, <1>9, <1>11
  <2>5. UNCHANGED particlesNext
    BY <1>7
  <2> QED BY <1>5, <1>8, <1>9, <1>10, <2>1, <2>3, <2>4, <2>5, ExtendersStep
<1>19. PushAt(owner, t)'
  BY <1>3, <1>8, <1>9, <1>15 DEF PushAt
<1> QED BY <1>1, <1>4, <1>16, <1>17, <1>18, <1>19, QuietKeeps

LEMMA CaptureKeeps ==
  ASSUME PInv, OwnInv, SerialPushExclusive, NEW t \in Threads, PushParticle(t), Capture(t)
  PROVE  OwnInv' /\ OwnersStay
<1>1. PICK owner, pos : ListsInv(owner, pos)
  BY DEF OwnInv
<1> DEFINE w == push[t].c  index == chunk[w].size
           pc == IF index < CHUNK_SIZE THEN "write" ELSE "undo"
           r == Changed(t, pc, w, index)
           x == [size |-> index + 1, next |-> chunk[w].next, item |-> chunk[w].item]
           front == NextFront(push[t].kind, push[t].cell)
<1>2. ~Idle(t) /\ push[t].pc = "capture"
  BY DEF Capture, Idle
<1>3. PushAt(owner, t)
  BY <1>1 DEF ListsInv, PushesInv
<1>4. w \in Listed /\ owner[w] = NextId(push[t].kind, push[t].cell) /\ push[t].kind = ID_SHARED_BAG
  BY <1>2, <1>3 DEF PushAt
<1>5. /\ push[t].kind \in BagKinds /\ push[t].cell \in Cells /\ front \in Listed
  BY <1>1, <1>2, TargetListed
<1>6. push' = [push EXCEPT ![t] = r]
  BY DEF Capture, PInv, RegistersInv, PushShape, PushFields, Changed
<1>7. UNCHANGED <<build, allocated, freeChunks, spareVars, particles, particlesNext, failed, simVars>>
  BY DEF Capture, PushParticle, PushStep
<1>8. r.pc = pc /\ r.c = w /\ r.index = index /\ r.kind = push[t].kind /\ r.cell = push[t].cell
  BY ChangedFields
<1> HIDE DEF r
<1>9. /\ push'[t] = r /\ \A u \in Threads : u # t => push'[u] = push[u]
      /\ w \in Addresses /\ ChunkShape(chunk[w]) /\ chunk = [a \in Addresses |-> chunk[a]]
      /\ CHUNK_SIZE \in Nat /\ CHUNK_SIZE > 0
  BY <1>4, <1>6, Registers
<1>10. index \in Nat /\ (Full(w) <=> index >= CHUNK_SIZE)
  BY <1>9 DEF Full, ChunkShape
<1>11. ChunkShape(x) /\ x.size = index + 1 /\ x.next = chunk[w].next
  BY <1>9, <1>10 DEF ChunkShape
<1>12. chunk' = [chunk EXCEPT ![w] = x]
  <2>1. chunk[w] = [size |-> chunk[w].size, next |-> chunk[w].next, item |-> chunk[w].item]
    BY <1>9 DEF ChunkShape
  <2>2. [chunk[w] EXCEPT !.size = chunk[w].size + 1] = x
    <3> DEFINE y == chunk[w]
    <3>1. y = [size |-> y.size, next |-> y.next, item |-> y.item]
      BY <2>1
    <3> HIDE DEF y
    <3>2. [y EXCEPT !.size = y.size + 1] = [size |-> y.size + 1, next |-> y.next, item |-> y.item]
      BY <3>1
    <3> QED BY <3>2 DEF y
  <2>3. chunk' = [chunk EXCEPT ![w] = [chunk[w] EXCEPT !.size = chunk[w].size + 1]]
    BY DEF Capture
  <2> QED BY <2>2, <2>3
<1> HIDE DEF x
<1>13. /\ chunk'[w] = x /\ \A c \in Addresses : c # w => chunk'[c] = chunk[c]
  BY <1>9, <1>12
<1>14. pc \in {"write", "undo"} /\ (pc = "write" <=> index < CHUNK_SIZE)
  OBVIOUS
<1> HIDE DEF pc, index
<1>15. QuietStep(t, r, w, x)
  <2>1. x.size >= CHUNK_SIZE \/ (~Full(w) /\ x.size >= chunk[w].size)
    BY <1>9, <1>10, <1>11 DEF index
  <2>2. phase = "move"
    BY <1>2, PushingInMove
  <2> QED BY <1>2, <1>6, <1>7, <1>8, <1>11, <1>12, <1>14, <2>1, <2>2 DEF QuietStep
<1>16. LateInv'
  <2>1. LateInv
    BY <1>1 DEF ListsInv
  <2>2. ASSUME chunk'[w].size > CHUNK_SIZE PROVE \E u \in Threads : push'[u].pc = "undo" /\ push'[u].c = w
    <3>1. ~(index < CHUNK_SIZE)
      BY <1>9, <1>10, <1>11, <1>13, <2>2
    <3> QED BY <1>8, <1>9, <1>14, <3>1
  <2> QED BY <1>2, <1>9, <1>13, <2>1, <2>2, LateStep
<1>17. ExtendersInv'
  <2>1. ExtendersInv
    BY <1>1 DEF ListsInv
  <2>2. front' = front
    BY <1>7, <1>8, <1>9 DEF NextFront
  <2>3. \A kind \in BagKinds, j \in Cells :
          kind # push[t].kind \/ j # push[t].cell => (Full(NextFront(kind, j))' <=> Full(NextFront(kind, j)))
    <3>1. WritesOnly(w) /\ UNCHANGED particlesNext
      BY <1>7, <1>13 DEF WritesOnly
    <3>2. OwnInv /\ ListsInv(owner, pos) /\ owner[w] = NextId(push[t].kind, push[t].cell)
      BY <1>1, <1>4
    <3> HIDE DEF w
    <3> QED BY <3>1, <3>2, OtherFrontsSame
  <2>4. UNCHANGED particlesNext
    BY <1>7
  <2>5. Extends(t)' <=> index = CHUNK_SIZE - 1
    BY <1>8, <1>9, <1>10, <1>14 DEF Extends
  <2>6. ~Extends(t)
    BY <1>2 DEF Extends
  <2>7. particlesNext' = particlesNext /\ push'[t].kind = push[t].kind /\ push'[t].cell = push[t].cell
    BY <1>7, <1>8, <1>9
  <2>8. Full(front)' <=> chunk'[front].size >= CHUNK_SIZE
    BY <2>2 DEF Full
  <2>9. NextFront(push[t].kind, push[t].cell)' = front /\ (Full(NextFront(push[t].kind, push[t].cell))' <=> Full(front)')
    BY <2>2
  <2>10. CASE ~Full(w)
    <3>1. w = front
      BY <1>1, <1>4, <1>5, <2>10 DEF ListsInv, BehindInv
    <3>2. Full(front)' <=> index + 1 >= CHUNK_SIZE
      BY <1>11, <1>13, <2>8, <3>1
    <3>3. Full(front)' <=> Extends(t)'
      BY <1>9, <1>10, <2>5, <2>10, <3>2
    <3>4. ~Full(front)
      BY <2>10, <3>1
    <3> HIDE DEF front
    <3> QED BY <1>5, <1>9, <2>1, <2>3, <2>4, <2>7, <3>3, <3>4, ExtendersStep DEF front
  <2>11. CASE Full(w)
    <3>1. ~Extends(t)'
      BY <1>9, <1>10, <2>5, <2>11
    <3>2. front \in Addresses
      BY <1>5, ListedIsMemory DEF OwnInv
    <3>3. Full(front)' <=> Full(front)
      <4>1. CASE front = w
        BY <1>9, <1>10, <1>11, <1>13, <2>8, <2>11, <4>1
      <4>2. CASE front # w
        BY <1>13, <2>8, <3>2, <4>2 DEF Full
      <4> QED BY <4>1, <4>2
    <3> HIDE DEF front
    <3> QED BY <1>5, <1>9, <2>1, <2>3, <2>4, <2>6, <2>7, <3>1, <3>3, ExtendersStep DEF front
  <2> QED BY <2>10, <2>11
<1>18. ASSUME Listed' = Listed PROVE PushAt(owner, t)'
  <2>1. pc = "undo" => Full(w)'
    <3>1. Full(w)' <=> chunk'[w].size >= CHUNK_SIZE
      <4>1. push'[t].c = push[t].c
        BY <1>8, <1>9
      <4> QED BY <4>1 DEF Full
    <3> QED BY <1>9, <1>10, <1>11, <1>13, <1>14, <3>1
  <2>2. pc = "write" => index \in Slots /\ index < chunk'[w].size
    BY <1>9, <1>10, <1>11, <1>13, <1>14 DEF Slots
  <2>3. push'[t].c = w /\ push'[t].pc = pc /\ push'[t].index = index /\ push'[t].kind = push[t].kind /\ push'[t].cell = push[t].cell
    BY <1>8, <1>9
  <2>4. (push[t].c)' = push[t].c
    BY <2>3
  <2> QED BY <1>3, <1>4, <1>14, <1>18, <2>1, <2>2, <2>3, <2>4 DEF PushAt
<1> QED BY <1>1, <1>4, <1>15, <1>16, <1>17, <1>18, QuietKeeps

SetsSize(m2, m, w, size) == m2 = [m EXCEPT ![w].size = size]

LEMMA SizeWritten ==
  ASSUME NEW m, m = [a \in Addresses |-> m[a]], NEW w \in Addresses, ChunkShape(m[w]), NEW size,
         NEW m2, SetsSize(m2, m, w, size)
  PROVE  m2 = [m EXCEPT ![w] = [size |-> size, next |-> m[w].next, item |-> m[w].item]]
<1> DEFINE y == m[w]
<1>1. y = [size |-> y.size, next |-> y.next, item |-> y.item]
  BY DEF ChunkShape
<1>2. [y EXCEPT !.size = size] = [size |-> size, next |-> y.next, item |-> y.item]
  <2> HIDE DEF y
  <2> QED BY <1>1
<1>3. m2 = [m EXCEPT ![w] = [y EXCEPT !.size = size]]
  BY DEF SetsSize
<1> HIDE DEF y
<1> QED BY <1>2, <1>3 DEF y

WritesOneItem(m2, m, w, index, p) == m2 = [m EXCEPT ![w].item[index] = p]

LEMMA ItemOnly ==
  ASSUME NEW m, m = [a \in Addresses |-> m[a]], NEW w \in Addresses, ChunkShape(m[w]), NEW index, NEW p,
         NEW m2, WritesOneItem(m2, m, w, index, p)
  PROVE  m2 = [m EXCEPT ![w] = WithItem(m[w], m[w].size, index, p)]
<1> DEFINE r == m[w]
<1>1. r = [size |-> r.size, next |-> r.next, item |-> r.item]
  BY DEF ChunkShape
<1>2. [r EXCEPT !.item[index] = p] = WithItem(r, r.size, index, p)
  <2> HIDE DEF r
  <2>1. [r EXCEPT !.item[index] = p] = [r EXCEPT !.item = [r.item EXCEPT ![index] = p]]
    OBVIOUS
  <2> DEFINE y == [r.item EXCEPT ![index] = p]
  <2>2. [r EXCEPT !.item[index] = p] = [r EXCEPT !.item = y]
    BY <2>1
  <2> HIDE DEF y
  <2>3. [r EXCEPT !.item = y] = [size |-> r.size, next |-> r.next, item |-> y]
    BY <1>1
  <2> QED BY <2>2, <2>3 DEF WithItem, y
<1>3. m2 = [m EXCEPT ![w] = [r EXCEPT !.item[index] = p]]
  BY DEF WritesOneItem
<1> HIDE DEF r
<1> QED BY <1>2, <1>3 DEF r

\* A step that writes a chunk fills no bag, and empties none.
LEMMA FullSame ==
  ASSUME OwnInv, NEW owner, NEW pos, ListsInv(owner, pos), UNCHANGED particlesNext,
         NEW w \in Addresses, WritesOnly(w), chunk'[w].size >= CHUNK_SIZE <=> Full(w),
         NEW kind \in BagKinds, NEW j \in Cells
  PROVE  Full(NextFront(kind, j))' <=> Full(NextFront(kind, j))
<1>1. NextFront(kind, j) \in Addresses
  BY FrontListed, ListedIsMemory DEF OwnInv
<1> DEFINE f == NextFront(kind, j)
<1>2. f' = f
  BY DEF NextFront
<1>3. Full(f)' <=> chunk'[f].size >= CHUNK_SIZE
  BY <1>2 DEF Full
<1>4. CASE f = w
  BY <1>3, <1>4
<1>5. CASE f # w
  BY <1>1, <1>3, <1>5 DEF Full, WritesOnly
<1> QED BY <1>4, <1>5

LEMMA UndoCaptureKeeps ==
  ASSUME PInv, OwnInv, SerialPushExclusive, NEW t \in Threads, PushParticle(t), UndoCapture(t)
  PROVE  OwnInv' /\ OwnersStay
<1>1. PICK owner, pos : ListsInv(owner, pos)
  BY DEF OwnInv
<1> DEFINE w == push[t].c
           r == Changed(t, "spin", w, push[t].index)
           x == [size |-> CHUNK_SIZE, next |-> chunk[w].next, item |-> chunk[w].item]
<1>2. ~Idle(t) /\ push[t].pc = "undo"
  BY DEF UndoCapture, Idle
<1>3. PushAt(owner, t)
  BY <1>1 DEF ListsInv, PushesInv
<1>4. w \in Listed /\ owner[w] = NextId(push[t].kind, push[t].cell) /\ Full(w)
  BY <1>2, <1>3 DEF PushAt
<1>5. push[t].kind \in BagKinds /\ push[t].cell \in Cells
  BY <1>1, <1>2, TargetListed
<1>6. push' = [push EXCEPT ![t] = r]
  BY DEF UndoCapture, Goto, PInv, RegistersInv, PushShape, PushFields, Changed
<1>7. UNCHANGED <<build, allocated, freeChunks, spareVars, particles, particlesNext, failed, simVars>>
  BY DEF UndoCapture, PushParticle, PushStep
<1>8. r.pc = "spin" /\ r.c = w /\ r.kind = push[t].kind /\ r.cell = push[t].cell
  BY ChangedFields
<1> HIDE DEF r
<1>9. /\ push'[t] = r /\ \A u \in Threads : u # t => push'[u] = push[u]
      /\ w \in Addresses /\ ChunkShape(chunk[w]) /\ chunk = [a \in Addresses |-> chunk[a]]
      /\ CHUNK_SIZE \in Nat /\ CHUNK_SIZE > 0
  BY <1>4, <1>6, Registers
<1>10. ChunkShape(x) /\ x.size = CHUNK_SIZE /\ x.next = chunk[w].next
  BY <1>9 DEF ChunkShape
<1>11. chunk' = [chunk EXCEPT ![w] = x]
  <2>1. SetsSize(chunk', chunk, w, CHUNK_SIZE)
    BY DEF UndoCapture, SetsSize
  <2> HIDE DEF w, x
  <2>2. chunk' = [chunk EXCEPT ![w] = [size |-> CHUNK_SIZE, next |-> chunk[w].next, item |-> chunk[w].item]]
    BY <1>9, <2>1, SizeWritten
  <2> QED BY <2>2 DEF x
<1> HIDE DEF x
<1>12. chunk'[w] = x /\ WritesOnly(w)
  BY <1>9, <1>11 DEF WritesOnly
<1>13. QuietStep(t, r, w, x)
  <2>1. x.size >= CHUNK_SIZE
    BY <1>9, <1>10
  <2>2. phase = "move"
    BY <1>2, PushingInMove
  <2> QED BY <1>2, <1>6, <1>7, <1>8, <1>10, <1>11, <2>1, <2>2 DEF QuietStep
<1>14. LateInv'
  <2>1. LateInv
    BY <1>1 DEF ListsInv
  <2>2. ~(chunk'[w].size > CHUNK_SIZE)
    BY <1>9, <1>10, <1>12
  <2>3. \A c \in Addresses : c # w => chunk'[c].size = chunk[c].size
    BY <1>12 DEF WritesOnly
  <2> QED BY <1>9, <2>1, <2>2, <2>3, LateStep
<1>15. chunk'[w].size >= CHUNK_SIZE
  BY <1>9, <1>10, <1>12
<1>16. ExtendersInv'
  <2>1. ExtendersInv
    BY <1>1 DEF ListsInv
  <2>2. \A kind \in BagKinds, j \in Cells : Full(NextFront(kind, j))' <=> Full(NextFront(kind, j))
    <3>1. UNCHANGED particlesNext
      BY <1>7
    <3>2. chunk'[w].size >= CHUNK_SIZE <=> Full(w)
      BY <1>4, <1>15
    <3> HIDE DEF w
    <3> QED BY <1>1, <1>9, <1>12, <3>1, <3>2, FullSame
  <2>3. ~Extends(t) /\ ~Extends(t)'
    BY <1>2, <1>8, <1>9 DEF Extends
  <2>4. particlesNext' = particlesNext /\ push'[t].kind = push[t].kind /\ push'[t].cell = push[t].cell
    BY <1>7, <1>8, <1>9
  <2> QED BY <1>5, <1>9, <2>1, <2>2, <2>3, <2>4, ExtendersStep
<1>17. ASSUME Listed' = Listed PROVE PushAt(owner, t)'
  <2>1. push'[t].c = w /\ push'[t].pc = "spin" /\ push'[t].kind = push[t].kind /\ push'[t].cell = push[t].cell
    BY <1>8, <1>9
  <2>2. (push[t].c)' = w /\ Full(push[t].c)'
    BY <1>15, <2>1 DEF Full
  <2> QED BY <1>2, <1>3, <1>4, <1>17, <2>1, <2>2 DEF PushAt
<1> QED BY <1>1, <1>4, <1>13, <1>14, <1>16, <1>17, QuietKeeps

LEMMA WriteItemKeeps ==
  ASSUME PInv, OwnInv, SerialPushExclusive, NEW t \in Threads, PushParticle(t), WriteItem(t)
  PROVE  OwnInv' /\ OwnersStay
<1>1. PICK owner, pos : ListsInv(owner, pos)
  BY DEF OwnInv
<1> DEFINE w == push[t].c  index == push[t].index
           r == Changed(t, AfterWrite(index), w, index)
           x == WithItem(chunk[w], chunk[w].size, index, push[t].p)
<1>2. ~Idle(t) /\ push[t].pc = "write"
  BY DEF WriteItem, Idle
<1>3. PushAt(owner, t)
  BY <1>1 DEF ListsInv, PushesInv
<1>4. w \in Listed /\ owner[w] = NextId(push[t].kind, push[t].cell) /\ push[t].kind = ID_SHARED_BAG
  BY <1>2, <1>3 DEF PushAt
<1>5. push[t].kind \in BagKinds /\ push[t].cell \in Cells
  BY <1>1, <1>2, TargetListed
<1>6. push' = [push EXCEPT ![t] = r]
  BY DEF WriteItem, Goto, PInv, RegistersInv, PushShape, PushFields, Changed
<1>7. UNCHANGED <<build, allocated, freeChunks, spareVars, particles, particlesNext, failed, simVars>>
  BY DEF WriteItem, PushParticle, PushStep
<1>8. r.pc = AfterWrite(index) /\ r.c = w /\ r.index = index /\ r.kind = push[t].kind /\ r.cell = push[t].cell
  BY ChangedFields
<1> HIDE DEF r
<1>9. /\ push'[t] = r /\ \A u \in Threads : u # t => push'[u] = push[u]
      /\ w \in Addresses /\ ChunkShape(chunk[w]) /\ chunk = [a \in Addresses |-> chunk[a]]
      /\ CHUNK_SIZE \in Nat /\ CHUNK_SIZE > 0
  BY <1>4, <1>6, Registers
<1>10. ChunkShape(x) /\ x.size = chunk[w].size /\ x.next = chunk[w].next
  <2>1. chunk[w].size \in Nat
    BY <1>9 DEF ChunkShape
  <2> QED BY <1>9, <2>1, WithItemShape
<1>11. chunk' = [chunk EXCEPT ![w] = x]
  <2>1. WritesOneItem(chunk', chunk, w, index, push[t].p)
    BY DEF WriteItem, WritesOneItem
  <2> HIDE DEF w, index, x
  <2>2. chunk' = [chunk EXCEPT ![w] = WithItem(chunk[w], chunk[w].size, index, push[t].p)]
    BY <1>9, <2>1, ItemOnly
  <2> QED BY <2>2 DEF x
<1> HIDE DEF x
<1>12. chunk'[w] = x /\ WritesOnly(w)
  BY <1>9, <1>11 DEF WritesOnly
<1>13. AfterWrite(index) \in {"extend", "returned"} /\ (AfterWrite(index) = "extend" <=> index = CHUNK_SIZE - 1)
  BY DEF AfterWrite
<1>14. QuietStep(t, r, w, x)
  <2>1. x.size >= CHUNK_SIZE \/ (~Full(w) /\ x.size >= chunk[w].size)
    BY <1>9, <1>10 DEF Full, ChunkShape
  <2>2. phase = "move"
    BY <1>2, PushingInMove
  <2> QED BY <1>2, <1>6, <1>7, <1>8, <1>10, <1>11, <1>13, <2>1, <2>2 DEF QuietStep
<1>15. LateInv'
  <2>1. LateInv
    BY <1>1 DEF ListsInv
  <2>2. \A c \in Addresses : c # w => chunk'[c].size = chunk[c].size
    BY <1>12 DEF WritesOnly
  <2>3. ASSUME chunk'[w].size > CHUNK_SIZE PROVE \E u \in Threads : push'[u].pc = "undo" /\ push'[u].c = w
    <3>1. PICK u \in Threads : push[u].pc = "undo" /\ push[u].c = w
      BY <1>9, <1>10, <1>12, <2>1, <2>3 DEF LateInv
    <3>2. u # t
      BY <1>2, <3>1
    <3> QED BY <1>9, <3>1, <3>2
  <2> QED BY <1>2, <1>9, <2>1, <2>2, <2>3, LateStep
<1>16. ExtendersInv'
  <2>1. ExtendersInv
    BY <1>1 DEF ListsInv
  <2>2. \A kind \in BagKinds, j \in Cells : Full(NextFront(kind, j))' <=> Full(NextFront(kind, j))
    <3>1. UNCHANGED particlesNext
      BY <1>7
    <3>2. chunk'[w].size >= CHUNK_SIZE <=> Full(w)
      BY <1>10, <1>12 DEF Full
    <3> HIDE DEF w
    <3> QED BY <1>1, <1>9, <1>12, <3>1, <3>2, FullSame
  <2>3. Extends(t)' <=> Extends(t)
    BY <1>2, <1>8, <1>9, <1>13 DEF Extends
  <2>4. particlesNext' = particlesNext /\ push'[t].kind = push[t].kind /\ push'[t].cell = push[t].cell
    BY <1>7, <1>8, <1>9
  <2> QED BY <1>5, <1>9, <2>1, <2>2, <2>3, <2>4, ExtendersStep
<1>17. PushAt(owner, t)'
  BY <1>3, <1>8, <1>9, <1>13 DEF PushAt
<1> QED BY <1>1, <1>4, <1>14, <1>15, <1>16, <1>17, QuietKeeps

-----------------------------------------------------------------------------
(* The steps of a push that extend the bag.                                 *)

\* The chunk that chunk_alloc returns to thread t is in no list.
LEMMA AllocatedChunk ==
  ASSUME MemoryInv, FreesInv, HandsInv, phase' = phase,
         NEW t \in Threads, phase = "create" => t = 0, UsesFreelist(t) \/ MemoryFor(1), chunk_alloc(t)
  PROVE  LET c == ChunkAllocated(t) IN
         /\ c \in Addresses /\ c \notin {a \in allocated : ~OutOfLists(a)}
         /\ allocated' = allocated \cup {c}
         /\ freeChunks' \in [Threads -> Seq(Addresses)]
         /\ \A u \in Threads : Elements(freeChunks'[u]) = Elements(freeChunks[u]) \ {c}
         /\ \A u \in Threads : push[u].pc = "publish" => push[u].c # c
         /\ FreesInv'
<1> DEFINE c == ChunkAllocated(t)
<1>1. /\ freeChunks \in [Threads -> Seq(Addresses)] /\ allocated \subseteq Addresses
      /\ \A u \in Threads : Elements(freeChunks[u]) \subseteq allocated
  BY DEF MemoryInv, FreesInv
<1>2. CASE UsesFreelist(t)
  <2> DEFINE s == freeChunks[t]  n == Len(s)  s2 == SubSeq(s, 1, n - 1)
  <2>1. s \in Seq(Addresses) /\ n \in Nat /\ n > 0 /\ c = s[n] /\ n \in DOMAIN s
    BY <1>1, <1>2 DEF UsesFreelist, FREE_INDEX, ChunkAllocated
  <2>2. freeChunks' = [freeChunks EXCEPT ![t] = s2] /\ allocated' = allocated
    BY <1>2 DEF chunk_alloc
  <2>3. s2 \in Seq(Addresses) /\ DOMAIN s2 = 1 .. n - 1 /\ \A i \in 1 .. n - 1 : s2[i] = s[i]
    <3> HIDE DEF s
    <3> QED BY <2>1
  <2>4. DOMAIN s = 1 .. n
    BY <2>1
  <2>5. \A i, k \in DOMAIN s : s[i] = s[k] => i = k
    BY DEF FreesInv
  <2> HIDE DEF s, n, s2, c
  <2>6. Elements(s2) = Elements(s) \ {c}
    BY <2>1, <2>3, <2>4, <2>5 DEF Elements
  <2>7. freeChunks'[t] = s2 /\ \A u \in Threads : u # t => freeChunks'[u] = freeChunks[u]
    BY <1>1, <2>2
  <2>8. c \in Elements(s) /\ c \in Addresses /\ c \in allocated
    BY <1>1, <2>1, <2>4 DEF Elements, s
  <2>9. \A u \in Threads : u # t => Elements(freeChunks[u]) \cap Elements(s) = {}
    BY DEF FreesInv, s
  <2>10. \A u \in Threads : Elements(freeChunks'[u]) = Elements(freeChunks[u]) \ {c}
    <3> TAKE u \in Threads
    <3>1. CASE u = t
      BY <2>6, <2>7, <3>1 DEF s
    <3>2. CASE u # t
      BY <2>7, <2>8, <2>9, <3>2
    <3> QED BY <3>1, <3>2
  <2>11. \A u \in Threads : push[u].pc = "publish" => push[u].c # c
    BY <2>8 DEF HandsInv, s
  <2>12. OutOfLists(c)
    BY <2>8 DEF OutOfLists, s
  <2>13. freeChunks' \in [Threads -> Seq(Addresses)]
    BY <1>1, <2>2, <2>3
  <2>14. FreesInv'
    <3>1. \A u \in Threads : Elements(freeChunks'[u]) \subseteq allocated'
      BY <1>1, <2>2, <2>10
    <3>2. ASSUME NEW u \in Threads, NEW i \in DOMAIN freeChunks'[u], NEW k \in DOMAIN freeChunks'[u],
                 freeChunks'[u][i] = freeChunks'[u][k]
          PROVE  i = k
      <4>1. CASE u = t
        <5>1. i \in 1 .. n - 1 /\ k \in 1 .. n - 1 /\ s[i] = s[k]
          BY <2>3, <2>7, <3>2, <4>1
        <5>2. i \in DOMAIN s /\ k \in DOMAIN s
          BY <2>1, <2>4, <5>1
        <5> QED BY <2>5, <5>1, <5>2
      <4>2. CASE u # t
        BY <2>7, <3>2, <4>2 DEF FreesInv
      <4> QED BY <4>1, <4>2
    <3>3. \A u, v \in Threads : u # v => Elements(freeChunks'[u]) \cap Elements(freeChunks'[v]) = {}
      <4>1. \A u, v \in Threads : u # v => Elements(freeChunks[u]) \cap Elements(freeChunks[v]) = {}
        BY DEF FreesInv
      <4> QED BY <2>10, <4>1
    <3>4. \A u \in Threads : \A i, k \in DOMAIN freeChunks'[u] : freeChunks'[u][i] = freeChunks'[u][k] => i = k
      BY <3>2
    <3>5. phase = "create" => \A u \in Threads : u # 0 => freeChunks'[u] = <<>>
      BY <2>7 DEF FreesInv
    <3> QED BY <3>1, <3>3, <3>4, <3>5 DEF FreesInv
  <2>15. allocated' = allocated \cup {c}
    BY <2>2, <2>8
  <2> QED BY <2>8, <2>10, <2>11, <2>12, <2>13, <2>14, <2>15 DEF c
<1>3. CASE ~UsesFreelist(t)
  <2>1. c = Malloc(allocated) /\ allocated' = allocated \cup {c} /\ freeChunks' = freeChunks
    BY <1>3 DEF chunk_alloc, ChunkAllocated
  <2>2. c \in Addresses \ allocated
    <3>1. Cardinality(Addresses \ allocated) >= 1
      BY <1>3 DEF MemoryFor
    <3> QED BY <1>1, <2>1, <3>1, RoomLeft
  <2> HIDE DEF c
  <2>3. \A u \in Threads : Elements(freeChunks'[u]) = Elements(freeChunks[u]) \ {c}
    BY <1>1, <2>1, <2>2
  <2>4. \A u \in Threads : push[u].pc = "publish" => push[u].c # c
    BY <2>2 DEF HandsInv
  <2>5. FreesInv'
    BY <1>1, <2>1, <2>2 DEF FreesInv
  <2> QED BY <1>1, <2>1, <2>2, <2>3, <2>4, <2>5 DEF c
<1> QED BY <1>2, <1>3

\* What the steps do to the lists when they leave the chunks of the lists alone.
LEMMA ListsKept ==
  ASSUME OwnInv, NEW owner, NEW pos, ListsInv(owner, pos), phase' # "create",
         Listed' = Listed, Fronts' = Fronts, UNCHANGED particlesNext,
         \A a \in Listed : chunk'[a] = chunk[a],
         Heads(owner, pos)', LateInv', ExtendersInv', PushesInv(owner)'
  PROVE  ListsInv(owner, pos)'
<1>1. Listed \subseteq Addresses
  BY ListedIsMemory DEF OwnInv
<1>2. Chained(owner, pos, Links', Listed', Fronts')
  <2>1. Chained(owner, pos, Links, Listed, Fronts)
    BY DEF ListsInv
  <2>2. \A c \in Listed : Links'[c] = Links[c]
    BY <1>1 DEF Links
  <2>3. Chained(owner, pos, Links', Listed, Fronts)
    BY <2>1, <2>2, ChainedSame
  <2> QED BY <2>3
<1>3. BehindInv(owner)'
  <2>1. BehindInv(owner)
    BY DEF ListsInv
  <2> QED BY <1>1, <2>1 DEF BehindInv, NextFront, Full
<1>4. CreateInv'
  BY DEF CreateInv
<1> QED BY <1>2, <1>3, <1>4 DEF ListsInv

LEMMA HeadsKept ==
  ASSUME NEW owner, NEW pos, Heads(owner, pos), Listed' = Listed, Fronts' = Fronts, UNCHANGED <<particlesNext, phase>>,
         phase \in {"create", "move", "done"}, \A j \in Cells : phase = "move" /\ ~Pending(j) => ~Pending(j)'
  PROVE  Heads(owner, pos)'
BY DEF Heads

LEMMA ExtendBagKeeps ==
  ASSUME PInv, OwnInv, SerialPushExclusive, NEW t \in Threads, PushParticle(t), ExtendBag(t)
  PROVE  OwnInv' /\ OwnersStay
<1>1. PICK owner, pos : ListsInv(owner, pos)
  BY DEF OwnInv
<1> DEFINE c == ChunkAllocated(t)  front == Target(t).front
           r == Changed(t, "publish", c, push[t].index)
           x == [size |-> 0, next |-> front, item |-> chunk[c].item]
<1>2. ~Idle(t) /\ push[t].pc = "extend" /\ phase = "move"
  BY PushingInMove DEF ExtendBag, Idle
<1>3. /\ push[t].kind \in BagKinds /\ push[t].cell \in Cells /\ front \in Listed
      /\ front = NextFront(push[t].kind, push[t].cell)
  BY <1>1, <1>2, TargetListed
<1>4. push' = [push EXCEPT ![t] = r]
  BY DEF ExtendBag, PInv, RegistersInv, PushShape, PushFields, Changed
<1>5. UNCHANGED <<build, particles, particlesNext, spareVars, failed, simVars>>
  BY DEF ExtendBag, PushParticle, PushStep
<1>6. UNCHANGED <<phase, tiles, loop, i_color, appendNext, particles, particlesNext, build>>
  BY <1>5 DEF simVars
<1>7. r.pc = "publish" /\ r.c = c /\ r.kind = push[t].kind /\ r.cell = push[t].cell
  BY ChangedFields
<1> HIDE DEF r
<1>8. MemoryInv /\ FreesInv /\ HandsInv
  BY DEF OwnInv
<1>9. /\ push'[t] = r /\ \A u \in Threads : u # t => push'[u] = push[u]
      /\ chunk = [a \in Addresses |-> chunk[a]] /\ CHUNK_SIZE \in Nat /\ CHUNK_SIZE > 0
  BY <1>4, Registers
<1>10. /\ c \in Addresses /\ c \notin {a \in allocated : ~OutOfLists(a)}
       /\ allocated' = allocated \cup {c}
       /\ freeChunks' \in [Threads -> Seq(Addresses)]
       /\ \A u \in Threads : Elements(freeChunks'[u]) = Elements(freeChunks[u]) \ {c}
       /\ \A u \in Threads : push[u].pc = "publish" => push[u].c # c
       /\ FreesInv'
  <2>1. phase # "create" /\ phase' = phase /\ (UsesFreelist(t) \/ MemoryFor(1)) /\ chunk_alloc(t)
    BY <1>2, <1>6 DEF ExtendBag
  <2> QED BY <1>8, <2>1, AllocatedChunk
<1>11. chunk' = [chunk EXCEPT ![c].size = 0, ![c].next = front]
  BY DEF ExtendBag
<1> HIDE DEF c
<1>12. \A a \in Addresses : ChunkShape(chunk[a])
  BY <1>8 DEF MemoryInv
<1>13. chunk' = [chunk EXCEPT ![c] = x]
  <2> DEFINE y == chunk[c]
  <2>1. y = [size |-> y.size, next |-> y.next, item |-> y.item]
    BY <1>10, <1>12 DEF ChunkShape
  <2>2. chunk' = [chunk EXCEPT ![c] = [y EXCEPT !.size = 0, !.next = front]]
    BY <1>11
  <2>3. x = [size |-> 0, next |-> front, item |-> y.item]
    OBVIOUS
  <2> HIDE DEF y, front, x
  <2>4. [y EXCEPT !.size = 0, !.next = front] = [size |-> 0, next |-> front, item |-> y.item]
    <3> DEFINE y1 == [y EXCEPT !.size = 0]
    <3>1. y1 = [size |-> 0, next |-> y.next, item |-> y.item]
      BY <2>1
    <3>2. [y EXCEPT !.size = 0, !.next = front] = [y1 EXCEPT !.next = front]
      OBVIOUS
    <3> HIDE DEF y1
    <3>3. [y1 EXCEPT !.next = front] = [size |-> 0, next |-> front, item |-> y.item]
      BY <3>1
    <3> QED BY <3>2, <3>3
  <2> QED BY <2>2, <2>3, <2>4
<1>14. chunk'[c] = x /\ WritesOnly(c) /\ chunk' = [a \in Addresses |-> chunk'[a]]
  BY <1>9, <1>10, <1>13 DEF WritesOnly
<1>15. Listed \subseteq Addresses /\ front \in 0 .. MaxChunks
  BY <1>3, <1>8, ListedIsMemory, ChunkAssumption DEF Addresses
<1>16. ListedNow /\ Listed' = Listed /\ c \notin Listed
  <2>1. ListedNow /\ ListedNow'
    BY <1>2, <1>6, ListedOutsideAppend, ListedOutsideAppendNext
  <2>2. \A a : OutOfLists(a)' <=> OutOfLists(a) \/ a = c
    <3> TAKE a
    <3>1. \A u \in Threads : u # t => ((push'[u].pc = "publish" /\ push'[u].c = a) <=> (push[u].pc = "publish" /\ push[u].c = a))
      BY <1>9
    <3>2. push'[t].pc = "publish" /\ push'[t].c = c /\ push[t].pc # "publish"
      BY <1>2, <1>7, <1>9
    <3>3. CASE a = c
      BY <3>2, <3>3 DEF OutOfLists
    <3>4. CASE a # c
      <4>1. \A u \in Threads : a \in Elements(freeChunks'[u]) <=> a \in Elements(freeChunks[u])
        BY <1>10, <3>4
      <4> QED BY <3>1, <3>2, <3>4, <4>1 DEF OutOfLists
    <3> QED BY <3>3, <3>4
  <2>3. Listed' = {a \in allocated' : ~OutOfLists(a)'}
    BY <2>1 DEF ListedNow
  <2>4. Listed = {a \in allocated : ~OutOfLists(a)}
    BY <2>1 DEF ListedNow
  <2>5. c \notin Listed
    BY <1>10, <2>4
  <2>6. \A a : a \in Listed' <=> a \in Listed
    BY <1>10, <2>2, <2>3, <2>4, <2>5
  <2> QED BY <2>1, <2>5, <2>6
<1>17. Fronts' = Fronts
  BY <1>6, FrontsSame
<1>18. MemoryInv'
  <2>1. ChunkShape(x)
    <3>1. ChunkShape(chunk[c])
      BY <1>10, <1>12
    <3> HIDE DEF front
    <3> QED BY <1>15, <3>1 DEF ChunkShape
  <2>2. \A a \in Addresses : ChunkShape(chunk'[a])
    BY <1>12, <1>14, <2>1 DEF WritesOnly
  <2>3. allocated' \subseteq Addresses
    BY <1>8, <1>10 DEF MemoryInv
  <2> QED BY <1>6, <1>8, <1>10, <1>14, <2>2, <2>3 DEF MemoryInv
<1>19. Target(t)' = Target(t)
  BY <1>6, <1>7, <1>9 DEF Target
<1>20. HandsInv'
  <2>1. ASSUME NEW u \in Threads, push'[u].pc = "publish"
        PROVE  /\ push'[u].c \in allocated'
               /\ \A v \in Threads : push'[u].c \notin Elements(freeChunks'[v])
               /\ \A v \in Threads : v # u /\ push'[v].pc = "publish" => push'[v].c # push'[u].c
               /\ chunk'[push'[u].c].next = Target(u)'.front /\ chunk'[push'[u].c].size = 0
    <3>1. CASE u = t
      <4>1. push'[u].c = c /\ \A v \in Threads : v # u => push'[v] = push[v]
        BY <1>7, <1>9, <3>1
      <4>2. chunk'[c].next = Target(u)'.front /\ chunk'[c].size = 0
        BY <1>14, <1>19, <3>1
      <4> QED BY <1>10, <4>1, <4>2
    <3>2. CASE u # t
      <4>1. push'[u] = push[u] /\ push[u].pc = "publish" /\ push[u].c # c
        BY <1>9, <1>10, <2>1, <3>2
      <4>2. /\ push[u].c \in allocated
            /\ \A v \in Threads : push[u].c \notin Elements(freeChunks[v])
            /\ \A v \in Threads : v # u /\ push[v].pc = "publish" => push[v].c # push[u].c
            /\ chunk[push[u].c].next = Target(u).front /\ chunk[push[u].c].size = 0
        BY <1>8, <4>1 DEF HandsInv
      <4>3. push[u].c \in Addresses
        BY <1>8, <4>2 DEF MemoryInv
      <4>4. Target(u)' = Target(u)
        BY <1>6, <4>1 DEF Target
      <4>5. \A v \in Threads : v # u /\ push'[v].pc = "publish" => push'[v].c # push'[u].c
        <5> TAKE v \in Threads
        <5>1. CASE v = t
          BY <1>7, <1>9, <4>1, <5>1
        <5>2. CASE v # t
          BY <1>9, <4>1, <4>2, <5>2
        <5> QED BY <5>1, <5>2
      <4> QED BY <1>10, <1>14, <4>1, <4>2, <4>3, <4>4, <4>5 DEF WritesOnly
    <3> QED BY <3>1, <3>2
  <2> QED BY <2>1 DEF HandsInv
<1>21. LoopInv' /\ AppendInv' /\ SparesInv'
  <2>1. LoopInv'
    BY <1>6 DEF OwnInv, LoopInv, Working
  <2>2. AppendInv'
    BY <1>6 DEF OwnInv, AppendInv
  <2> QED BY <1>2, <1>6, <2>1, <2>2 DEF SparesInv
<1>22. \A a \in Listed : chunk'[a] = chunk[a]
  BY <1>14, <1>15, <1>16 DEF WritesOnly
<1>23. Heads(owner, pos)'
  <2>1. Heads(owner, pos)
    BY <1>1 DEF ListsInv
  <2>2. \A j \in Cells : ~Pending(j) => ~Pending(j)'
    BY <1>6 DEF Pending
  <2> QED BY <1>2, <1>6, <1>16, <1>17, <2>1, <2>2, HeadsKept
<1>24. LateInv'
  <2>1. LateInv
    BY <1>1 DEF ListsInv
  <2>2. \A a \in Addresses : a # c => chunk'[a].size = chunk[a].size
    BY <1>14 DEF WritesOnly
  <2>3. ~(chunk'[c].size > CHUNK_SIZE)
    BY <1>9, <1>14
  <2> QED BY <1>2, <1>9, <2>1, <2>2, <2>3, LateStep
<1>25. ExtendersInv'
  <2>1. ExtendersInv
    BY <1>1 DEF ListsInv
  <2>2. \A kind \in BagKinds, j \in Cells : Full(NextFront(kind, j))' <=> Full(NextFront(kind, j))
    <3> TAKE kind \in BagKinds, j \in Cells
    <3>1. NextFront(kind, j) \in Listed
      BY <1>1, FrontListed
    <3>2. NextFront(kind, j)' = NextFront(kind, j)
      BY <1>6 DEF NextFront
    <3> QED BY <1>22, <3>1, <3>2 DEF Full
  <2>3. Extends(t) /\ Extends(t)'
    BY <1>2, <1>7, <1>9 DEF Extends
  <2>4. particlesNext' = particlesNext /\ push'[t].kind = push[t].kind /\ push'[t].cell = push[t].cell
    BY <1>6, <1>7, <1>9
  <2> QED BY <1>3, <1>9, <2>1, <2>2, <2>3, <2>4, ExtendersStep
<1>26. PushesInv(owner)'
  <2>1. \A u \in Threads : PushAt(owner, u)
    BY <1>1 DEF ListsInv, PushesInv
  <2>2. ASSUME NEW u \in Threads, u # t PROVE PushAt(owner, u)'
    <3>1. push'[u] = push[u] /\ Target(u)' = Target(u)
      BY <1>6, <1>9, <2>2 DEF Target
    <3> QED BY <1>16, <1>22, <2>1, <3>1 DEF PushAt, Full
  <2>3. PushAt(owner, t)'
    BY <1>3, <1>7, <1>9 DEF PushAt
  <2> QED BY <2>2, <2>3 DEF PushesInv
<1>27. ListsInv(owner, pos)'
  BY <1>1, <1>2, <1>6, <1>16, <1>17, <1>22, <1>23, <1>24, <1>25, <1>26, ListsKept
<1>28. OwnersStay
  BY <1>1, <1>27 DEF OwnersStay
<1> QED BY <1>10, <1>18, <1>20, <1>21, <1>27, <1>28 DEF OwnInv

LEMMA FrontOfNext ==
  (/\ \A j \in Cells : Fronts[CurrentId(j)] = CurrentFront(j)
   /\ \A kind \in BagKinds, j \in Cells : Fronts[NextId(kind, j)] = NextFront(kind, j))'
BY FrontOf, PTL

LEMMA CurrentFrontsSame ==
  ASSUME UNCHANGED <<phase, tiles, loop, i_color, appendNext, particles>>
  PROVE  \A j \in Cells : CurrentFront(j)' = CurrentFront(j)
BY DEF CurrentFront, Pending, Appended, Visitors, Working

LEMMA PublishKeeps ==
  ASSUME PInv, OwnInv, SerialPushExclusive, NEW t \in Threads, PushParticle(t), Publish(t)
  PROVE  OwnInv' /\ OwnersStay
<1>1. PICK owner, pos : ListsInv(owner, pos)
  BY DEF OwnInv
<1>2. PICK c, k, i : c = push[t].c /\ k = push[t].kind /\ i = push[t].cell
  OBVIOUS
<1> DEFINE b == NextId(k, i)
           r == Changed(t, "returned", c, push[t].index)
<1>3. ~Idle(t) /\ push[t].pc = "publish" /\ phase = "move"
  BY PushingInMove DEF Publish, Idle
<1>4. k \in BagKinds /\ i \in Cells /\ Target(t).front = NextFront(k, i)
  BY <1>2, <1>1, <1>3, TargetListed
<1>5. push' = [push EXCEPT ![t] = r]
  BY <1>2 DEF Publish, Goto, PInv, RegistersInv, PushShape, PushFields, Changed
<1>6. UNCHANGED <<build, memoryVars, particles, spareVars, failed, simVars>>
  BY DEF Publish, PushParticle, PushStep
<1>7. UNCHANGED <<phase, tiles, loop, i_color, appendNext, particles, build, chunk, allocated, freeChunks>>
  BY <1>6 DEF simVars, memoryVars
<1>8. r.pc = "returned" /\ r.c = c /\ r.kind = k /\ r.cell = i
  BY <1>2, ChangedFields
<1>9. MemoryInv /\ FreesInv /\ HandsInv
  BY DEF OwnInv
<1> HIDE DEF r
<1>10. push'[t] = r /\ \A u \in Threads : u # t => push'[u] = push[u]
  BY <1>5, Registers
<1>11. /\ c \in allocated /\ c \in Addresses /\ \A u \in Threads : c \notin Elements(freeChunks[u])
       /\ \A u \in Threads : u # t /\ push[u].pc = "publish" => push[u].c # c
       /\ chunk[c].next = NextFront(k, i) /\ chunk[c].size = 0
  BY <1>2, <1>3, <1>4, <1>9 DEF HandsInv, MemoryInv
<1>12. particlesNext' = [particlesNext EXCEPT ![k][i].front = c]
  BY <1>2 DEF Publish
<1>13. /\ particlesNext \in [BagKinds -> [Cells -> Bag]]
       /\ \A kind \in BagKinds, j \in Cells : particlesNext[kind][j] \in Bag
  BY <1>9 DEF MemoryInv
<1>14. /\ particlesNext' \in [BagKinds -> [Cells -> Bag]]
       /\ \A kind \in BagKinds, j \in Cells :
            /\ particlesNext'[kind][j].back = particlesNext[kind][j].back
            /\ particlesNext'[kind][j].front = IF kind = k /\ j = i THEN c ELSE particlesNext[kind][j].front
            /\ kind # k \/ j # i => particlesNext'[kind][j] = particlesNext[kind][j]
  <2> DEFINE bag == [particlesNext[k][i] EXCEPT !.front = c]
             row == [particlesNext[k] EXCEPT ![i] = bag]
  <2>1. bag \in Bag /\ bag.front = c /\ bag.back = particlesNext[k][i].back
    <3>1. particlesNext[k][i] \in Bag /\ c \in 0 .. MaxChunks
      BY <1>4, <1>11, <1>13, ChunkAssumption DEF Addresses
    <3> QED BY <3>1 DEF Bag
  <2>2. particlesNext' = [particlesNext EXCEPT ![k] = row]
    BY <1>12
  <2> HIDE DEF bag
  <2>3. /\ row \in [Cells -> Bag] /\ row[i] = bag
        /\ \A j \in Cells : j # i => row[j] = particlesNext[k][j]
    BY <1>4, <1>13, <2>1
  <2> HIDE DEF row
  <2>4. particlesNext'[k] = row /\ \A kind \in BagKinds : kind # k => particlesNext'[kind] = particlesNext[kind]
    BY <1>4, <1>13, <2>2
  <2>5. particlesNext' \in [BagKinds -> [Cells -> Bag]]
    BY <1>4, <1>13, <2>2, <2>3
  <2> QED BY <1>4, <2>1, <2>3, <2>4, <2>5
<1>15. /\ b \in ListIds /\ Fronts[b] = NextFront(k, i) /\ Fronts'[b] = c
       /\ \A l \in ListIds : l # b => Fronts'[l] = Fronts[l]
       /\ \A kind \in BagKinds, j \in Cells :
            /\ (NextId(kind, j) = b <=> kind = k /\ j = i)
            /\ NextFront(kind, j)' = IF kind = k /\ j = i THEN c ELSE NextFront(kind, j)
  <2>1. \A kind \in BagKinds, j \in Cells : NextFront(kind, j)' = particlesNext'[kind][j].front
    BY DEF NextFront
  <2>2. \A kind \in BagKinds, j \in Cells : NextFront(kind, j)' = IF kind = k /\ j = i THEN c ELSE NextFront(kind, j)
    BY <1>14, <2>1 DEF NextFront
  <2>3. \A kind \in BagKinds, j \in Cells : NextId(kind, j) = b <=> kind = k /\ j = i
    BY Ids
  <2>4. b \in ListIds /\ Fronts[b] = NextFront(k, i)
    BY <1>4, Ids, FrontOf
  <2>5. Fronts'[b] = c
    <3>1. \A kind \in BagKinds, j \in Cells : Fronts'[NextId(kind, j)] = NextFront(kind, j)'
      BY FrontOfNext
    <3> QED BY <1>4, <2>2, <3>1
  <2>6. \A j \in Cells : CurrentId(j) # b => Fronts'[CurrentId(j)] = Fronts[CurrentId(j)]
    <3>1. \A j \in Cells : CurrentFront(j)' = CurrentFront(j)
      BY <1>7, CurrentFrontsSame
    <3> QED BY <3>1, FrontOf, FrontOfNext
  <2>7. \A kind \in BagKinds, j \in Cells : NextId(kind, j) # b => Fronts'[NextId(kind, j)] = Fronts[NextId(kind, j)]
    BY <2>2, <2>3, FrontOf, FrontOfNext
  <2> HIDE DEF b
  <2>8. \A l \in ListIds : l # b => Fronts'[l] = Fronts[l]
    BY <2>6, <2>7, Ids
  <2> QED BY <2>2, <2>3, <2>4, <2>5, <2>8
<1> HIDE DEF b
<1>16. ListedNow /\ Listed' = Listed \cup {c} /\ c \notin Listed
  <2>1. ListedNow /\ ListedNow'
    BY <1>3, <1>7, ListedOutsideAppend, ListedOutsideAppendNext
  <2>2. \A a : OutOfLists(a) <=> OutOfLists(a)' \/ a = c
    <3> TAKE a
    <3>1. \A u \in Threads : u # t => ((push'[u].pc = "publish" /\ push'[u].c = a) <=> (push[u].pc = "publish" /\ push[u].c = a))
      BY <1>10
    <3>2. push[t].pc = "publish" /\ push[t].c = c /\ push'[t].pc # "publish"
      BY <1>2, <1>3, <1>8, <1>10
    <3> QED BY <1>7, <3>1, <3>2 DEF OutOfLists
  <2>3. ~OutOfLists(c)'
    BY <1>7, <1>8, <1>10, <1>11 DEF OutOfLists
  <2>4. Listed' = {a \in allocated' : ~OutOfLists(a)'}
    BY <2>1 DEF ListedNow
  <2>5. Listed = {a \in allocated : ~OutOfLists(a)}
    BY <2>1 DEF ListedNow
  <2>6. c \notin Listed
    BY <2>2, <2>5
  <2>7. \A a : a \in Listed' <=> a \in Listed \cup {c}
    BY <1>7, <1>11, <2>2, <2>3, <2>4, <2>5
  <2> QED BY <2>1, <2>6, <2>7
<1>17. Listed \subseteq Addresses
  BY <1>9, ListedIsMemory
<1>18. MemoryInv'
  BY <1>7, <1>9, <1>14 DEF MemoryInv
<1>19. FreesInv'
  BY <1>7, <1>9 DEF FreesInv
<1>20. ASSUME NEW u \in Threads, u # t, ~(push[u].kind = k /\ push[u].cell = i),
              push[u].kind \in BagKinds, push[u].cell \in Cells
       PROVE  Target(u)' = Target(u)
  <2>1. push'[u] = push[u]
    BY <1>10, <1>20
  <2>2. Target(u)' = particlesNext'[push[u].kind][push[u].cell]
    BY <2>1 DEF Target
  <2> QED BY <1>14, <1>20, <2>2 DEF Target
<1>21. \A u \in Threads : ~Idle(u) => push[u].kind \in BagKinds /\ push[u].cell \in Cells
  BY <1>1, TargetListed
<1>22. ExtendersInv /\ Extends(t)
  BY <1>1, <1>3 DEF ListsInv, Extends
<1>23. \A u \in Threads : u # t /\ Extends(u) => ~(push[u].kind = k /\ push[u].cell = i)
  BY <1>2, <1>22 DEF ExtendersInv
<1>24. HandsInv'
  <2>1. ASSUME NEW u \in Threads, push'[u].pc = "publish"
        PROVE  /\ push'[u].c \in allocated'
               /\ \A v \in Threads : push'[u].c \notin Elements(freeChunks'[v])
               /\ \A v \in Threads : v # u /\ push'[v].pc = "publish" => push'[v].c # push'[u].c
               /\ chunk'[push'[u].c].next = Target(u)'.front /\ chunk'[push'[u].c].size = 0
    <3>1. u # t /\ push'[u] = push[u] /\ push[u].pc = "publish"
      BY <1>8, <1>10, <2>1
    <3>2. Extends(u) /\ ~Idle(u)
      BY <3>1 DEF Extends, Idle
    <3>3. Target(u)' = Target(u)
      BY <1>20, <1>21, <1>23, <3>1, <3>2
    <3>4. \A v \in Threads : v # u /\ push'[v].pc = "publish" => push'[v].c # push'[u].c
      <4> TAKE v \in Threads
      <4>1. CASE v = t
        BY <1>8, <1>10, <4>1
      <4>2. CASE v # t
        BY <1>9, <1>10, <3>1, <4>2 DEF HandsInv
      <4> QED BY <4>1, <4>2
    <3> QED BY <1>7, <1>9, <3>1, <3>3, <3>4 DEF HandsInv
  <2> QED BY <2>1 DEF HandsInv
<1>25. LoopInv' /\ AppendInv' /\ SparesInv'
  <2>1. LoopInv'
    BY <1>7 DEF OwnInv, LoopInv, Working
  <2>2. AppendInv'
    BY <1>7 DEF OwnInv, AppendInv
  <2> QED BY <1>3, <1>7, <2>1, <2>2 DEF SparesInv
<1>26. Chained(owner, pos, Links, Listed, Fronts)
  BY <1>1 DEF ListsInv
<1>27. PICK owner2, pos2 : /\ Chained(owner2, pos2, Links', Listed', Fronts')
                           /\ owner2[c] = b /\ \A a \in Addresses : a # c => owner2[a] = owner[a] /\ pos2[a] = pos[a]
  <2> DEFINE o2 == [owner EXCEPT ![c] = b]
             p2 == [pos EXCEPT ![c] = IF Fronts[b] = NULL THEN 0 ELSE pos[Fronts[b]] + 1]
  <2>1. c \in Addresses \ Listed
    BY <1>11, <1>16
  <2>2. Links' = Links
    BY <1>7 DEF Links
  <2>3. SameOn(Links', Links, Listed) /\ Links'[c] = Fronts[b]
    BY <1>11, <1>15, <2>2, LinksAre DEF SameOn
  <2>4. b \in ListIds /\ Fronts'[b] = c /\ SameOn(Fronts', Fronts, ListIds \ {b})
    BY <1>15 DEF SameOn
  <2>5. Chained(o2, p2, Links', Listed \cup {c}, Fronts')
    BY <1>26, <2>1, <2>3, <2>4, PrependKeeps
  <2>6. o2[c] = b /\ \A a \in Addresses : a # c => o2[a] = owner[a] /\ p2[a] = pos[a]
    BY <1>11, <1>26 DEF Chained
  <2> HIDE DEF o2, p2
  <2> QED BY <1>16, <2>5, <2>6
<1>28. owner2[c] = b /\ \A a \in Addresses : a # c => owner2[a] = owner[a] /\ pos2[a] = pos[a]
  BY <1>27
<1>29. \A a \in Listed : owner2[a] = owner[a] /\ pos2[a] = pos[a]
  BY <1>16, <1>17, <1>28
<1>30. c # NULL
  BY <1>11, NotNull
<1>31. Heads(owner2, pos2)'
  <2>1. Heads(owner, pos)
    BY <1>1 DEF ListsInv
  <2>2. \A j \in Cells : \/ Fronts'[CurrentId(j)] # NULL
                         \/ phase' \in {"single", "append"} /\ ~(phase' = "append" /\ Appended(j)')
                         \/ phase' = "move" /\ ~Pending(j)'
    <3>1. \A j \in Cells : Fronts'[CurrentId(j)] = Fronts[CurrentId(j)]
      BY <1>15, Ids DEF b
    <3>2. \A j \in Cells : Pending(j)' <=> Pending(j)
      BY <1>7 DEF Pending
    <3> QED BY <1>3, <1>7, <2>1, <3>1, <3>2 DEF Heads
  <2>3. ASSUME NEW kind \in BagKinds, NEW j \in Cells
        PROVE  /\ Fronts'[NextId(kind, j)] # NULL
               /\ particlesNext'[kind][j].back \in Listed'
               /\ owner2[particlesNext'[kind][j].back] = NextId(kind, j)
               /\ pos2[particlesNext'[kind][j].back] = 0
    <3>1. /\ Fronts[NextId(kind, j)] # NULL
          /\ particlesNext[kind][j].back \in Listed
          /\ owner[particlesNext[kind][j].back] = NextId(kind, j)
          /\ pos[particlesNext[kind][j].back] = 0
      BY <2>1 DEF Heads
    <3>2. Fronts'[NextId(kind, j)] # NULL
      BY <1>15, <1>30, <3>1, Ids
    <3> QED BY <1>14, <1>16, <1>29, <3>1, <3>2
  <2> QED BY <2>2, <2>3 DEF Heads
<1>32. LateInv'
  <2>1. LateInv
    BY <1>1 DEF ListsInv
  <2> QED BY <1>3, <1>7, <1>10, <2>1 DEF LateInv
<1>33. BehindInv(owner2)'
  <2> SUFFICES ASSUME NEW a \in Listed', NEW kind \in BagKinds, NEW j \in Cells,
                      owner2[a] = NextId(kind, j), a # NextFront(kind, j)'
               PROVE  chunk'[a].size >= CHUNK_SIZE
    BY DEF BehindInv, Full
  <2>1. a # c
    BY <1>15, <1>28
  <2>2. a \in Listed /\ owner[a] = NextId(kind, j)
    BY <1>16, <1>29, <2>1
  <2>3. CASE a # NextFront(kind, j)
    BY <1>1, <1>7, <2>2, <2>3 DEF ListsInv, BehindInv, Full
  <2>4. CASE a = NextFront(kind, j)
    <3>1. kind = k /\ j = i
      BY <1>15, <2>4
    <3>2. Full(NextFront(k, i))
      BY <1>2, <1>4, <1>22 DEF ExtendersInv
    <3> QED BY <1>7, <2>4, <3>1, <3>2 DEF Full
  <2> QED BY <2>3, <2>4
<1>34. ExtendersInv'
  <2>1. \A u \in Threads : u # t => (Extends(u)' <=> Extends(u))
    BY <1>10 DEF Extends
  <2>2. ~Extends(t)'
    BY <1>8, <1>10 DEF Extends
  <2>3. \A u \in Threads : push'[u].kind = push[u].kind /\ push'[u].cell = push[u].cell
    BY <1>2, <1>8, <1>10
  <2>4. ASSUME NEW kind \in BagKinds, NEW j \in Cells
        PROVE  Full(NextFront(kind, j))' <=> \E u \in Threads : Extends(u)' /\ push'[u].kind = kind /\ push'[u].cell = j
    <3>1. Full(NextFront(kind, j))' <=> chunk'[NextFront(kind, j)'].size >= CHUNK_SIZE
      BY DEF Full
    <3>2. Full(NextFront(kind, j)) <=> \E u \in Threads : Extends(u) /\ push[u].kind = kind /\ push[u].cell = j
      BY <1>22 DEF ExtendersInv
    <3>3. CASE kind = k /\ j = i
      <4>1. ~Full(NextFront(kind, j))'
        BY <1>7, <1>11, <1>15, <3>1, <3>3, ChunkAssumption
      <4>2. \A u \in Threads : ~(Extends(u)' /\ push'[u].kind = kind /\ push'[u].cell = j)
        BY <1>23, <2>1, <2>2, <2>3, <3>3
      <4> QED BY <4>1, <4>2
    <3>4. CASE ~(kind = k /\ j = i)
      <4>1. Full(NextFront(kind, j))' <=> Full(NextFront(kind, j))
        BY <1>7, <1>15, <3>1, <3>4 DEF Full
      <4>2. ~(push[t].kind = kind /\ push[t].cell = j)
        BY <1>2, <3>4
      <4> QED BY <2>1, <2>3, <3>2, <4>1, <4>2
    <3> QED BY <3>3, <3>4
  <2>5. \A u, v \in Threads : u # v /\ Extends(u)' /\ Extends(v)' => push'[u].kind # push'[v].kind \/ push'[u].cell # push'[v].cell
    BY <1>22, <2>1, <2>2, <2>3 DEF ExtendersInv
  <2> QED BY <2>4, <2>5 DEF ExtendersInv
<1>35. CreateInv'
  BY <1>3, <1>7 DEF CreateInv
<1>36. PushesInv(owner2)'
  <2>1. \A u \in Threads : PushAt(owner, u)
    BY <1>1 DEF ListsInv, PushesInv
  <2>2. ASSUME NEW u \in Threads, u # t PROVE PushAt(owner2, u)'
    <3>1. push'[u] = push[u] /\ PushAt(owner, u)
      BY <1>10, <2>1, <2>2
    <3>2. push[u].pc = "serial_write" => Target(u)' = Target(u)
      <4> SUFFICES ASSUME push[u].pc = "serial_write" PROVE Target(u)' = Target(u)
        OBVIOUS
      <4>1. push[u].kind = ID_PRIVATE_BAG /\ ~Idle(u)
        BY <3>1 DEF PushAt, Idle
      <4>2. ~(k = ID_PRIVATE_BAG /\ push[u].cell = i)
        <5> SUFFICES ASSUME k = ID_PRIVATE_BAG, push[u].cell = i PROVE FALSE
          OBVIOUS
        <5>1. InSerialPush(u)
          BY <4>1 DEF InSerialPush
        <5>2. InSerialPush(t)
          BY <1>2, <1>3 DEF InSerialPush
        <5> QED BY <1>2, <2>2, <5>1, <5>2 DEF SerialPushExclusive
      <4> QED BY <1>20, <1>21, <2>2, <4>1, <4>2
    <3>3. \A a \in Listed : a \in Listed' /\ owner2[a] = owner[a]
      BY <1>16, <1>29
    <3>4. \A a : (Full(a) <=> chunk'[a].size >= CHUNK_SIZE)
      BY <1>7 DEF Full
    <3>5. Full(push[u].c)' <=> Full(push[u].c)
      BY <1>7, <3>1 DEF Full
    <3> QED BY <1>7, <3>1, <3>2, <3>3, <3>5 DEF PushAt
  <2>3. PushAt(owner2, t)'
    BY <1>4, <1>8, <1>10 DEF PushAt
  <2> QED BY <2>2, <2>3 DEF PushesInv
<1>37. ListsInv(owner2, pos2)'
  BY <1>27, <1>31, <1>32, <1>33, <1>34, <1>35, <1>36 DEF ListsInv
<1>38. OwnersStay
  BY <1>1, <1>29, <1>37 DEF OwnersStay
<1> QED BY <1>18, <1>19, <1>24, <1>25, <1>37, <1>38 DEF OwnInv

\* A push keeps the chunks in order, whatever the schedule of its steps.
LEMMA PushParticleKeeps ==
  ASSUME PInv, OwnInv, SerialPushExclusive, NEW t \in Threads, PushParticle(t)
  PROVE  OwnInv' /\ OwnersStay
BY SerialTakeKeeps, SerialWriteKeeps, ReadFrontKeeps, CaptureKeeps, WriteItemKeeps, UndoCaptureKeeps,
   LeaveSpinKeeps, ExtendBagKeeps, PublishKeeps DEF PushParticle, PushStep

-----------------------------------------------------------------------------
(* The steps of the particle loop that leave the memory alone.              *)

\* A thread starts a push, has returned from it, or does nothing of the kind.
StartsOrEnds(u) ==
  \/ push'[u] = push[u]
  \/ /\ push[u].pc \in {"idle", "returned"} /\ push'[u].pc \in {"idle", "serial_take", "read_front"}
     /\ push'[u].kind \in BagKinds
     /\ push'[u].pc = "serial_take" => push'[u].kind = ID_PRIVATE_BAG
     /\ push'[u].pc = "read_front" => push'[u].kind = ID_SHARED_BAG

LEMMA MemoryAlone ==
  ASSUME OwnInv, NEW owner, NEW pos, ListsInv(owner, pos),
         phase \notin {"create", "append"}, phase' \in {"move", "single", "done"},
         UNCHANGED <<build, chunk, allocated, freeChunks, particles, particlesNext>>,
         \A u \in Threads : StartsOrEnds(u),
         Fronts' = Fronts, Listed' = Listed => Heads(owner, pos)', LoopInv', AppendInv'
  PROVE  OwnInv' /\ OwnersStay
<1>1. MemoryInv /\ FreesInv /\ HandsInv
  BY DEF OwnInv
<1>2. MemoryInv' /\ FreesInv' /\ SparesInv'
  BY <1>1 DEF MemoryInv, FreesInv, SparesInv
<1>3. \A u \in Threads : \/ push'[u] = push[u]
                         \/ /\ push[u].pc \in {"idle", "returned"}
                            /\ push'[u].pc \in {"idle", "serial_take", "read_front"}
  BY DEF StartsOrEnds
<1>4. \A u \in Threads : push'[u].pc \in {"publish", "undo", "write", "extend"} \/ push[u].pc \in {"publish", "undo", "write", "extend"}
                           => push'[u] = push[u]
  BY <1>3
<1>5. Listed' = Listed
  <2>1. \A a : OutOfLists(a)' <=> OutOfLists(a)
    BY <1>4 DEF OutOfLists
  <2>2. ListedNow /\ ListedNow'
    BY ListedOutsideAppend, ListedOutsideAppendNext
  <2> QED BY <2>1, <2>2 DEF ListedNow
<1>6. HandsInv'
  BY <1>1, <1>4 DEF HandsInv, Target
<1>7. ExtendersInv'
  <2>1. ExtendersInv
    BY DEF ListsInv
  <2>2. \A u \in Threads : Extends(u)' <=> Extends(u)
    BY <1>4 DEF Extends
  <2>3. \A u \in Threads : Extends(u) => push'[u] = push[u]
    BY <1>4 DEF Extends
  <2>4. \A kind, j : Full(NextFront(kind, j))' <=> Full(NextFront(kind, j))
    BY DEF Full, NextFront
  <2> QED BY <2>1, <2>2, <2>3, <2>4 DEF ExtendersInv
<1>8. LateInv'
  <2>1. LateInv
    BY DEF ListsInv
  <2> QED BY <1>4, <2>1 DEF LateInv
<1>9. PushesInv(owner)'
  <2>1. ASSUME NEW u \in Threads PROVE PushAt(owner, u)'
    <3>1. PushAt(owner, u)
      BY DEF ListsInv, PushesInv
    <3>2. CASE push'[u] = push[u]
      BY <1>5, <3>1, <3>2 DEF PushAt, Full, Target
    <3>3. CASE push'[u] # push[u]
      <4>1. /\ push'[u].pc \in {"idle", "serial_take", "read_front"}
            /\ push'[u].kind \in BagKinds
            /\ push'[u].pc = "serial_take" => push'[u].kind = ID_PRIVATE_BAG
            /\ push'[u].pc = "read_front" => push'[u].kind = ID_SHARED_BAG
        BY <3>3 DEF StartsOrEnds
      <4> QED BY <4>1 DEF PushAt
    <3> QED BY <3>2, <3>3
  <2> QED BY <2>1 DEF PushesInv
<1>10. ListsInv(owner, pos)'
  BY <1>5, <1>7, <1>8, <1>9, ListsKept
<1>11. OwnersStay
  BY <1>10 DEF OwnersStay
<1> QED BY <1>2, <1>6, <1>10, <1>11 DEF OwnInv

LEMMA MoveParticleKeeps ==
  ASSUME PInv, OwnInv, NEW t \in Threads, MoveParticle(t)
  PROVE  OwnInv' /\ OwnersStay
<1>1. PICK owner, pos : ListsInv(owner, pos)
  BY DEF OwnInv
<1>2. /\ phase = "move" /\ push[t].pc = "idle"
      /\ UNCHANGED <<build, chunk, allocated, freeChunks, particles, particlesNext>>
      /\ UNCHANGED <<phase, tiles, loop, i_color, appendNext>>
  BY DEF MoveParticle, Idle, memoryVars, simVars
<1> DEFINE p == chunk[loop[t].my_chunk].item[loop[t].i]
<1>3. PICK i_cell \in Cells :
        StartPush(t, IF InPrivateRegion(loop[t].tile, i_cell) THEN ID_PRIVATE_BAG ELSE ID_SHARED_BAG, i_cell, p)
  BY DEF MoveParticle, Destinations
<1>4. PICK kind \in BagKinds : StartPush(t, kind, i_cell, p)
  BY <1>3 DEF BagKinds
<1> HIDE DEF p
<1> DEFINE r == [NoPush EXCEPT !.kind = kind, !.cell = i_cell, !.p = p,
                   !.pc = IF kind = ID_PRIVATE_BAG THEN "serial_take" ELSE "read_front"]
<1>5. push' = [push EXCEPT ![t] = r]
  BY <1>4 DEF StartPush
<1>6. r.kind = kind /\ r.pc = IF kind = ID_PRIVATE_BAG THEN "serial_take" ELSE "read_front"
  BY DEF NoPush
<1> HIDE DEF r
<1>7. push'[t] = r /\ \A u \in Threads : u # t => push'[u] = push[u]
  BY <1>5, Registers
<1>8. \A u \in Threads : StartsOrEnds(u)
  <2>1. StartsOrEnds(t)
    BY <1>2, <1>6, <1>7 DEF StartsOrEnds, BagKinds
  <2> QED BY <1>7, <2>1 DEF StartsOrEnds
<1>9. Fronts' = Fronts
  BY <1>2, FrontsSame
<1>10. ASSUME Listed' = Listed PROVE Heads(owner, pos)'
  <2>1. \A j \in Cells : ~Pending(j) => ~Pending(j)'
    BY <1>2 DEF Pending
  <2>2. Heads(owner, pos)
    BY <1>1 DEF ListsInv
  <2> QED BY <1>2, <1>9, <1>10, <2>1, <2>2, HeadsKept
<1>11. LoopInv' /\ AppendInv'
  BY <1>2 DEF OwnInv, LoopInv, Working, AppendInv
<1> QED BY <1>1, <1>2, <1>8, <1>9, <1>10, <1>11, MemoryAlone

LEMMA FrontsFrom ==
  ASSUME \A j \in Cells : CurrentFront(j)' = CurrentFront(j),
         \A kind \in BagKinds, j \in Cells : NextFront(kind, j)' = NextFront(kind, j)
  PROVE  Fronts' = Fronts
<1>1. \A l \in ListIds : Fronts'[l] = Fronts[l]
  BY FrontOf, FrontOfNext, Ids
<1> QED BY <1>1 DEF Fronts

LEMMA DepositChargeKeeps ==
  ASSUME PInv, OwnInv, NEW t \in Threads, DepositCharge(t)
  PROVE  OwnInv' /\ OwnersStay
<1>1. PICK owner, pos : ListsInv(owner, pos)
  BY DEF OwnInv
<1>2. /\ phase = "move" /\ push[t].pc = "returned" /\ push' = [push EXCEPT ![t] = NoPush]
      /\ UNCHANGED <<build, chunk, allocated, freeChunks, particles, particlesNext>>
      /\ UNCHANGED <<phase, tiles, i_color, appendNext>>
  BY DEF DepositCharge, memoryVars
<1>3. push'[t] = NoPush /\ \A u \in Threads : u # t => push'[u] = push[u]
  BY <1>2, Registers
<1>4. \A u \in Threads : StartsOrEnds(u)
  <2>1. StartsOrEnds(t)
    BY <1>2, <1>3 DEF StartsOrEnds, BagKinds, NoPush
  <2> QED BY <1>3, <2>1 DEF StartsOrEnds
<1>5. \A u \in Threads : /\ loop'[u].tile = loop[u].tile /\ loop'[u].j = loop[u].j
                         /\ loop'[u].todo = loop[u].todo /\ loop'[u].my_chunk = loop[u].my_chunk
                         /\ ~Working(u) => loop'[u] = loop[u]
  <2> DEFINE l == [loop[t] EXCEPT !.i = @ + 1]
  <2>1. l.tile = loop[t].tile /\ l.j = loop[t].j /\ l.todo = loop[t].todo /\ l.my_chunk = loop[t].my_chunk
    BY DEF PInv, RegistersInv, LoopShape, LoopFields
  <2>2. loop' = [loop EXCEPT ![t] = l]
    BY DEF DepositCharge
  <2>3. loop = [u \in Threads |-> loop[u]]
    BY DEF PInv, RegistersInv
  <2> HIDE DEF l
  <2>4. loop'[t] = l /\ \A u \in Threads : u # t => loop'[u] = loop[u]
    BY <2>2, <2>3
  <2>5. Working(t)
    BY <1>2 DEF PInv, PushInv, Idle
  <2> QED BY <2>1, <2>4, <2>5
<1>6. \A j \in Cells : Pending(j)' <=> Pending(j)
  BY <1>2, <1>5 DEF Pending
<1>7. \A j \in Cells : Visitors(j)' = Visitors(j) /\ \A u \in Visitors(j) : loop'[u].my_chunk = loop[u].my_chunk
  BY <1>5 DEF Visitors, Working
<1>8. Fronts' = Fronts
  <2>1. \A j \in Cells : CurrentFront(j)' = CurrentFront(j)
    <3> TAKE j \in Cells
    <3>1. CASE Pending(j)
      BY <1>2, <1>6, <3>1 DEF CurrentFront
    <3>2. CASE ~Pending(j)
      <4>1. CurrentFront(j) = IF Visitors(j) = {} THEN NULL ELSE loop[Min(Visitors(j))].my_chunk
        BY <1>2, <3>2 DEF CurrentFront
      <4>2. CurrentFront(j)' = IF Visitors(j)' = {} THEN NULL ELSE loop'[Min(Visitors(j)')].my_chunk
        BY <1>2, <1>6, <3>2 DEF CurrentFront
      <4>3. Visitors(j) # {} => Min(Visitors(j)) \in Visitors(j)
        <5>1. Visitors(j) \subseteq Nat
          BY DEF Visitors, Threads
        <5> QED BY <5>1, MinOf
      <4> QED BY <1>7, <4>1, <4>2, <4>3
    <3> QED BY <3>1, <3>2
  <2>2. \A kind, j : NextFront(kind, j)' = NextFront(kind, j)
    BY <1>2 DEF NextFront
  <2> QED BY <2>1, <2>2, FrontsFrom
<1>9. ASSUME Listed' = Listed PROVE Heads(owner, pos)'
  <2>1. Heads(owner, pos)
    BY <1>1 DEF ListsInv
  <2> QED BY <1>2, <1>6, <1>8, <1>9, <2>1, HeadsKept
<1>10. LoopInv'
  BY <1>2, <1>5 DEF OwnInv, LoopInv, Working
<1>11. AppendInv'
  BY <1>2 DEF OwnInv, AppendInv
<1> QED BY <1>1, <1>2, <1>4, <1>8, <1>9, <1>10, <1>11, MemoryAlone

\* The cell that a thread visits is no longer to be visited, nor visited by others.
LEMMA VisitedCell ==
  ASSUME PInv, LoopInv, NEW t \in Threads, Working(t)
  PROVE  /\ phase = "move" /\ loop[t].j \in Cells /\ ~Pending(loop[t].j) /\ Visitors(loop[t].j) = {t}
         /\ CurrentFront(loop[t].j) = loop[t].my_chunk
<1> DEFINE j == loop[t].j  tile == loop[t].tile
<1>1. /\ phase = "move" /\ tile \in TilesOfColor(i_color) /\ i_color \in Colors
      /\ \A u \in Threads : u # t => tile \notin tiles[u] /\ (Working(u) => loop[u].tile # tile)
  BY DEF PInv, TilesInv
<1>2. /\ j \in Cells /\ TileOfCell[j] = tile /\ j \notin loop[t].todo /\ tile \notin tiles[t]
      /\ \A u \in Threads : IF Working(u) THEN /\ TileOfCell[loop[u].j] = loop[u].tile
                                               /\ \A i \in loop[u].todo : TileOfCell[i] = loop[u].tile
                            ELSE loop[u].todo = {}
  BY DEF LoopInv, NoTile
<1>3. ~(ColorOfCell[j] > i_color)
  <2>1. ColorOfCell[j] = i_color
    BY <1>1, <1>2, ColorOfTheTile
  <2> QED BY <1>1, <2>1 DEF Colors
<1>4. Visitors(j) = {t}
  <2>1. t \in Visitors(j)
    BY DEF Visitors
  <2>2. \A u \in Visitors(j) : u = t
    BY <1>1, <1>2 DEF Visitors
  <2> QED BY <2>1, <2>2
<1>5. ~Pending(j)
  BY <1>1, <1>2, <1>3 DEF Pending
<1>6. Min(Visitors(j)) = t
  <2>1. {t} \subseteq Nat
    BY DEF Threads
  <2>2. Min({t}) \in {t}
    BY <2>1, MinOf
  <2> QED BY <1>4, <2>2
<1> HIDE DEF j
<1>7. CurrentFront(j) = loop[t].my_chunk
  BY <1>1, <1>4, <1>5, <1>6 DEF CurrentFront
<1> QED BY <1>1, <1>2, <1>4, <1>5, <1>7 DEF j

LEMMA VisitedCellNext ==
  ((PInv /\ LoopInv) =>
   \A t \in Threads : Working(t) =>
         /\ phase = "move" /\ loop[t].j \in Cells /\ ~Pending(loop[t].j) /\ Visitors(loop[t].j) = {t}
         /\ CurrentFront(loop[t].j) = loop[t].my_chunk)'
<1>1. (PInv /\ LoopInv) =>
        \A t \in Threads : Working(t) =>
         /\ phase = "move" /\ loop[t].j \in Cells /\ ~Pending(loop[t].j) /\ Visitors(loop[t].j) = {t}
         /\ CurrentFront(loop[t].j) = loop[t].my_chunk
  BY VisitedCell
<1> QED BY <1>1, PTL

\* A cell that nobody visits keeps its front.
LEMMA UnvisitedCell ==
  ASSUME NEW j \in Cells, UNCHANGED <<phase, particles>>, phase = "move", Pending(j)' <=> Pending(j),
         Visitors(j) = {}, Visitors(j)' = {}
  PROVE  CurrentFront(j)' = CurrentFront(j)
<1>1. CASE Pending(j)
  BY <1>1 DEF CurrentFront
<1>2. CASE ~Pending(j)
  BY <1>2 DEF CurrentFront
<1> QED BY <1>1, <1>2

\* A cell that another thread visits keeps its front.
LEMMA VisitedByOthers ==
  ASSUME PInv, LoopInv, PInv', LoopInv', NEW u \in Threads, Working(u), loop'[u] = loop[u]
  PROVE  CurrentFront(loop[u].j)' = CurrentFront(loop[u].j)
<1>1. Working(u)'
  BY DEF Working
<1>2. CurrentFront(loop[u].j) = loop[u].my_chunk
  BY VisitedCell
<1>3. CurrentFront(loop[u].j)' = loop'[u].my_chunk
  BY <1>1, VisitedCellNext
<1> QED BY <1>2, <1>3

LEMMA TakeTileKeeps ==
  ASSUME PInv, OwnInv, NEW t \in Threads, TakeTile(t)
  PROVE  OwnInv' /\ OwnersStay
<1>1. PICK owner, pos : ListsInv(owner, pos)
  BY DEF OwnInv
<1> DEFINE At(tile) == [tile |-> tile, j |-> FirstCellOf(tile), todo |-> CellsOfTile(tile) \ {FirstCellOf(tile)},
                        my_chunk |-> particles[FirstCellOf(tile)].front, i |-> 0]
<1>2. PICK tile \in tiles[t] : tiles' = [tiles EXCEPT ![t] = @ \ {tile}] /\ loop' = [loop EXCEPT ![t] = At(tile)]
  BY DEF TakeTile
<1>3. /\ phase = "move" /\ ~Working(t)
      /\ UNCHANGED <<build, chunk, allocated, freeChunks, particles, particlesNext, push>>
      /\ UNCHANGED <<phase, i_color, appendNext>>
  BY DEF TakeTile, bagVars
<1> DEFINE r == At(tile)  first == FirstCellOf(tile)
<1>4. r.tile = tile /\ r.j = first /\ r.todo = CellsOfTile(tile) \ {first} /\ r.my_chunk = particles[first].front
  OBVIOUS
<1>5. /\ i_color \in Colors /\ tile \in TilesOfColor(i_color)
      /\ \A u \in Threads : u # t => tile \notin tiles[u] /\ (Working(u) => loop[u].tile # tile)
      /\ tiles = [u \in Threads |-> tiles[u]] /\ loop = [u \in Threads |-> loop[u]]
  BY DEF PInv, TilesInv, RegistersInv
<1> HIDE DEF r
<1>6. /\ loop'[t] = r /\ \A u \in Threads : u # t => loop'[u] = loop[u]
      /\ tiles'[t] = tiles[t] \ {tile} /\ \A u \in Threads : u # t => tiles'[u] = tiles[u]
  BY <1>2, <1>5 DEF r
<1> DEFINE f == first
<1>7. first \in Cells /\ TileOfCell[first] = tile
  BY <1>5, FirstCellInTile
<1>8. \A j \in Cells : j \in CellsOfTile(tile) <=> TileOfCell[j] = tile
  BY <1>5, CellOfTheTile
<1> HIDE DEF first
<1>9. LoopInv /\ PInv'
  BY TakeTileStep DEF OwnInv
<1>10. loop[t] = NoTile /\ \A u \in Threads : Working(u) => \A i \in loop[u].todo : i \in Cells /\ TileOfCell[i] = loop[u].tile
  BY <1>3, <1>9 DEF LoopInv
<1>11. LoopInv'
  <2>1. ASSUME NEW u \in Threads
        PROVE  /\ ~Working(u)' => loop'[u] = NoTile
               /\ Working(u)' => /\ loop'[u].j \in Cells /\ TileOfCell[loop'[u].j] = loop'[u].tile
                                 /\ loop'[u].todo \subseteq {i \in Cells : TileOfCell[i] = loop'[u].tile}
                                 /\ loop'[u].j \notin loop'[u].todo
                                 /\ loop'[u].tile \notin tiles'[u]
    <3>1. CASE u # t
      <4>1. loop'[u] = loop[u] /\ tiles'[u] = tiles[u]
        BY <1>6, <3>1
      <4> QED BY <1>9, <4>1 DEF LoopInv, Working
    <3>2. CASE u = t
      <4>1. CellsOfTile(tile) \subseteq Cells
        BY DEF CellsOfTile
      <4>2. particles[first].front # NULL
        <5>1. Pending(first)
          BY <1>7 DEF Pending
        <5>2. Fronts[CurrentId(first)] # NULL
          BY <1>1, <1>3, <1>7, <5>1 DEF ListsInv, Heads
        <5>3. CurrentFront(first) = particles[first].front
          BY <1>3, <5>1 DEF CurrentFront
        <5> QED BY <1>7, <5>2, <5>3, FrontOf
      <4>3. Working(t)'
        BY <1>4, <1>6, <4>2 DEF Working
      <4> QED BY <1>4, <1>6, <1>7, <1>8, <3>2, <4>1, <4>3
    <3> QED BY <3>1, <3>2
  <2> QED BY <2>1 DEF LoopInv
<1>12. \A j \in Cells : j # first => (Pending(j)' <=> Pending(j))
  <2> SUFFICES ASSUME NEW j \in Cells, j # first PROVE Pending(j)' <=> Pending(j)
    OBVIOUS
  <2>1. CASE TileOfCell[j] = tile
    <3>1. Pending(j)
      BY <2>1 DEF Pending
    <3>2. j \in loop'[t].todo
      BY <1>4, <1>6, <1>8, <2>1
    <3>3. Pending(j)'
      BY <3>2 DEF Pending
    <3> QED BY <3>1, <3>3
  <2>2. CASE TileOfCell[j] # tile
    <3>1. \A u \in Threads : TileOfCell[j] \in tiles'[u] <=> TileOfCell[j] \in tiles[u]
      BY <1>6, <2>2
    <3>2. \A u \in Threads : j \in loop'[u].todo <=> j \in loop[u].todo
      <4> TAKE u \in Threads
      <4>1. CASE u = t
        <5>1. j \notin loop'[t].todo
          BY <1>4, <1>6, <1>8, <2>2
        <5>2. loop[t].todo = {}
          BY <1>10 DEF NoTile
        <5> QED BY <4>1, <5>1, <5>2
      <4>2. CASE u # t
        BY <1>6, <4>2
      <4> QED BY <4>1, <4>2
    <3> QED BY <1>3, <3>1, <3>2 DEF Pending
  <2> QED BY <2>1, <2>2
<1>13. Pending(first)
  BY <1>7 DEF Pending
<1>14. \A j \in Cells : CurrentFront(j)' = CurrentFront(j)
  <2> TAKE j \in Cells
  <2>1. CASE \E u \in Threads : u # t /\ Working(u) /\ loop[u].j = j
    <3>1. PICK u \in Threads : u # t /\ Working(u) /\ loop[u].j = j
      BY <2>1
    <3>2. loop'[u] = loop[u]
      BY <1>6, <3>1
    <3>3. CurrentFront(loop[u].j)' = CurrentFront(loop[u].j)
      BY <1>9, <1>11, <3>1, <3>2, VisitedByOthers
    <3>4. loop'[u].j = j
      BY <3>1, <3>2
    <3> QED BY <3>1, <3>3, <3>4
  <2>2. CASE j = first
    <3>1. CurrentFront(j) = particles[j].front
      BY <1>3, <1>13, <2>2 DEF CurrentFront
    <3>2. Working(t)'
      <4>1. Fronts[CurrentId(first)] # NULL
        BY <1>1, <1>3, <1>7, <1>13 DEF ListsInv, Heads
      <4>2. particles[first].front # NULL
        BY <1>7, <2>2, <3>1, <4>1, FrontOf
      <4> QED BY <1>4, <1>6, <4>2 DEF Working
    <3>3. CurrentFront(loop[t].j)' = loop'[t].my_chunk
      BY <1>9, <1>11, <3>2, VisitedCellNext
    <3>4. loop'[t].j = j /\ loop'[t].my_chunk = particles[j].front
      BY <1>4, <1>6, <2>2
    <3> QED BY <3>1, <3>3, <3>4
  <2>3. CASE j # first /\ ~\E u \in Threads : u # t /\ Working(u) /\ loop[u].j = j
    <3>1. Visitors(j) = {}
      BY <1>3, <2>3 DEF Visitors
    <3>2. Visitors(j)' = {}
      <4>1. \A u \in Threads : ~(Working(u)' /\ loop'[u].j = j)
        BY <1>4, <1>6, <2>3 DEF Working
      <4> QED BY <4>1 DEF Visitors
    <3> QED BY <1>3, <1>12, <2>3, <3>1, <3>2, UnvisitedCell
  <2> QED BY <2>1, <2>2, <2>3
<1>15. Fronts' = Fronts
  <2>1. \A kind \in BagKinds, j \in Cells : NextFront(kind, j)' = NextFront(kind, j)
    BY <1>3 DEF NextFront
  <2> QED BY <1>14, <2>1, FrontsFrom
<1>16. ASSUME Listed' = Listed PROVE Heads(owner, pos)'
  <2>1. Heads(owner, pos)
    BY <1>1 DEF ListsInv
  <2>2. \A j \in Cells : ~Pending(j) => ~Pending(j)'
    BY <1>12, <1>13
  <2> QED BY <1>3, <1>15, <1>16, <2>1, <2>2, HeadsKept
<1>17. AppendInv'
  BY <1>3 DEF OwnInv, AppendInv
<1>18. \A u \in Threads : StartsOrEnds(u)
  BY <1>3 DEF StartsOrEnds
<1> QED BY <1>1, <1>3, <1>11, <1>15, <1>16, <1>17, <1>18, MemoryAlone

\* When no thread has a tile left, the cells to visit are those of the next colours.
LEMMA PendingAtBarrier ==
  ASSUME NEW j \in Cells, LoopInv, \A t \in Threads : ~Working(t), i_color \in Colors,
         tiles \in [Threads -> SUBSET TilesOfColor(i_color)],
         \A tile \in TilesOfColor(i_color) : (\E t \in Threads : tile \in tiles[t])
  PROVE  Pending(j) <=> ColorOfCell[j] >= i_color
<1>1. \A t \in Threads : loop[t].todo = {}
  BY DEF LoopInv, NoTile
<1>2. ColorOfCell[j] \in Colors /\ TileOfCell[j] \in TilesOfColor(ColorOfCell[j])
  BY TileHasColor
<1>3. CASE ColorOfCell[j] = i_color
  BY <1>2, <1>3 DEF Pending, Colors
<1>4. CASE ColorOfCell[j] # i_color
  <2>1. \A t \in Threads : TileOfCell[j] \notin tiles[t]
    BY <1>4, ColorOfTheTile
  <2> QED BY <1>1, <1>2, <1>4, <2>1 DEF Pending, Colors
<1> QED BY <1>3, <1>4

LEMMA PendingAtBarrierNext ==
  ((/\ LoopInv /\ (\A t \in Threads : ~Working(t)) /\ i_color \in Colors
    /\ tiles \in [Threads -> SUBSET TilesOfColor(i_color)]
    /\ \A tile \in TilesOfColor(i_color) : (\E t \in Threads : tile \in tiles[t]))
   => \A j \in Cells : Pending(j) <=> ColorOfCell[j] >= i_color)'
<1>1. (/\ LoopInv /\ (\A t \in Threads : ~Working(t)) /\ i_color \in Colors
       /\ tiles \in [Threads -> SUBSET TilesOfColor(i_color)]
       /\ \A tile \in TilesOfColor(i_color) : (\E t \in Threads : tile \in tiles[t]))
      => \A j \in Cells : Pending(j) <=> ColorOfCell[j] >= i_color
  BY PendingAtBarrier
<1> QED BY <1>1, PTL

LEMMA NextColorKeeps ==
  ASSUME PInv, OwnInv, NextColor
  PROVE  OwnInv' /\ OwnersStay
<1>1. PICK owner, pos : ListsInv(owner, pos)
  BY DEF OwnInv
<1>2. /\ phase = "move" /\ tiles = NoTiles /\ \A t \in Threads : ~Working(t)
      /\ UNCHANGED <<build, chunk, allocated, freeChunks, particles, particlesNext, push, loop, appendNext>>
  BY DEF NextColor, ColorDone, bagVars
<1>3. /\ PInv' /\ i_color \in Colors /\ LoopInv /\ AppendInv /\ \A t \in Threads : ~Working(t)' /\ loop[t] = NoTile
  BY <1>2, NextColorStep DEF PInv, TilesInv, OwnInv, LoopInv, Working
<1>4. LoopInv' /\ AppendInv'
  BY <1>2, <1>3 DEF LoopInv, AppendInv, Working
<1>5. \A j \in Cells : Visitors(j) = {} /\ Visitors(j)' = {}
  BY <1>2, <1>3 DEF Visitors
<1>6. \A j \in Cells : Pending(j) <=> ColorOfCell[j] > i_color
  BY <1>2, <1>3 DEF Pending, NoTiles, NoTile
<1>7. \A j \in Cells : ColorOfCell[j] \in Colors
  BY TileHasColor
<1>8. \A u \in Threads : StartsOrEnds(u)
  BY <1>2 DEF StartsOrEnds
<1>9. Max(Colors) = 7
  <2>1. \A x \in Colors : 7 >= x
    BY DEF Colors
  <2>2. 7 \in Colors
    BY DEF Colors
  <2> QED BY <2>1, <2>2 DEF Max
<1>10. CASE i_color < 7
  <2>1. i_color' = i_color + 1 /\ tiles' = TileBlocks(i_color + 1) /\ phase' = phase
    BY <1>9, <1>10 DEF NextColor
  <2>2. \A j \in Cells : Pending(j)' <=> Pending(j)
    <3>1. i_color' \in Colors
      BY <1>3, <1>10, <2>1 DEF Colors
    <3>2. tiles' \in [Threads -> SUBSET TilesOfColor(i_color')]
      BY <1>3 DEF PInv, TilesInv
    <3>3. \A tile \in TilesOfColor(i_color') : (\E t \in Threads : tile \in tiles'[t])
      BY <2>1, <3>1, TilesDealt
    <3>4. \A j \in Cells : Pending(j)' <=> ColorOfCell[j] >= i_color'
      BY <1>3, <1>4, <3>1, <3>2, <3>3, PendingAtBarrierNext
    <3> QED BY <1>3, <1>6, <1>7, <2>1, <3>4 DEF Colors
  <2>3. \A j \in Cells : CurrentFront(j)' = CurrentFront(j)
    BY <1>2, <1>5, <2>1, <2>2, UnvisitedCell
  <2>4. Fronts' = Fronts
    <3>1. \A kind \in BagKinds, j \in Cells : NextFront(kind, j)' = NextFront(kind, j)
      BY <1>2 DEF NextFront
    <3> QED BY <2>3, <3>1, FrontsFrom
  <2>5. ASSUME Listed' = Listed PROVE Heads(owner, pos)'
    <3>1. Heads(owner, pos)
      BY <1>1 DEF ListsInv
    <3> QED BY <1>2, <2>1, <2>2, <2>4, <2>5, <3>1, HeadsKept
  <2> QED BY <1>1, <1>2, <1>4, <1>8, <2>1, <2>4, <2>5, MemoryAlone
<1>11. CASE ~(i_color < 7)
  <2>1. phase' = "single"
    BY <1>9, <1>11 DEF NextColor
  <2>2. \A j \in Cells : ~Pending(j)
    BY <1>3, <1>6, <1>7, <1>11 DEF Colors
  <2>3. \A j \in Cells : CurrentFront(j) = NULL /\ CurrentFront(j)' = NULL
    BY <1>2, <1>5, <2>1, <2>2 DEF CurrentFront
  <2>4. Fronts' = Fronts
    <3>1. \A kind \in BagKinds, j \in Cells : NextFront(kind, j)' = NextFront(kind, j)
      BY <1>2 DEF NextFront
    <3> QED BY <2>3, <3>1, FrontsFrom
  <2>5. ASSUME Listed' = Listed PROVE Heads(owner, pos)'
    BY <1>1, <1>2, <2>1, <2>4, <2>5 DEF ListsInv, Heads
  <2> QED BY <1>1, <1>2, <1>4, <1>8, <2>1, <2>4, <2>5, MemoryAlone
<1> QED BY <1>10, <1>11

-----------------------------------------------------------------------------
(* A chunk that has been read to its end is freed.                          *)

LEMMA FreedChunk ==
  ASSUME MemoryInv, FreesInv, phase # "create", phase' = phase,
         NEW t \in Threads, NEW c \in allocated, \A u \in Threads : c \notin Elements(freeChunks[u]), chunk_free(c, t)
  PROVE  /\ allocated' \subseteq allocated /\ allocated \ {c} \subseteq allocated'
         /\ freeChunks' \in [Threads -> Seq(Addresses)]
         /\ \A u \in Threads : \A a : a # c => (a \in Elements(freeChunks'[u]) <=> a \in Elements(freeChunks[u]))
         /\ c \in allocated' => \E u \in Threads : c \in Elements(freeChunks'[u])
         /\ FreesInv'
<1>1. /\ freeChunks \in [Threads -> Seq(Addresses)] /\ allocated \subseteq Addresses
      /\ \A u \in Threads : Elements(freeChunks[u]) \subseteq allocated
      /\ \A u \in Threads : \A i, k \in DOMAIN freeChunks[u] : freeChunks[u][i] = freeChunks[u][k] => i = k
      /\ \A u, v \in Threads : u # v => Elements(freeChunks[u]) \cap Elements(freeChunks[v]) = {}
  BY DEF MemoryInv, FreesInv
<1> DEFINE toList == build # "STDCHUNKALLOC" /\ FREE_INDEX(t) < FREELIST_SIZE
<1>2. CASE toList
  <2> DEFINE s == freeChunks[t]  n == Len(s)  s2 == Append(s, c)
  <2>1. s \in Seq(Addresses) /\ n \in Nat /\ DOMAIN s = 1 .. n /\ c \in Addresses
    BY <1>1
  <2>2. freeChunks' = [freeChunks EXCEPT ![t] = s2] /\ allocated' = allocated
    BY <1>2 DEF chunk_free
  <2>3. s2 \in Seq(Addresses) /\ DOMAIN s2 = 1 .. n + 1 /\ s2[n + 1] = c /\ \A i \in 1 .. n : s2[i] = s[i]
    <3> HIDE DEF s
    <3> QED BY <2>1
  <2>4. c \notin Elements(s)
    OBVIOUS
  <2> HIDE DEF s, n, s2
  <2>5. Elements(s2) = Elements(s) \cup {c}
    <3>1. 1 .. n + 1 = (1 .. n) \cup {n + 1}
      BY <2>1
    <3> QED BY <2>1, <2>3, <3>1 DEF Elements
  <2>6. freeChunks'[t] = s2 /\ \A u \in Threads : u # t => freeChunks'[u] = freeChunks[u]
    BY <1>1, <2>2
  <2>7. freeChunks' \in [Threads -> Seq(Addresses)]
    BY <1>1, <2>2, <2>3
  <2>8. \A u \in Threads : Elements(freeChunks'[u]) = IF u = t THEN Elements(freeChunks[u]) \cup {c} ELSE Elements(freeChunks[u])
    BY <2>5, <2>6 DEF s
  <2>9. FreesInv'
    <3>1. \A u \in Threads : Elements(freeChunks'[u]) \subseteq allocated'
      BY <1>1, <2>2, <2>8
    <3>2. ASSUME NEW u \in Threads, NEW i \in DOMAIN freeChunks'[u], NEW k \in DOMAIN freeChunks'[u],
                 freeChunks'[u][i] = freeChunks'[u][k]
          PROVE  i = k
      <4>1. CASE u = t
        <5>1. i \in 1 .. n + 1 /\ k \in 1 .. n + 1 /\ s2[i] = s2[k] /\ n \in Nat
          BY <2>1, <2>3, <2>6, <3>2, <4>1
        <5>2. \A m \in 1 .. n : s2[m] # c
          BY <2>1, <2>3, <2>4 DEF Elements
        <5>3. \A m, l \in 1 .. n : s[m] = s[l] => m = l
          BY <1>1, <2>1 DEF s
        <5> QED BY <2>3, <5>1, <5>2, <5>3
      <4>2. CASE u # t
        BY <1>1, <2>6, <3>2, <4>2
      <4> QED BY <4>1, <4>2
    <3>3. ASSUME NEW u \in Threads, NEW v \in Threads, u # v
          PROVE  Elements(freeChunks'[u]) \cap Elements(freeChunks'[v]) = {}
      BY <1>1, <2>8, <3>3
    <3>4. \A u \in Threads : \A i, k \in DOMAIN freeChunks'[u] : freeChunks'[u][i] = freeChunks'[u][k] => i = k
      BY <3>2
    <3> QED BY <3>1, <3>3, <3>4 DEF FreesInv
  <2> QED BY <2>2, <2>7, <2>8, <2>9
<1>3. CASE ~toList
  <2>1. freeChunks' = freeChunks /\ allocated' = allocated \ {c}
    BY <1>3 DEF chunk_free
  <2>2. FreesInv'
    BY <1>1, <2>1 DEF FreesInv
  <2> QED BY <1>1, <2>1, <2>2
<1> QED BY <1>2, <1>3

\* Where thread t goes when it has read its chunk to the end.
GoesTo(t, next, l) ==
  IF next # NULL THEN l.tile = loop[t].tile /\ l.j = loop[t].j /\ l.todo = loop[t].todo /\ l.my_chunk = next
  ELSE IF loop[t].todo = {} THEN l = NoTile
  ELSE /\ l.tile = loop[t].tile /\ l.j \in loop[t].todo /\ l.todo = loop[t].todo \ {l.j}
       /\ l.my_chunk = particles[l.j].front

LEMMA GoesOn ==
  ASSUME PInv, LoopInv, NEW t \in Threads, NextChunk(t)
  PROVE  \E l : loop' = [loop EXCEPT ![t] = l] /\ GoesTo(t, chunk[loop[t].my_chunk].next, l) /\ l.i = 0
<1> DEFINE next == chunk[loop[t].my_chunk].next
           SameTile(c) == [loop[t] EXCEPT !.my_chunk = c, !.i = 0]
           NextCell(j, todo, c) == [loop[t] EXCEPT !.j = j, !.todo = todo, !.my_chunk = c, !.i = 0]
           m == Min(loop[t].todo)
<1>1. LoopShape(loop[t])
  BY DEF PInv, RegistersInv
<1>2. ASSUME NEW c
      PROVE  /\ SameTile(c).tile = loop[t].tile /\ SameTile(c).j = loop[t].j /\ SameTile(c).todo = loop[t].todo
             /\ SameTile(c).my_chunk = c /\ SameTile(c).i = 0
  BY <1>1 DEF LoopShape, LoopFields
<1>3. ASSUME NEW j, NEW todo, NEW c
      PROVE  /\ NextCell(j, todo, c).tile = loop[t].tile /\ NextCell(j, todo, c).j = j
             /\ NextCell(j, todo, c).todo = todo /\ NextCell(j, todo, c).my_chunk = c
             /\ NextCell(j, todo, c).i = 0
  BY <1>1 DEF LoopShape, LoopFields
<1>4. loop' = [loop EXCEPT ![t] = IF next # NULL THEN SameTile(next)
                                  ELSE IF loop[t].todo = {} THEN NoTile
                                  ELSE NextCell(m, loop[t].todo \ {m}, particles[m].front)]
  BY DEF NextChunk
<1>5. loop[t].todo # {} => m \in loop[t].todo
  <2>1. loop[t].todo \subseteq Nat
    BY DEF NextChunk, LoopInv, Cells
  <2> QED BY <2>1, MinOf
<1> HIDE DEF SameTile, NextCell, m, next
<1>6. CASE next # NULL
  <2>1. loop' = [loop EXCEPT ![t] = SameTile(next)] /\ GoesTo(t, next, SameTile(next)) /\ SameTile(next).i = 0
    BY <1>2, <1>4, <1>6 DEF GoesTo
  <2> QED BY <2>1 DEF next
<1>7. CASE next = NULL /\ loop[t].todo = {}
  <2>1. loop' = [loop EXCEPT ![t] = NoTile] /\ GoesTo(t, next, NoTile) /\ NoTile.i = 0
    BY <1>4, <1>7 DEF GoesTo, NoTile
  <2> QED BY <2>1 DEF next
<1>8. CASE next = NULL /\ loop[t].todo # {}
  <2> DEFINE l == NextCell(m, loop[t].todo \ {m}, particles[m].front)
  <2>1. l.tile = loop[t].tile /\ l.j = m /\ l.todo = loop[t].todo \ {m} /\ l.my_chunk = particles[m].front
        /\ l.i = 0
    BY <1>3
  <2>2. loop' = [loop EXCEPT ![t] = l]
    BY <1>4, <1>8
  <2> HIDE DEF l
  <2>3. GoesTo(t, next, l)
    BY <1>5, <1>8, <2>1 DEF GoesTo
  <2> QED BY <2>1, <2>2, <2>3 DEF next
<1> QED BY <1>6, <1>7, <1>8

LEMMA NextChunkKeeps ==
  ASSUME PInv, OwnInv, NEW t \in Threads, NextChunk(t)
  PROVE  OwnInv' /\ OwnersStay /\ Listed' = Listed \ {loop[t].my_chunk}
<1>1. PICK c, j, b : c = loop[t].my_chunk /\ j = loop[t].j /\ b = CurrentId(j)
  OBVIOUS
<1>2. PICK owner, pos : ListsInv(owner, pos)
  BY DEF OwnInv
<1>3. /\ phase = "move" /\ Working(t) /\ Idle(t) /\ chunk_free(c, t)
      /\ UNCHANGED <<build, chunk, particles, particlesNext, push, phase, i_color, tiles, appendNext>>
  BY <1>1 DEF NextChunk
<1>4. MemoryInv /\ FreesInv /\ HandsInv /\ LoopInv /\ AppendInv /\ PInv'
  BY NextChunkStep DEF OwnInv
<1>5. PICK l : loop' = [loop EXCEPT ![t] = l] /\ GoesTo(t, chunk[c].next, l)
  BY <1>1, <1>4, GoesOn
<1>6. loop'[t] = l /\ \A u \in Threads : u # t => loop'[u] = loop[u]
  BY <1>5 DEF PInv, RegistersInv
<1>7. /\ j \in Cells /\ ~Pending(j) /\ Visitors(j) = {t} /\ CurrentFront(j) = c /\ c # NULL
      /\ TileOfCell[j] = loop[t].tile /\ j \notin loop[t].todo /\ loop[t].tile \notin tiles[t]
      /\ \A i \in loop[t].todo : i \in Cells /\ TileOfCell[i] = loop[t].tile
  BY <1>1, <1>3, <1>4, VisitedCell DEF LoopInv, Working
<1>8. \A u \in Threads : /\ u # t => (Working(u) => loop[u].tile # loop[t].tile) /\ loop[t].tile \notin tiles[u]
                         /\ Working(u) => \A i \in loop[u].todo : TileOfCell[i] = loop[u].tile
                         /\ ~Working(u) => loop[u].todo = {}
  BY <1>3, <1>4 DEF PInv, TilesInv, LoopInv, NoTile
<1>9. Chained(owner, pos, Links, Listed, Fronts) /\ Heads(owner, pos)
  BY <1>2 DEF ListsInv
<1>10. /\ b \in ListIds /\ Fronts[b] = c /\ c \in Listed /\ owner[c] = b /\ c \in Addresses /\ c \in allocated
       /\ Links[c] = chunk[c].next
  <2>1. b \in ListIds /\ Fronts[b] = c
    BY <1>1, <1>7, Ids, FrontOf
  <2>2. c \in Listed /\ owner[c] = b
    BY <1>7, <1>9, <2>1 DEF Chained
  <2>3. c \in Addresses /\ c \in allocated
    BY <1>4, <2>2, ListedIsMemory
  <2> QED BY <2>1, <2>2, <2>3, LinksAre
<1>11. ListedNow /\ ListedNow'
  BY <1>3, ListedOutsideAppend, ListedOutsideAppendNext
<1>12. ~OutOfLists(c) /\ \A u \in Threads : c \notin Elements(freeChunks[u])
  BY <1>10, <1>11 DEF ListedNow, OutOfLists
<1>13. /\ allocated' \subseteq allocated /\ allocated \ {c} \subseteq allocated'
       /\ freeChunks' \in [Threads -> Seq(Addresses)]
       /\ \A u \in Threads : \A a : a # c => (a \in Elements(freeChunks'[u]) <=> a \in Elements(freeChunks[u]))
       /\ c \in allocated' => \E u \in Threads : c \in Elements(freeChunks'[u])
       /\ FreesInv'
  BY <1>3, <1>4, <1>10, <1>12, FreedChunk
<1>14. Listed' = Listed \ {c}
  <2>1. \A a : a # c => (OutOfLists(a)' <=> OutOfLists(a))
    BY <1>3, <1>13 DEF OutOfLists
  <2>2. c \in allocated' => OutOfLists(c)'
    BY <1>13 DEF OutOfLists
  <2>3. Listed' = {a \in allocated' : ~OutOfLists(a)'} /\ Listed = {a \in allocated : ~OutOfLists(a)}
    BY <1>11 DEF ListedNow
  <2>4. \A a : a \in Listed' <=> a \in Listed \ {c}
    BY <1>13, <2>1, <2>2, <2>3
  <2> QED BY <2>4
<1>15. MemoryInv'
  BY <1>3, <1>4, <1>13 DEF MemoryInv
<1>16. HandsInv'
  <2>1. \A u \in Threads : push[u].pc = "publish" => push[u].c # c
    BY <1>12 DEF OutOfLists
  <2>2. \A u \in Threads : Target(u)' = Target(u)
    BY <1>3 DEF Target
  <2> QED BY <1>3, <1>4, <1>13, <2>1, <2>2 DEF HandsInv
<1>17. \A u \in Threads : u # t => (Working(u)' <=> Working(u))
  BY <1>6 DEF Working
<1> DEFINE next == chunk[c].next
<1>18. \A i \in Cells : Pending(i) => particles[i].front # NULL
  <2> SUFFICES ASSUME NEW i \in Cells, Pending(i) PROVE particles[i].front # NULL
    OBVIOUS
  <2>1. Fronts[CurrentId(i)] # NULL
    BY <1>3, <1>9 DEF Heads
  <2>2. CurrentFront(i) = particles[i].front
    BY <1>3 DEF CurrentFront
  <2> QED BY <2>1, <2>2, FrontOf
<1>19. \A i \in loop[t].todo : Pending(i) /\ particles[i].front # NULL /\ i \in Cells
  BY <1>7, <1>18 DEF Pending
<1>20. LoopInv'
  <2>1. ASSUME NEW u \in Threads
        PROVE  /\ ~Working(u)' => loop'[u] = NoTile
               /\ Working(u)' => /\ loop'[u].j \in Cells /\ TileOfCell[loop'[u].j] = loop'[u].tile
                                 /\ loop'[u].todo \subseteq {i \in Cells : TileOfCell[i] = loop'[u].tile}
                                 /\ loop'[u].j \notin loop'[u].todo
                                 /\ loop'[u].tile \notin tiles'[u]
    <3>1. CASE u # t
      BY <1>3, <1>4, <1>6, <1>17, <3>1 DEF LoopInv
    <3>2. CASE u = t
      <4>1. CASE next # NULL
        BY <1>1, <1>3, <1>5, <1>6, <1>7, <3>2, <4>1 DEF GoesTo, Working
      <4>2. CASE next = NULL /\ loop[t].todo = {}
        BY <1>5, <1>6, <3>2, <4>2 DEF GoesTo, Working, NoTile
      <4>3. CASE next = NULL /\ loop[t].todo # {}
        <5>1. /\ l.tile = loop[t].tile /\ l.j \in loop[t].todo /\ l.todo = loop[t].todo \ {l.j}
              /\ l.my_chunk = particles[l.j].front
          BY <1>5, <4>3 DEF GoesTo
        <5>2. l.my_chunk # NULL
          BY <1>19, <5>1
        <5> QED BY <1>3, <1>6, <1>7, <3>2, <5>1, <5>2 DEF Working
      <4> QED BY <4>1, <4>2, <4>3
    <3> QED BY <3>1, <3>2
  <2> QED BY <2>1 DEF LoopInv
<1>21. \A i \in Cells : (Pending(i)' => Pending(i)) /\ (Pending(i) => Pending(i)' \/ (Working(t)' /\ loop'[t].j = i))
  <2>1. \A u \in Threads : loop'[u].todo \subseteq loop[u].todo
    <3>1. l.todo \subseteq loop[t].todo
      BY <1>5 DEF GoesTo, NoTile
    <3> QED BY <1>6, <3>1
  <2>2. \A i \in loop[t].todo : i \in loop'[t].todo \/ (Working(t)' /\ loop'[t].j = i)
    <3>1. CASE next # NULL
      BY <1>5, <1>6, <3>1 DEF GoesTo
    <3>2. CASE next = NULL /\ loop[t].todo # {}
      <4>1. /\ l.j \in loop[t].todo /\ l.todo = loop[t].todo \ {l.j} /\ l.my_chunk = particles[l.j].front
        BY <1>5, <3>2 DEF GoesTo
      <4>2. l.my_chunk # NULL
        BY <1>19, <4>1
      <4> QED BY <1>6, <4>1, <4>2 DEF Working
    <3> QED BY <3>1, <3>2
  <2> SUFFICES ASSUME NEW i \in Cells
               PROVE  (Pending(i)' => Pending(i)) /\ (Pending(i) => Pending(i)' \/ (Working(t)' /\ loop'[t].j = i))
    OBVIOUS
  <2>3. Pending(i)' => Pending(i)
    BY <1>3, <2>1 DEF Pending
  <2>4. Pending(i) => Pending(i)' \/ (Working(t)' /\ loop'[t].j = i)
    <3> SUFFICES ASSUME Pending(i), ~(Working(t)' /\ loop'[t].j = i) PROVE Pending(i)'
      OBVIOUS
    <3>1. CASE i \in loop[t].todo
      <4>1. i \in loop'[t].todo
        BY <2>2, <3>1
      <4> QED BY <4>1 DEF Pending
    <3>2. CASE i \notin loop[t].todo
      <4>1. \/ ColorOfCell[i] > i_color
            \/ \E u \in Threads : TileOfCell[i] \in tiles[u] \/ (u # t /\ i \in loop[u].todo)
        BY <3>2 DEF Pending
      <4> QED BY <1>3, <1>6, <4>1 DEF Pending
    <3> QED BY <3>1, <3>2
  <2> QED BY <2>3, <2>4
<1>22. \A i \in Cells : i # j => CurrentFront(i)' = CurrentFront(i)
  <2> SUFFICES ASSUME NEW i \in Cells, i # j PROVE CurrentFront(i)' = CurrentFront(i)
    OBVIOUS
  <2>1. CASE \E u \in Threads : u # t /\ Working(u) /\ loop[u].j = i
    <3>1. PICK u \in Threads : u # t /\ Working(u) /\ loop[u].j = i
      BY <2>1
    <3>2. loop'[u] = loop[u]
      BY <1>6, <3>1
    <3>3. CurrentFront(loop[u].j)' = CurrentFront(loop[u].j)
      BY <1>4, <1>20, <3>1, <3>2, VisitedByOthers
    <3>4. loop'[u].j = i
      BY <3>1, <3>2
    <3> QED BY <3>1, <3>3, <3>4
  <2>2. CASE Working(t)' /\ loop'[t].j = i
    <3>1. CurrentFront(loop[t].j)' = loop'[t].my_chunk
      BY <1>4, <1>20, <2>2, VisitedCellNext
    <3>2. CurrentFront(i)' = loop'[t].my_chunk
      BY <2>2, <3>1
    <3>3. next = NULL /\ loop[t].todo # {}
      <4>1. next # NULL => l.j = j
        BY <1>1, <1>5 DEF GoesTo
      <4>2. next = NULL /\ loop[t].todo = {} => ~Working(t)'
        BY <1>5, <1>6 DEF GoesTo, Working, NoTile
      <4> QED BY <1>6, <2>2, <4>1, <4>2
    <3>4. l.j \in loop[t].todo /\ l.my_chunk = particles[l.j].front
      BY <1>5, <3>3 DEF GoesTo
    <3>5. Pending(i)
      BY <1>6, <1>19, <2>2, <3>4
    <3>6. CurrentFront(i) = particles[i].front
      BY <1>3, <3>5 DEF CurrentFront
    <3> QED BY <1>6, <2>2, <3>2, <3>4, <3>6
  <2>3. CASE ~(Working(t)' /\ loop'[t].j = i) /\ ~\E u \in Threads : u # t /\ Working(u) /\ loop[u].j = i
    <3>1. Visitors(i) = {}
      BY <1>1, <2>3 DEF Visitors
    <3>2. Visitors(i)' = {}
      <4>1. \A u \in Threads : ~(Working(u)' /\ loop'[u].j = i)
        BY <1>6, <1>17, <2>3
      <4> QED BY <4>1 DEF Visitors
    <3>3. Pending(i)' <=> Pending(i)
      BY <1>21, <2>3
    <3> QED BY <1>3, <3>1, <3>2, <3>3, UnvisitedCell
  <2> QED BY <2>1, <2>2, <2>3
<1>23. CurrentFront(j)' = next
  <2>1. ~Pending(j)'
    BY <1>7, <1>21
  <2>2. CASE next # NULL
    <3>1. Working(t)' /\ loop'[t].j = j /\ loop'[t].my_chunk = next
      BY <1>1, <1>5, <1>6, <2>2 DEF GoesTo, Working
    <3>2. CurrentFront(loop[t].j)' = loop'[t].my_chunk
      BY <1>4, <1>20, <3>1, VisitedCellNext
    <3> QED BY <3>1, <3>2
  <2>3. CASE next = NULL
    <3>1. \A u \in Threads : ~(Working(u)' /\ loop'[u].j = j)
      <4> SUFFICES ASSUME NEW u \in Threads, Working(u)', loop'[u].j = j PROVE FALSE
        OBVIOUS
      <4>1. CASE u = t
        <5>1. loop[t].todo # {}
          BY <1>5, <1>6, <2>3, <4>1 DEF GoesTo, Working, NoTile
        <5>2. l.j \in loop[t].todo
          BY <1>5, <2>3, <5>1 DEF GoesTo
        <5> QED BY <1>6, <1>7, <4>1, <5>2
      <4>2. CASE u # t
        <5>1. u \in Visitors(j)
          BY <1>6, <1>17, <4>2 DEF Visitors
        <5> QED BY <1>7, <4>2, <5>1
      <4> QED BY <4>1, <4>2
    <3>2. Visitors(j)' = {}
      BY <3>1 DEF Visitors
    <3> QED BY <1>3, <2>1, <2>3, <3>2 DEF CurrentFront
  <2> QED BY <2>2, <2>3
<1>24. Fronts'[b] = next /\ \A a \in ListIds : a # b => Fronts'[a] = Fronts[a]
  <2>1. \A kind \in BagKinds, i \in Cells : NextFront(kind, i)' = NextFront(kind, i)
    BY <1>3 DEF NextFront
  <2>2. \A kind \in BagKinds, i \in Cells : Fronts'[NextId(kind, i)] = Fronts[NextId(kind, i)]
    BY <2>1, FrontOf, FrontOfNext
  <2>3. \A i \in Cells : i # j => Fronts'[CurrentId(i)] = Fronts[CurrentId(i)]
    BY <1>22, FrontOf, FrontOfNext
  <2>4. Fronts'[b] = next
    <3>1. \A i \in Cells : Fronts'[CurrentId(i)] = CurrentFront(i)'
      BY FrontOfNext
    <3> QED BY <1>1, <1>7, <1>23, <3>1
  <2> HIDE DEF next
  <2>5. \A a \in ListIds : a # b => Fronts'[a] = Fronts[a]
    BY <1>1, <2>2, <2>3, Ids
  <2> QED BY <2>4, <2>5
<1>25. Chained(owner, pos, Links', Listed', Fronts')
  <2>1. SameOn(Fronts', Fronts, ListIds \ {b})
    BY <1>24 DEF SameOn
  <2>2. Fronts'[b] = Links[Fronts[b]]
    BY <1>10, <1>24
  <2>3. Fronts[b] # NULL
    BY <1>7, <1>10
  <2>4. Chained(owner, pos, Links, Listed \ {Fronts[b]}, Fronts')
    BY <1>9, <1>10, <2>1, <2>2, <2>3, CutKeeps
  <2>5. Links' = Links
    BY <1>3 DEF Links
  <2> QED BY <1>10, <1>14, <2>4, <2>5
<1>26. \A kind \in BagKinds, i \in Cells : NextId(kind, i) # b
  BY <1>1, Ids
<1>27. Heads(owner, pos)'
  <2>1. ASSUME NEW i \in Cells
        PROVE  \/ Fronts'[CurrentId(i)] # NULL
               \/ phase' \in {"single", "append"} /\ ~(phase' = "append" /\ Appended(i)')
               \/ phase' = "move" /\ ~Pending(i)'
    <3>1. CASE i = j
      BY <1>3, <1>7, <1>21, <3>1
    <3>2. CASE i # j
      <4>1. Fronts'[CurrentId(i)] = Fronts[CurrentId(i)]
        BY <1>1, <1>24, <3>2, Ids
      <4> QED BY <1>3, <1>9, <1>21, <4>1 DEF Heads
    <3> QED BY <3>1, <3>2
  <2>2. ASSUME NEW kind \in BagKinds, NEW i \in Cells
        PROVE  /\ Fronts'[NextId(kind, i)] # NULL
               /\ particlesNext'[kind][i].back \in Listed'
               /\ owner[particlesNext'[kind][i].back] = NextId(kind, i)
               /\ pos[particlesNext'[kind][i].back] = 0
    <3>1. /\ Fronts[NextId(kind, i)] # NULL
          /\ particlesNext[kind][i].back \in Listed
          /\ owner[particlesNext[kind][i].back] = NextId(kind, i)
          /\ pos[particlesNext[kind][i].back] = 0
      BY <1>9 DEF Heads
    <3>2. Fronts'[NextId(kind, i)] = Fronts[NextId(kind, i)]
      BY <1>24, <1>26, Ids
    <3>3. particlesNext[kind][i].back # c
      BY <1>10, <1>26, <3>1
    <3> QED BY <1>3, <1>14, <3>1, <3>2, <3>3
  <2> QED BY <2>1, <2>2 DEF Heads
<1>28. LateInv' /\ CreateInv'
  BY <1>2, <1>3 DEF ListsInv, LateInv, CreateInv
<1>29. BehindInv(owner)'
  BY <1>2, <1>3, <1>14 DEF ListsInv, BehindInv, NextFront, Full
<1>30. ExtendersInv'
  BY <1>2, <1>3 DEF ListsInv, ExtendersInv, NextFront, Full, Extends
<1>31. PushesInv(owner)'
  <2>1. ASSUME NEW u \in Threads PROVE PushAt(owner, u)'
    <3>1. PushAt(owner, u)
      BY <1>2 DEF ListsInv, PushesInv
    <3>2. push[u].pc \in {"serial_write", "capture", "write", "undo", "spin"} => push[u].c \in Listed'
      <4> SUFFICES ASSUME push[u].pc \in {"serial_write", "capture", "write", "undo", "spin"} PROVE push[u].c \in Listed'
        OBVIOUS
      <4>1. push[u].c \in Listed /\ owner[push[u].c] = NextId(push[u].kind, push[u].cell) /\ push[u].kind \in BagKinds
        BY <3>1 DEF PushAt
      <4>2. push[u].cell \in Cells
        BY <1>2, TargetListed DEF Idle
      <4> QED BY <1>10, <1>14, <1>26, <4>1, <4>2
    <3>3. Target(u)' = Target(u)
      BY <1>3 DEF Target
    <3> QED BY <1>3, <3>1, <3>2, <3>3 DEF PushAt, Full
  <2> QED BY <2>1 DEF PushesInv
<1>32. ListsInv(owner, pos)'
  BY <1>25, <1>27, <1>28, <1>29, <1>30, <1>31 DEF ListsInv
<1>33. AppendInv' /\ SparesInv'
  BY <1>3, <1>4 DEF AppendInv, SparesInv
<1>34. OwnersStay
  BY <1>2, <1>32 DEF OwnersStay
<1> QED BY <1>1, <1>13, <1>14, <1>15, <1>16, <1>20, <1>32, <1>33, <1>34 DEF OwnInv

-----------------------------------------------------------------------------
(* The steps of the main thread between the phases.                         *)

\* What a step of the main thread does when it only manages the freelists.
LEMMA ManagementKeeps ==
  ASSUME PInv, OwnInv, NEW owner, NEW pos, ListsInv(owner, pos),
         phase # "move", phase' \in {"move", "single", "append", "done"},
         UNCHANGED <<build, chunk, particles, particlesNext, push, loop>>,
         allocated' \subseteq Addresses, freeChunks' \in [Threads -> Seq(Addresses)],
         Fronts' = Fronts, Listed' = Listed, FreesInv', AppendInv', SparesInv', Heads(owner, pos)'
  PROVE  OwnInv' /\ OwnersStay
<1>1. MemoryInv /\ LoopInv /\ LateInv /\ ExtendersInv /\ PushesInv(owner)
  BY DEF OwnInv, ListsInv
<1>2. \A t \in Threads : Idle(t) /\ ~Working(t)
  BY NobodyWorks, PushingInMove
<1>3. MemoryInv'
  BY <1>1 DEF MemoryInv
<1>4. HandsInv'
  BY <1>2 DEF HandsInv, Idle
<1>5. LoopInv'
  BY <1>1, <1>2 DEF LoopInv, Working
<1>6. LateInv' /\ ExtendersInv'
  BY <1>1 DEF LateInv, ExtendersInv, NextFront, Full, Extends
<1>7. PushesInv(owner)'
  BY <1>1, <1>2 DEF PushesInv, PushAt, Idle
<1>8. ListsInv(owner, pos)'
  BY <1>6, <1>7, ListsKept
<1>9. OwnersStay
  BY <1>8 DEF OwnersStay
<1> QED BY <1>3, <1>4, <1>5, <1>8, <1>9 DEF OwnInv

\* The first cell of the block of each thread is before all the others.
LEMMA FirstCellsFirst ==
  /\ FirstCells = [t \in Threads |-> FirstCells[t]]
  /\ \A t \in Threads :
       /\ FirstCells[t] \in Nat
       /\ FirstCells[t] \in CellBlock(t) \/ \A j \in CellBlock(t) : j < FirstCells[t]
       /\ \A j \in CellBlock(t) : ~(j < FirstCells[t])
<1>1. NumCells \in Nat
  BY NumCellsNatural
<1>2. FirstCells = [t \in Threads |-> FirstCells[t]]
  BY DEF FirstCells
<1>3. ASSUME NEW t \in Threads
      PROVE  /\ FirstCells[t] \in Nat
             /\ FirstCells[t] \in CellBlock(t) \/ \A j \in CellBlock(t) : j < FirstCells[t]
             /\ \A j \in CellBlock(t) : ~(j < FirstCells[t])
  <2> DEFINE S == CellBlock(t) \cup {NumCells}
  <2>1. CellBlock(t) \subseteq 0 .. NumCells - 1
    BY CellsShared DEF Cells
  <2>2. S \subseteq Nat /\ S # {}
    BY <1>1, <2>1
  <2>3. FirstCells[t] = Min(S)
    BY DEF FirstCells
  <2> HIDE DEF S
  <2>4. Min(S) \in S /\ \A m \in S : Min(S) <= m
    BY <2>2, MinOf
  <2> QED BY <1>1, <2>1, <2>2, <2>3, <2>4 DEF S
<1> QED BY <1>2, <1>3

\* The sums grow by the number of the chunks added to the list of thread 0.
LEMMA SumsWithMore ==
  ASSUME NEW free \in [Threads -> Seq(Addresses)], NEW new \in Seq(Addresses),
         NEW free2, free2 \in [Threads -> Seq(Addresses)], free2[0] = free[0] \o new,
         SameOn(free2, free, Threads \ {0}), NEW k \in 1 .. NbThreads
  PROVE  SumTo(k, free2) = SumTo(k, free) + Len(new)
<1> DEFINE Bad == {m \in 1 .. NbThreads : SumTo(m, free2) # SumTo(m, free) + Len(new)}
<1> SUFFICES ASSUME Bad # {} PROVE FALSE
  OBVIOUS
<1>1. NbThreads \in Nat /\ NbThreads > 0 /\ Threads = 0 .. NbThreads - 1 /\ 0 \in Threads
  BY ChunkAssumption DEF Threads
<1>2. PICK m \in Bad : \A b \in Bad : m <= b
  <2>1. Bad \subseteq Nat
    BY <1>1
  <2> HIDE DEF Bad
  <2> QED BY <2>1, LeastNatural
<1>3. m \in 1 .. NbThreads /\ SumTo(m, free2) # SumTo(m, free) + Len(new)
  BY <1>2
<1>4. m - 1 \in Threads /\ (m - 1) + 1 = m /\ m - 1 \in 0 .. NbThreads /\ ~(m <= m - 1)
  BY <1>1, <1>3
<1>5. /\ SumTo(m, free) = SumTo(m - 1, free) + Len(free[m - 1])
      /\ SumTo(m, free2) = SumTo(m - 1, free2) + Len(free2[m - 1])
  BY <1>4, SumsOfLengths
<1>6. SumTo(0, free) = 0 /\ SumTo(0, free2) = 0
  BY SumsOfLengths
<1>7. free[m - 1] \in Seq(Addresses) /\ free2[m - 1] \in Seq(Addresses)
  BY <1>4
<1>8. CASE m = 1
  <2>1. m - 1 = 0
    BY <1>8
  <2>2. Len(free2[0]) = Len(free[0]) + Len(new) /\ Len(free[0]) \in Nat /\ Len(new) \in Nat
    BY <1>1
  <2>3. SumTo(m - 1, free) = 0 /\ SumTo(m - 1, free2) = 0 /\ free[m - 1] = free[0] /\ free2[m - 1] = free2[0]
    BY <1>6, <2>1
  <2>4. SumTo(m, free2) = Len(free2[0]) /\ SumTo(m, free) = Len(free[0])
    <3>1. Len(free2[0]) \in Nat
      BY <1>1
    <3> QED BY <1>5, <2>2, <2>3, <3>1
  <2> QED BY <1>3, <2>2, <2>4
<1>9. CASE m # 1
  <2>1. m - 1 \in 1 .. NbThreads /\ m - 1 # 0
    BY <1>1, <1>3, <1>9
  <2>2. m - 1 \notin Bad
    <3> HIDE DEF Bad
    <3> QED BY <1>2, <1>4
  <2>3. SumTo(m - 1, free2) = SumTo(m - 1, free) + Len(new)
    BY <2>1, <2>2
  <2>4. free2[m - 1] = free[m - 1]
    BY <1>4, <2>1 DEF SameOn
  <2>5. SumTo(m - 1, free) \in Nat /\ Len(new) \in Nat /\ Len(free[m - 1]) \in Nat
    <3>1. \A i \in 0 .. NbThreads : SumTo(i, free) \in Nat
      BY SumsOfLengths
    <3>2. SumTo(m - 1, free) \in Nat
      BY <1>4, <3>1
    <3> QED BY <1>7, <3>2
  <2> QED BY <1>3, <1>5, <2>3, <2>4, <2>5
<1> QED BY <1>8, <1>9

\* The chunks that compute_cumulative_free_list_sizes allocates.
LEMMA Refilled ==
  ASSUME MemoryInv, FreesInv, phase' # "create", NEW m \in Nat, MemoryFor(m),
         NEW new, new = Refill(m), freeChunks' = [freeChunks EXCEPT ![0] = @ \o new],
         allocated' = allocated \cup Elements(new)
  PROVE  /\ freeChunks' \in [Threads -> Seq(Addresses)] /\ allocated' \subseteq Addresses /\ FreesInv'
         /\ new \in Seq(Addresses) /\ Len(new) = m
         /\ freeChunks'[0] = freeChunks[0] \o new /\ SameOn(freeChunks', freeChunks, Threads \ {0})
         /\ Elements(new) \cap allocated = {} /\ allocated' = allocated \cup Elements(new)
         /\ \A t \in Threads : Elements(freeChunks'[t]) = IF t = 0 THEN Elements(freeChunks[t]) \cup Elements(new)
                                                          ELSE Elements(freeChunks[t])
<1>1. /\ freeChunks \in [Threads -> Seq(Addresses)] /\ allocated \subseteq Addresses
      /\ \A u \in Threads : Elements(freeChunks[u]) \subseteq allocated
      /\ \A u \in Threads : \A i, k \in DOMAIN freeChunks[u] : freeChunks[u][i] = freeChunks[u][k] => i = k
      /\ \A u, v \in Threads : u # v => Elements(freeChunks[u]) \cap Elements(freeChunks[v]) = {}
  BY DEF MemoryInv, FreesInv
<1>2. /\ new \in Seq(Addresses) /\ Len(new) = m /\ DOMAIN new = 1 .. m
      /\ \A i \in 1 .. m : new[i] \in Addresses \ allocated
      /\ \A i, k \in 1 .. m : new[i] = new[k] => i = k
  <2>1. new \in Seq(Addresses) /\ Len(new) = m
    BY <1>1, RefillFresh
  <2>2. DOMAIN new = 1 .. m
    BY <2>1
  <2> QED BY <1>1, <2>1, <2>2, RefillFresh
<1>3. 0 \in Threads
  BY ChunkAssumption DEF Threads
<1> DEFINE s == freeChunks[0]  n == Len(s)  s2 == s \o new
<1>4. s \in Seq(Addresses) /\ n \in Nat /\ DOMAIN s = 1 .. n
  BY <1>1, <1>3
<1>5. /\ s2 \in Seq(Addresses) /\ DOMAIN s2 = 1 .. n + m
      /\ \A i \in 1 .. n : s2[i] = s[i]
      /\ \A i \in 1 .. m : s2[n + i] = new[i]
  <2> HIDE DEF s
  <2>1. s2 \in Seq(Addresses) /\ Len(s2) = n + m
    BY <1>2, <1>4
  <2>2. \A i \in 1 .. n + m : s2[i] = IF i <= n THEN s[i] ELSE new[i - n]
    BY <1>2, <1>4
  <2>3. DOMAIN s2 = 1 .. n + m
    BY <2>1
  <2> HIDE DEF s2, n
  <2> QED BY <1>4, <2>1, <2>2, <2>3
<1>6. /\ freeChunks'[0] = s2 /\ \A u \in Threads : u # 0 => freeChunks'[u] = freeChunks[u]
      /\ freeChunks' = [freeChunks EXCEPT ![0] = s2]
  BY <1>1, <1>3
<1> HIDE DEF s2
<1>7. freeChunks' \in [Threads -> Seq(Addresses)]
  BY <1>1, <1>5, <1>6
<1>8. allocated' = allocated \cup Elements(new)
  OBVIOUS
<1>9. Elements(new) \subseteq Addresses /\ Elements(new) \cap allocated = {}
  BY <1>2 DEF Elements
<1> HIDE DEF s, n
<1>10. Elements(s2) = Elements(s) \cup Elements(new)
  <2>1. \A i \in 1 .. n + m : i \in 1 .. n \/ (i - n \in 1 .. m /\ i = n + (i - n))
    BY <1>4
  <2>2. \A i \in 1 .. m : n + i \in 1 .. n + m
    BY <1>4
  <2>3. \A i \in 1 .. n : i \in 1 .. n + m
    BY <1>4
  <2>4. /\ Elements(s2) = {s2[i] : i \in 1 .. n + m} /\ Elements(s) = {s[i] : i \in 1 .. n}
        /\ Elements(new) = {new[i] : i \in 1 .. m}
    BY <1>2, <1>4, <1>5 DEF Elements
  <2>5. ASSUME NEW x, x \in Elements(s2) PROVE x \in Elements(s) \cup Elements(new)
    <3>1. PICK i \in 1 .. n + m : x = s2[i]
      BY <2>5, <2>4
    <3>2. CASE i \in 1 .. n
      BY <1>5, <2>4, <3>1, <3>2
    <3>3. CASE i \notin 1 .. n
      <4>1. i - n \in 1 .. m /\ n + (i - n) = i
        BY <2>1, <3>3
      <4>2. x = new[i - n]
        BY <1>5, <3>1, <4>1
      <4> QED BY <2>4, <4>1, <4>2
    <3> QED BY <3>2, <3>3
  <2>6. ASSUME NEW x, x \in Elements(s) \cup Elements(new) PROVE x \in Elements(s2)
    <3>1. CASE x \in Elements(s)
      BY <1>5, <2>3, <2>4, <3>1
    <3>2. CASE x \in Elements(new)
      <4>1. PICK i \in 1 .. m : x = new[i]
        BY <2>4, <3>2
      <4>2. n + i \in 1 .. n + m /\ x = s2[n + i]
        BY <1>5, <2>2, <4>1
      <4> QED BY <2>4, <4>2
    <3> QED BY <2>6, <3>1, <3>2
  <2> QED BY <2>5, <2>6
<1>11. \A t \in Threads : Elements(freeChunks'[t]) = IF t = 0 THEN Elements(freeChunks[t]) \cup Elements(new)
                                                     ELSE Elements(freeChunks[t])
  <2> TAKE t \in Threads
  <2>1. CASE t = 0
    BY <1>6, <1>10, <2>1 DEF s
  <2>2. CASE t # 0
    BY <1>6, <2>2
  <2> QED BY <2>1, <2>2
<1>12. FreesInv'
  <2>1. \A u \in Threads : Elements(freeChunks'[u]) \subseteq allocated'
    BY <1>1, <1>8, <1>11
  <2>2. ASSUME NEW u \in Threads, NEW i \in DOMAIN freeChunks'[u], NEW k \in DOMAIN freeChunks'[u],
               freeChunks'[u][i] = freeChunks'[u][k]
        PROVE  i = k
    <3>1. CASE u # 0
      BY <1>1, <1>6, <2>2, <3>1
    <3>2. CASE u = 0
      <4>1. i \in 1 .. n + m /\ k \in 1 .. n + m /\ s2[i] = s2[k]
        BY <1>5, <1>6, <2>2, <3>2
      <4>2. \A a \in 1 .. n : s2[a] \in allocated /\ s2[a] = s[a]
        BY <1>1, <1>3, <1>4, <1>5 DEF Elements, s
      <4>3. \A a \in 1 .. n + m : a \in 1 .. n \/ (a - n \in 1 .. m /\ s2[a] = new[a - n])
        <5> SUFFICES ASSUME NEW a \in 1 .. n + m, a \notin 1 .. n PROVE a - n \in 1 .. m /\ s2[a] = new[a - n]
          OBVIOUS
        <5>1. a - n \in 1 .. m /\ n + (a - n) = a
          BY <1>4
        <5> QED BY <1>5, <5>1
      <4>4. CASE i \in 1 .. n /\ k \in 1 .. n
        BY <1>1, <1>3, <1>4, <4>1, <4>2, <4>4 DEF s
      <4>5. CASE i \notin 1 .. n /\ k \notin 1 .. n
        <5>1. i - n = k - n
          BY <1>2, <4>1, <4>3, <4>5
        <5> QED BY <1>4, <4>1, <5>1
      <4>6. CASE i \in 1 .. n /\ k \notin 1 .. n
        BY <1>2, <4>1, <4>2, <4>3, <4>6
      <4>7. CASE i \notin 1 .. n /\ k \in 1 .. n
        BY <1>2, <4>1, <4>2, <4>3, <4>7
      <4> QED BY <4>4, <4>5, <4>6, <4>7
    <3> QED BY <3>1, <3>2
  <2>3. \A u, v \in Threads : u # v => Elements(freeChunks'[u]) \cap Elements(freeChunks'[v]) = {}
    BY <1>1, <1>9, <1>11
  <2>4. \A u \in Threads : \A i, k \in DOMAIN freeChunks'[u] : freeChunks'[u][i] = freeChunks'[u][k] => i = k
    BY <2>2
  <2> QED BY <2>1, <2>3, <2>4 DEF FreesInv
<1>13. SameOn(freeChunks', freeChunks, Threads \ {0})
  BY <1>6 DEF SameOn
<1>14. freeChunks'[0] = freeChunks[0] \o new
  BY <1>6 DEF s2, s
<1>15. allocated' \subseteq Addresses
  BY <1>1, <1>8, <1>9
<1> QED BY <1>2, <1>7, <1>8, <1>9, <1>11, <1>12, <1>13, <1>14, <1>15

LEMMA SingleKeeps ==
  ASSUME PInv, OwnInv, Single
  PROVE  OwnInv' /\ OwnersStay /\ Listed' = Listed
<1>1. PICK owner, pos : ListsInv(owner, pos)
  BY DEF OwnInv
<1>2. /\ phase = "single" /\ phase' = "append" /\ appendNext' = FirstCells /\ compute_cumulative_free_list_sizes
      /\ UNCHANGED <<build, particles, particlesNext, push, loop>>
  BY DEF Single
<1>3. MemoryInv /\ FreesInv /\ Heads(owner, pos)
  BY <1>1 DEF OwnInv, ListsInv
<1>4. AppendInv'
  BY <1>2, FirstCellsFirst DEF AppendInv, CellBlock
<1>5. \A j \in Cells : ~Appended(j)'
  BY <1>2, FirstCellsFirst DEF Appended, CellBlock
<1>6. Handed' = {}
  <2>1. {i \in Cells : Appended(i)'} = {}
    BY <1>5
  <2> QED BY <2>1 DEF Handed
<1>7. ListedNow /\ ListedNow'
  BY <1>2, <1>6, ListedOutsideAppend, ListedUnhandedNext
<1>8. \A j \in Cells : CurrentFront(j) = NULL /\ CurrentFront(j)' = NULL
  BY <1>2, <1>5 DEF CurrentFront
<1>9. Fronts' = Fronts
  <2>1. \A kind \in BagKinds, j \in Cells : NextFront(kind, j)' = NextFront(kind, j)
    BY <1>2 DEF NextFront
  <2> QED BY <1>8, <2>1, FrontsFrom
<1>10. ASSUME Listed' = Listed PROVE Heads(owner, pos)'
  BY <1>2, <1>3, <1>5, <1>9, <1>10 DEF Heads
<1>11. CASE build = "STDCHUNKALLOC"
  <2>1. UNCHANGED <<chunk, allocated, freeChunks>>
    BY <1>2, <1>11 DEF compute_cumulative_free_list_sizes, memoryVars
  <2>2. Listed' = Listed
    BY <1>2, <1>7, <2>1 DEF ListedNow, OutOfLists
  <2>3. FreesInv'
    BY <1>2, <1>3, <2>1 DEF FreesInv
  <2>4. SparesInv' /\ freeChunks' \in [Threads -> Seq(Addresses)] /\ allocated' \subseteq Addresses
    BY <1>2, <1>3, <1>11, <2>1 DEF SparesInv, MemoryInv
  <2>5. Heads(owner, pos)'
    BY <1>10, <2>2
  <2>6. phase # "move" /\ phase' \in {"move", "single", "append", "done"}
    BY <1>2
  <2> QED BY <1>1, <1>2, <1>4, <1>9, <2>1, <2>2, <2>3, <2>4, <2>5, <2>6, ManagementKeeps
<1>12. CASE build # "STDCHUNKALLOC"
  <2> DEFINE m == Missing  new == Refill(m)
  <2>1. /\ MemoryFor(m) /\ chunk' = chunk
        /\ freeChunks' = [freeChunks EXCEPT ![0] = @ \o new]
        /\ allocated' = allocated \cup {new[i] : i \in DOMAIN new}
        /\ cumulative' = [k \in Threads |-> SumTo(k, [freeChunks EXCEPT ![0] = @ \o new])]
        /\ lastSpare' = Max({k \in Threads : [i \in Threads |-> SumTo(i, [freeChunks EXCEPT ![0] = @ \o new])][k]
                                                <= number_of_spare_chunks})
        /\ spareLocation' = [t \in Threads |-> NoLocation]
    BY <1>2, <1>12 DEF compute_cumulative_free_list_sizes
  <2>2. freeChunks \in [Threads -> Seq(Addresses)] /\ number_of_spare_chunks \in Nat
    BY <1>3, SpareIdsOfBags DEF MemoryInv
  <2>3. SumTo(NbThreads, freeChunks) \in Nat /\ NbThreads \in 1 .. NbThreads
    BY <2>2, SumsOfLengths, ChunkAssumption
  <2>4. /\ m \in Nat
        /\ m = IF SumTo(NbThreads, freeChunks) < number_of_spare_chunks
               THEN number_of_spare_chunks - SumTo(NbThreads, freeChunks) ELSE 0
    BY <2>2, <2>3 DEF Missing
  <2>5. cumulative' = [k \in Threads |-> SumTo(k, freeChunks')]
    BY <2>1
  <2>6. lastSpare' = Max({k \in Threads : cumulative'[k] <= number_of_spare_chunks})
    BY <2>1
  <2> HIDE DEF m
  <2>7. /\ freeChunks' \in [Threads -> Seq(Addresses)] /\ allocated' \subseteq Addresses /\ FreesInv'
        /\ new \in Seq(Addresses) /\ Len(new) = m
        /\ freeChunks'[0] = freeChunks[0] \o new /\ SameOn(freeChunks', freeChunks, Threads \ {0})
        /\ Elements(new) \cap allocated = {} /\ allocated' = allocated \cup Elements(new)
        /\ \A t \in Threads : Elements(freeChunks'[t]) = IF t = 0 THEN Elements(freeChunks[t]) \cup Elements(new)
                                                         ELSE Elements(freeChunks[t])
    <3>1. phase' # "create"
      BY <1>2
    <3>2. new = Refill(m)
      OBVIOUS
    <3>3. freeChunks' = [freeChunks EXCEPT ![0] = @ \o new]
      BY <2>1
    <3>4. allocated' = allocated \cup Elements(new)
      BY <2>1 DEF Elements
    <3>5. MemoryFor(m)
      BY <2>1
    <3> HIDE DEF new
    <3> QED BY <1>3, <2>4, <3>1, <3>2, <3>3, <3>4, <3>5, Refilled
  <2> HIDE DEF new
  <2>8. SumTo(NbThreads, freeChunks') >= number_of_spare_chunks
    <3>1. SumTo(NbThreads, freeChunks') = SumTo(NbThreads, freeChunks) + m
      BY <2>2, <2>3, <2>7, SumsWithMore
    <3> QED BY <2>2, <2>3, <2>4, <3>1
  <2>9. Listed' = Listed
    <3>1. 0 \in Threads
      BY ChunkAssumption DEF Threads
    <3>2. \A a : (\E t \in Threads : a \in Elements(freeChunks'[t]))
                   <=> (\E t \in Threads : a \in Elements(freeChunks[t])) \/ a \in Elements(new)
      BY <2>7, <3>1
    <3>3. \A a : OutOfLists(a)' <=> OutOfLists(a) \/ a \in Elements(new)
      BY <1>2, <3>2 DEF OutOfLists
    <3>4. \A a : a \in Listed' <=> a \in Listed
      BY <1>7, <2>7, <3>3 DEF ListedNow
    <3> QED BY <3>4
  <2>10. SparesInv'
    <3>1. \A t \in Threads : MustLocate(spareLocation[t])'
      BY <2>1 DEF MustLocate, NoLocation
    <3>2. spareLocation' = [t \in Threads |-> spareLocation'[t]]
      BY <2>1
    <3>3. number_of_spare_chunks' = number_of_spare_chunks
      BY DEF number_of_spare_chunks
    <3> QED BY <2>5, <2>6, <2>8, <3>1, <3>2, <3>3 DEF SparesInv
  <2>11. Heads(owner, pos)'
    BY <1>10, <2>9
  <2>12. phase # "move" /\ phase' \in {"move", "single", "append", "done"}
    BY <1>2
  <2> QED BY <1>1, <1>2, <1>4, <1>9, <2>1, <2>7, <2>9, <2>10, <2>11, <2>12, ManagementKeeps
<1> QED BY <1>11, <1>12

\* The loop starts with the tiles of the first colour, and the bags as they are.
LEMMA LoopStartKeepsFronts ==
  ASSUME PInv, OwnInv, phase # "move", NEW time, StartLoop(time),
         \A j \in Cells : CurrentFront(j) = particles[j].front,
         UNCHANGED <<particles, particlesNext, loop, push>>
  PROVE  Fronts' = Fronts
<1>1. \A t \in Threads : ~Working(t) /\ ~Working(t)'
  BY NobodyWorks DEF Working
<1>2. \A j \in Cells : CurrentFront(j)' = CurrentFront(j)
  <2>1. CASE time < num_iteration
    <3>1. i_color' = 0 /\ tiles' = TileBlocks(0) /\ phase' = "move" /\ 0 \in Colors
      BY <2>1 DEF StartLoop, Colors
    <3>2. PInv'
      BY LoopStart
    <3>3. i_color' \in Colors /\ tiles' \in [Threads -> SUBSET TilesOfColor(i_color')]
      BY <3>2 DEF PInv, TilesInv
    <3>4. LoopInv'
      BY <1>1 DEF OwnInv, LoopInv
    <3>5. \A tile \in TilesOfColor(i_color') : (\E t \in Threads : tile \in tiles'[t])
      BY <3>1, TilesDealt
    <3>6. \A j \in Cells : Pending(j)' <=> ColorOfCell[j] >= i_color'
      BY <1>1, <3>3, <3>4, <3>5, PendingAtBarrierNext
    <3>7. \A j \in Cells : Pending(j)'
      BY <3>1, <3>6, TileHasColor DEF Colors
    <3> QED BY <3>1, <3>7 DEF CurrentFront
  <2>2. CASE ~(time < num_iteration)
    <3>1. phase' = "done"
      BY <2>2 DEF StartLoop
    <3> QED BY <3>1 DEF CurrentFront
  <2> QED BY <2>1, <2>2
<1>3. \A kind \in BagKinds, j \in Cells : NextFront(kind, j)' = NextFront(kind, j)
  BY DEF NextFront
<1> QED BY <1>2, <1>3, FrontsFrom

\* What update_free_list_sizes leaves of a freelist: all but the chunks taken.
LEMMA ListsShortened ==
  ASSUME MemoryInv, SparesInv, phase = "append", build # "STDCHUNKALLOC", update_free_list_sizes, NEW t \in Threads
  PROVE  \E m \in 0 .. FREE_INDEX(t) :
           /\ freeChunks'[t] \in Seq(Addresses) /\ DOMAIN freeChunks'[t] = 1 .. m
           /\ \A i \in 1 .. m : freeChunks'[t][i] = freeChunks[t][i]
           /\ \A i \in 1 .. FREE_INDEX(t) : Taken(t, i) <=> i > m
<1> DEFINE s == freeChunks[t]  n == number_of_spare_chunks  last == lastSpare
<1>1. freeChunks \in [Threads -> Seq(Addresses)] /\ s \in Seq(Addresses) /\ FREE_INDEX(t) = Len(s) /\ Len(s) \in Nat
  BY DEF MemoryInv, FREE_INDEX
<1>2. /\ cumulative = [k \in Threads |-> SumTo(k, freeChunks)]
      /\ last = Max({k \in Threads : cumulative[k] <= n})
      /\ SumTo(NbThreads, freeChunks) >= n
  BY DEF SparesInv
<1>3. LastUpTo(last, cumulative, n) /\ n \in Nat
  BY <1>2, SpareIdsOfBags DEF LastUpTo
<1> HIDE DEF n, last, s
<1>4. freeChunks \in [Threads -> Seq(Addresses)]
  BY <1>1
<1>5. cumulative = [k \in Threads |-> SumTo(k, freeChunks)]
  BY <1>2
<1>6. /\ last \in Threads /\ cumulative[last] \in Nat /\ cumulative[last] <= n /\ Len(freeChunks[last]) \in Nat
      /\ \A i \in Threads : i > last => n < cumulative[i]
  BY <1>3, <1>4, <1>5, ListOfNumber
<1>7. n <= cumulative[last] + Len(freeChunks[last])
  <2>1. /\ SumTo(last + 1, freeChunks) = SumTo(last, freeChunks) + Len(freeChunks[last])
        /\ cumulative[last] = SumTo(last, freeChunks)
    BY <1>1, <1>2, <1>6, SumsOfLengths
  <2>2. NbThreads \in Nat /\ Threads = 0 .. NbThreads - 1
    BY ChunkAssumption DEF Threads
  <2>3. CASE last + 1 \in Threads
    <3>1. n < cumulative[last + 1] /\ cumulative[last + 1] = SumTo(last + 1, freeChunks)
      BY <1>2, <1>6, <2>2, <2>3
    <3> QED BY <1>3, <1>6, <2>1, <3>1
  <2>4. CASE last + 1 \notin Threads
    <3>1. last + 1 = NbThreads
      BY <1>6, <2>2, <2>4
    <3> QED BY <1>2, <2>1, <3>1
  <2> QED BY <2>3, <2>4
<1>8. freeChunks'[t] = CASE t < last -> <<>>
                         [] t = last -> SubSeq(s, 1, Len(s) - (n - cumulative[t]))
                         [] t > last -> s
  BY <1>1 DEF update_free_list_sizes, last, n, s
<1>9. \A i \in 1 .. FREE_INDEX(t) : Taken(t, i) <=> (t < last \/ (t = last /\ i > Len(s) - (n - cumulative[t])))
  BY <1>1 DEF Taken, last, n
<1>10. t \in Int /\ last \in Int
  BY <1>6 DEF Threads
<1>11. CASE t < last
  <2>1. freeChunks'[t] = <<>>
    <3>1. ~(t = last) /\ ~(t > last)
      BY <1>10, <1>11
    <3> QED BY <1>8, <1>11, <3>1, Zenon
  <2>2. freeChunks'[t] \in Seq(Addresses) /\ DOMAIN freeChunks'[t] = 1 .. 0
    BY <2>1
  <2>3. \A i \in 1 .. FREE_INDEX(t) : Taken(t, i) <=> i > 0
    BY <1>1, <1>9, <1>11
  <2> QED BY <1>1, <2>2, <2>3
<1>12. CASE t = last
  <2> DEFINE m == Len(s) - (n - cumulative[t])
  <2>1. m \in 0 .. Len(s) /\ m \in Nat
    <3>1. Len(freeChunks[last]) = Len(s) /\ cumulative[last] = cumulative[t]
      BY <1>12 DEF s
    <3> QED BY <1>1, <1>3, <1>6, <1>7, <3>1
  <2>2. freeChunks'[t] = SubSeq(s, 1, m)
    <3>1. ~(t < last) /\ ~(t > last)
      BY <1>10, <1>12
    <3> QED BY <1>8, <1>12, <3>1, Zenon
  <2>3. \A i \in 1 .. FREE_INDEX(t) : Taken(t, i) <=> i > m
    BY <1>9, <1>10, <1>12
  <2> HIDE DEF m, s
  <2>4. SubSeq(s, 1, m) \in Seq(Addresses) /\ DOMAIN SubSeq(s, 1, m) = 1 .. m /\ \A i \in 1 .. m : SubSeq(s, 1, m)[i] = s[i]
    BY <1>1, <2>1
  <2> QED BY <1>1, <2>1, <2>2, <2>3, <2>4 DEF s
<1>13. CASE t > last
  <2>1. freeChunks'[t] = s
    <3>1. ~(t < last) /\ ~(t = last)
      BY <1>10, <1>13
    <3> QED BY <1>8, <1>13, <3>1, Zenon
  <2>2. s \in Seq(Addresses) /\ DOMAIN s = 1 .. Len(s) /\ Len(s) \in 0 .. FREE_INDEX(t)
    BY <1>1
  <2>3. \A i \in 1 .. FREE_INDEX(t) : Taken(t, i) <=> i > Len(s)
    BY <1>1, <1>9, <1>10, <1>13
  <2> QED BY <1>1, <2>1, <2>2, <2>3 DEF s
<1> QED BY <1>10, <1>11, <1>12, <1>13

LEMMA SparesLeaveTheLists ==
  ASSUME MemoryInv, FreesInv, SparesInv, phase = "append", phase' # "create", build # "STDCHUNKALLOC",
         update_free_list_sizes, allocated' = allocated
  PROVE  /\ freeChunks' \in [Threads -> Seq(Addresses)] /\ FreesInv'
         /\ \A t \in Threads : \A a : a \in Elements(freeChunks'[t])
              <=> a \in Elements(freeChunks[t]) /\ ~\E id \in SpareIds : a = Spare(id)
<1>1. freeChunks \in [Threads -> Seq(Addresses)]
  BY DEF MemoryInv
<1>2. \A t \in Threads : freeChunks[t] \in Seq(Addresses) /\ DOMAIN freeChunks[t] = 1 .. FREE_INDEX(t) /\ FREE_INDEX(t) \in Nat
  <2> TAKE t \in Threads
  <2>1. freeChunks[t] \in Seq(Addresses)
    BY <1>1
  <2> QED BY <2>1 DEF FREE_INDEX
<1>3. \A t \in Threads : freeChunks'[t] \in Seq(Addresses)
  BY ListsShortened
<1>4. freeChunks' = [t \in Threads |-> freeChunks'[t]]
  BY DEF update_free_list_sizes
<1>5. \A t \in Threads : /\ \A i \in DOMAIN freeChunks'[t] : i \in DOMAIN freeChunks[t] /\ freeChunks'[t][i] = freeChunks[t][i]
                                                             /\ i \in 1 .. FREE_INDEX(t) /\ ~Taken(t, i)
                         /\ \A i \in 1 .. FREE_INDEX(t) : ~Taken(t, i) => i \in DOMAIN freeChunks'[t]
  <2> SUFFICES ASSUME NEW t \in Threads
               PROVE  /\ \A i \in DOMAIN freeChunks'[t] : i \in DOMAIN freeChunks[t] /\ freeChunks'[t][i] = freeChunks[t][i]
                                                             /\ i \in 1 .. FREE_INDEX(t) /\ ~Taken(t, i)
                      /\ \A i \in 1 .. FREE_INDEX(t) : ~Taken(t, i) => i \in DOMAIN freeChunks'[t]
    OBVIOUS
  <2>1. PICK m \in 0 .. FREE_INDEX(t) :
           /\ DOMAIN freeChunks'[t] = 1 .. m
           /\ \A i \in 1 .. m : freeChunks'[t][i] = freeChunks[t][i]
           /\ \A i \in 1 .. FREE_INDEX(t) : Taken(t, i) <=> i > m
    BY ListsShortened
  <2>2. \A i \in 1 .. m : i \in 1 .. FREE_INDEX(t) /\ ~(i > m)
    BY <1>2
  <2>3. \A i \in 1 .. FREE_INDEX(t) : ~(i > m) => i \in 1 .. m
    BY <1>2
  <2> QED BY <1>2, <2>1, <2>2, <2>3
<1>6. ASSUME NEW t \in Threads, NEW a
      PROVE  a \in Elements(freeChunks'[t]) <=> a \in Elements(freeChunks[t]) /\ ~\E id \in SpareIds : a = Spare(id)
  <2>1. ASSUME a \in Elements(freeChunks'[t])
        PROVE  a \in Elements(freeChunks[t]) /\ ~\E id \in SpareIds : a = Spare(id)
    <3>1. PICK i \in DOMAIN freeChunks'[t] : a = freeChunks'[t][i]
      BY <2>1 DEF Elements
    <3>2. i \in DOMAIN freeChunks[t] /\ a = freeChunks[t][i] /\ i \in 1 .. FREE_INDEX(t) /\ ~Taken(t, i)
      BY <1>5, <3>1
    <3>3. ~\E id \in SpareIds : freeChunks[t][i] = Spare(id)
      BY <3>2, SparesTaken
    <3> QED BY <3>2, <3>3 DEF Elements
  <2>2. ASSUME a \in Elements(freeChunks[t]), ~\E id \in SpareIds : a = Spare(id)
        PROVE  a \in Elements(freeChunks'[t])
    <3>1. PICK i \in DOMAIN freeChunks[t] : a = freeChunks[t][i]
      BY <2>2 DEF Elements
    <3>2. i \in 1 .. FREE_INDEX(t)
      BY <1>2, <3>1
    <3>3. ~Taken(t, i)
      BY <2>2, <3>1, <3>2, SparesTaken
    <3>4. i \in DOMAIN freeChunks'[t] /\ freeChunks'[t][i] = a
      BY <1>5, <3>1, <3>2, <3>3
    <3> QED BY <3>4 DEF Elements
  <2> QED BY <2>1, <2>2
<1>7. FreesInv'
  <2>1. \A t \in Threads : Elements(freeChunks'[t]) \subseteq Elements(freeChunks[t])
    BY <1>6
  <2>2. \A t \in Threads : \A i, k \in DOMAIN freeChunks'[t] : freeChunks'[t][i] = freeChunks'[t][k] => i = k
    BY <1>5 DEF FreesInv
  <2>3. \A t \in Threads : Elements(freeChunks[t]) \subseteq allocated
    BY DEF FreesInv
  <2>4. \A t, u \in Threads : t # u => Elements(freeChunks[t]) \cap Elements(freeChunks[u]) = {}
    BY DEF FreesInv
  <2>5. \A t \in Threads : Elements(freeChunks'[t]) \subseteq allocated'
    BY <2>1, <2>3
  <2>6. \A t, u \in Threads : t # u => Elements(freeChunks'[t]) \cap Elements(freeChunks'[u]) = {}
    BY <2>1, <2>4
  <2> QED BY <2>2, <2>5, <2>6 DEF FreesInv
<1>8. freeChunks' \in [Threads -> Seq(Addresses)]
  BY <1>3, <1>4
<1> QED BY <1>6, <1>7, <1>8

LEMMA EndStepKeeps ==
  ASSUME PInv, OwnInv, EndStep
  PROVE  OwnInv' /\ OwnersStay /\ Listed' = Listed
<1>1. PICK owner, pos : ListsInv(owner, pos)
  BY DEF OwnInv
<1>2. /\ phase = "append" /\ update_free_list_sizes /\ StartLoop(i_time + 1)
      /\ \A t \in Threads : appendNext[t] \notin CellBlock(t)
      /\ UNCHANGED <<build, chunk, allocated, particles, particlesNext, push, loop, appendNext>>
  BY DEF EndStep
<1>3. MemoryInv /\ FreesInv /\ AppendInv /\ SparesInv /\ Heads(owner, pos)
  BY <1>1 DEF OwnInv, ListsInv
<1>4. phase' \in {"move", "done"}
  BY <1>2 DEF StartLoop
<1>5. \A j \in Cells : Appended(j)
  BY <1>2, <1>3, CellsShared DEF AppendInv, Appended
<1>6. Fronts' = Fronts
  <2>1. \A j \in Cells : CurrentFront(j) = particles[j].front
    BY <1>2, <1>5 DEF CurrentFront
  <2>2. phase # "move"
    BY <1>2
  <2> QED BY <1>2, <2>1, <2>2, LoopStartKeepsFronts
<1>7. AppendInv' /\ SparesInv'
  <2>1. phase' # "append"
    BY <1>4
  <2>2. AppendInv'
    BY <1>2, <1>3 DEF AppendInv, CellBlock
  <2> QED BY <2>1, <2>2 DEF SparesInv
<1>8. \A t \in Threads : Idle(t)
  BY <1>2, PushingInMove
<1>9. ListedNow'
  BY <1>4, ListedOutsideAppendNext
<1>10. ASSUME Listed' = Listed PROVE Heads(owner, pos)'
  BY <1>2, <1>3, <1>5, <1>6, <1>10 DEF Heads
<1>11. freeChunks' \in [Threads -> Seq(Addresses)] /\ FreesInv' /\ Listed' = Listed
  <2>1. CASE build = "STDCHUNKALLOC"
    <3>1. freeChunks' = freeChunks
      BY <1>2, <2>1 DEF update_free_list_sizes
    <3>2. ListedNow
      BY <2>1, ListedUnhanded DEF Handed
    <3>3. Listed' = Listed
      BY <1>2, <1>9, <3>1, <3>2 DEF ListedNow, OutOfLists
    <3>4. FreesInv'
      BY <1>2, <1>3, <1>4, <3>1 DEF FreesInv
    <3> QED BY <1>3, <3>1, <3>3, <3>4 DEF MemoryInv
  <2>2. CASE build # "STDCHUNKALLOC"
    <3>1. phase' # "create"
      BY <1>4
    <3>2. /\ freeChunks' \in [Threads -> Seq(Addresses)] /\ FreesInv'
          /\ \A t \in Threads : \A a : a \in Elements(freeChunks'[t])
               <=> a \in Elements(freeChunks[t]) /\ ~\E id \in SpareIds : a = Spare(id)
      BY <1>2, <1>3, <2>2, <3>1, SparesLeaveTheLists
    <3>3. \A a : a \in Handed <=> \E id \in SpareIds : a = Spare(id)
      <4>1. \A a : a \in Handed <=> \E kind \in BagKinds, j \in Cells : a = Spare(SpareChunkId(kind, j))
        BY <1>2, <1>5, <2>2 DEF Handed
      <4>2. \A a : (\E kind \in BagKinds, j \in Cells : a = Spare(SpareChunkId(kind, j))) <=> \E id \in SpareIds : a = Spare(id)
        BY SpareIdsOfBags
      <4> QED BY <4>1, <4>2
    <3>4. \A a : a \in Loose <=> \E t \in Threads : a \in Elements(freeChunks[t]) /\ a \notin Handed
      <4>1. \A t \in Threads : InHand(t) = {}
        BY <1>8 DEF InHand, Idle
      <4> QED BY <4>1 DEF Loose
    <3>5. \A a : OutOfLists(a)' <=> a \in Loose
      <4>1. \A a : OutOfLists(a)' <=> \E t \in Threads : a \in Elements(freeChunks'[t])
        BY <1>2, <1>8 DEF OutOfLists, Idle
      <4> QED BY <3>2, <3>3, <3>4, <4>1
    <3>6. \A a : a \in Listed' <=> a \in Listed
      BY <1>2, <1>9, <3>5 DEF ListedNow, Listed
    <3> QED BY <3>2, <3>6
  <2> QED BY <2>1, <2>2
<1>12. Heads(owner, pos)'
  BY <1>10, <1>11
<1>13. phase # "move" /\ phase' \in {"move", "single", "append", "done"}
  BY <1>2, <1>4
<1>14. allocated' \subseteq Addresses
  BY <1>2, <1>3 DEF MemoryInv
<1> QED BY <1>1, <1>2, <1>6, <1>7, <1>11, <1>12, <1>13, <1>14, ManagementKeeps

LEMMA QuotientBound ==
  ASSUME NEW x \in Nat, NEW d \in Nat, d > 0, NEW i \in Nat
  PROVE  i <= x \div d <=> d * i <= x
<1> DEFINE q == x \div d  r == x % d
<1>1. x = d * q + r /\ q \in Nat /\ r \in 0 .. d - 1
  BY Division
<1> HIDE DEF q, r
<1>2. d * q \in Int /\ d * i \in Int
  BY <1>1
<1>3. CASE i = q
  BY <1>1, <1>2, <1>3 DEF q
<1>4. CASE i < q
  <2>1. d * i + d <= d * q
    BY <1>1, <1>4, Monotone
  <2> QED BY <1>1, <1>2, <1>4, <2>1 DEF q
<1>5. CASE i > q
  <2>1. d * q + d <= d * i
    BY <1>1, <1>5, Monotone
  <2> QED BY <1>1, <1>2, <1>5, <2>1 DEF q
<1> QED BY <1>1, <1>3, <1>4, <1>5

\* init_freelists deals the numbers of the chunks out: each goes to one place of one list.
PlaceDealt(t, i) == (i - 1) * NbThreads + t + 1
NumberDealt(n, t) == (n - t + NbThreads - 1) \div NbThreads
LEMMA ChunksDealt ==
  ASSUME NEW n \in Nat
  PROVE  /\ \A t \in Threads : NumberDealt(n, t) \in Nat
         /\ \A t \in Threads : \A i \in 1 .. NumberDealt(n, t) : PlaceDealt(t, i) \in 1 .. n
         /\ \A t, u \in Threads : \A i \in 1 .. NumberDealt(n, t), k \in 1 .. NumberDealt(n, u) :
              PlaceDealt(t, i) = PlaceDealt(u, k) => t = u /\ i = k
         /\ \A m \in 1 .. n : \E t \in Threads : \E i \in 1 .. NumberDealt(n, t) : PlaceDealt(t, i) = m
<1> DEFINE T == NbThreads
<1>1. T \in Nat /\ T > 0 /\ Threads = 0 .. T - 1
  BY ChunkAssumption DEF Threads
<1>2. \A i, t \in Int : PlaceDealt(t, i) = (i - 1) * T + t + 1
  BY DEF PlaceDealt
<1>3. \A t : NumberDealt(n, t) = (n - t + T - 1) \div T
  BY DEF NumberDealt
<1> HIDE DEF T
<1>4. ASSUME NEW t \in Threads
      PROVE  /\ NumberDealt(n, t) \in Nat
             /\ \A i \in Nat : i > 0 => (i <= NumberDealt(n, t) <=> PlaceDealt(t, i) <= n)
             /\ \A i \in Nat : i > 0 => /\ PlaceDealt(t, i) \in Nat /\ PlaceDealt(t, i) > 0
                                        /\ (PlaceDealt(t, i) - 1) \div T = i - 1 /\ (PlaceDealt(t, i) - 1) % T = t
  <2> DEFINE x == n - t + T - 1
  <2>1. x \in Nat /\ t \in Nat /\ t \in 0 .. T - 1
    BY <1>1
  <2>2. NumberDealt(n, t) = x \div T
    BY <1>3
  <2> HIDE DEF x
  <2>3. NumberDealt(n, t) \in Nat
    BY <1>1, <2>1, <2>2, Division
  <2>4. ASSUME NEW i \in Nat, i > 0
        PROVE  /\ i <= NumberDealt(n, t) <=> PlaceDealt(t, i) <= n
               /\ PlaceDealt(t, i) \in Nat /\ PlaceDealt(t, i) > 0
               /\ (PlaceDealt(t, i) - 1) \div T = i - 1 /\ (PlaceDealt(t, i) - 1) % T = t
    <3> DEFINE b == T * (i - 1)
    <3>1. PlaceDealt(t, i) = b + t + 1 /\ b = T * (i - 1) /\ T * i = b + T /\ b \in Nat
      <4>1. (i - 1) * T = T * (i - 1) /\ T * i = T * (i - 1) + T
        BY <1>1
      <4>2. i - 1 \in Nat /\ t \in Int
        BY <2>1, <2>4
      <4>3. T * (i - 1) \in Nat
        BY <1>1, <4>2
      <4> QED BY <1>2, <4>1, <4>2, <4>3
    <3> HIDE DEF b
    <3>2. i <= NumberDealt(n, t) <=> T * i <= x
      BY <1>1, <2>1, <2>2, <2>4, QuotientBound
    <3>3. T * i <= x <=> PlaceDealt(t, i) <= n
      BY <1>1, <2>1, <3>1 DEF x
    <3>4. PlaceDealt(t, i) - 1 = b + t /\ PlaceDealt(t, i) \in Nat /\ PlaceDealt(t, i) > 0
      BY <2>1, <3>1
    <3>5. Divides(b + t, T, i - 1, t)
      BY <1>1, <2>1, <2>4, <3>1 DEF Divides
    <3>6. (b + t) \div T = i - 1 /\ (b + t) % T = t
      BY <3>5, Quotient
    <3> QED BY <3>2, <3>3, <3>4, <3>6
  <2> QED BY <2>3, <2>4
<1>5. \A t \in Threads : \A i \in 1 .. NumberDealt(n, t) : i \in Nat /\ i > 0 /\ i <= NumberDealt(n, t)
  BY <1>4
<1>6. \A t \in Threads : \A i \in 1 .. NumberDealt(n, t) : PlaceDealt(t, i) \in 1 .. n
  <2> TAKE t \in Threads
  <2> TAKE i \in 1 .. NumberDealt(n, t)
  <2>1. PlaceDealt(t, i) \in Nat /\ PlaceDealt(t, i) > 0 /\ PlaceDealt(t, i) <= n
    BY <1>4, <1>5
  <2> QED BY <2>1
<1>7. ASSUME NEW t \in Threads, NEW u \in Threads, NEW i \in 1 .. NumberDealt(n, t), NEW k \in 1 .. NumberDealt(n, u),
             PlaceDealt(t, i) = PlaceDealt(u, k)
      PROVE  t = u /\ i = k
  <2>1. i \in Nat /\ i > 0 /\ k \in Nat /\ k > 0
    BY <1>5
  <2>2. (PlaceDealt(t, i) - 1) \div T = i - 1 /\ (PlaceDealt(t, i) - 1) % T = t
    BY <1>4, <2>1
  <2>3. (PlaceDealt(t, i) - 1) \div T = k - 1 /\ (PlaceDealt(t, i) - 1) % T = u
    BY <1>4, <1>7, <2>1
  <2> QED BY <2>1, <2>2, <2>3
<1>8. ASSUME NEW m \in 1 .. n PROVE \E t \in Threads : \E i \in 1 .. NumberDealt(n, t) : PlaceDealt(t, i) = m
  <2> DEFINE t == (m - 1) % T  q == (m - 1) \div T
  <2>1. m - 1 \in Nat
    OBVIOUS
  <2>2. m - 1 = T * q + t /\ q \in Nat /\ t \in 0 .. T - 1
    BY <1>1, <2>1, Division
  <2> HIDE DEF t, q
  <2>3. t \in Threads /\ q + 1 \in Nat /\ q + 1 > 0 /\ (q + 1) - 1 = q /\ t \in Int /\ q + 1 \in Int
    BY <1>1, <2>2
  <2>4. PlaceDealt(t, q + 1) = m
    <3>1. PlaceDealt(t, q + 1) = q * T + t + 1
      BY <1>2, <2>3
    <3>2. q * T = T * q /\ T * q \in Int
      BY <1>1, <2>2
    <3> QED BY <2>2, <2>3, <3>1, <3>2
  <2>5. q + 1 <= NumberDealt(n, t)
    BY <1>4, <2>3, <2>4
  <2>6. q + 1 \in 1 .. NumberDealt(n, t)
    BY <1>4, <2>3, <2>5
  <2> QED BY <2>3, <2>4, <2>6
<1>9. \A t \in Threads : NumberDealt(n, t) \in Nat
  BY <1>4
<1> QED BY <1>6, <1>7, <1>8, <1>9

LEMMA FreelistsDealt ==
  ASSUME MemoryInv, FreesInv, phase = "create", phase' # "create", allocated' = allocated, init_freelists
  PROVE  /\ freeChunks' \in [Threads -> Seq(Addresses)] /\ FreesInv'
         /\ \A a : (\E t \in Threads : a \in Elements(freeChunks'[t])) <=> (\E t \in Threads : a \in Elements(freeChunks[t]))
<1> DEFINE s == freeChunks[0]  n == Len(s)
<1>1. /\ freeChunks \in [Threads -> Seq(Addresses)] /\ 0 \in Threads /\ Elements(s) \subseteq allocated
      /\ \A t \in Threads : t # 0 => freeChunks[t] = <<>>
      /\ \A i, k \in DOMAIN s : s[i] = s[k] => i = k
  BY ChunkAssumption DEF MemoryInv, FreesInv, Threads
<1>2. s \in Seq(Addresses) /\ n \in Nat /\ DOMAIN s = 1 .. n /\ n = Len(s)
  BY <1>1
<1>3. freeChunks' = [t \in Threads |-> [i \in 1 .. NumberDealt(n, t) |-> s[PlaceDealt(t, i)]]]
  BY DEF init_freelists, NumberDealt, PlaceDealt, FREE_INDEX
<1> HIDE DEF s, n
<1>4. \A t \in Threads : freeChunks'[t] = [i \in 1 .. NumberDealt(n, t) |-> s[PlaceDealt(t, i)]]
  BY <1>3
<1>5. ASSUME NEW t \in Threads
      PROVE  /\ DOMAIN freeChunks'[t] = 1 .. NumberDealt(n, t) /\ freeChunks'[t] \in Seq(Addresses)
             /\ \A i \in 1 .. NumberDealt(n, t) : /\ freeChunks'[t][i] = s[PlaceDealt(t, i)]
                                                  /\ PlaceDealt(t, i) \in DOMAIN s
  <2>1. NumberDealt(n, t) \in Nat
    BY <1>2, ChunksDealt
  <2>2. \A i \in 1 .. NumberDealt(n, t) : PlaceDealt(t, i) \in DOMAIN s
    BY <1>2, ChunksDealt
  <2>3. \A i \in 1 .. NumberDealt(n, t) : s[PlaceDealt(t, i)] \in Addresses
    BY <1>2, <2>2
  <2> DEFINE g == [i \in 1 .. NumberDealt(n, t) |-> s[PlaceDealt(t, i)]]
  <2>4. freeChunks'[t] = g
    BY <1>4
  <2>5. g \in [1 .. NumberDealt(n, t) -> Addresses]
    BY <2>3
  <2>6. g \in Seq(Addresses)
    <3> HIDE DEF g
    <3> QED BY <2>1, <2>5
  <2> QED BY <2>2, <2>4, <2>6
<1>6. freeChunks' \in [Threads -> Seq(Addresses)]
  BY <1>3, <1>5
<1>7. ASSUME NEW t \in Threads, NEW a, a \in Elements(freeChunks'[t]) PROVE a \in Elements(s)
  <2>1. PICK i \in DOMAIN freeChunks'[t] : a = freeChunks'[t][i]
    BY <1>7 DEF Elements
  <2>2. PlaceDealt(t, i) \in DOMAIN s /\ a = s[PlaceDealt(t, i)]
    BY <1>5, <2>1
  <2> QED BY <2>2 DEF Elements
<1>8. ASSUME NEW a, a \in Elements(s) PROVE \E t \in Threads : a \in Elements(freeChunks'[t])
  <2>1. PICK m \in 1 .. n : a = s[m]
    BY <1>2, <1>8 DEF Elements
  <2>2. PICK t \in Threads : \E i \in 1 .. NumberDealt(n, t) : PlaceDealt(t, i) = m
    BY <1>2, ChunksDealt
  <2>3. PICK i \in 1 .. NumberDealt(n, t) : PlaceDealt(t, i) = m
    BY <2>2
  <2>4. i \in DOMAIN freeChunks'[t] /\ freeChunks'[t][i] = a
    BY <1>5, <2>1, <2>3
  <2> QED BY <2>4 DEF Elements
<1>9. FreesInv'
  <2>1. \A t \in Threads : Elements(freeChunks'[t]) \subseteq allocated'
    BY <1>1, <1>7 DEF s
  <2>2. ASSUME NEW t \in Threads, NEW u \in Threads, NEW i \in DOMAIN freeChunks'[t], NEW k \in DOMAIN freeChunks'[u],
               freeChunks'[t][i] = freeChunks'[u][k]
        PROVE  t = u /\ i = k
    <3>1. i \in 1 .. NumberDealt(n, t) /\ k \in 1 .. NumberDealt(n, u)
      BY <1>5
    <3>2. s[PlaceDealt(t, i)] = s[PlaceDealt(u, k)] /\ PlaceDealt(t, i) \in DOMAIN s /\ PlaceDealt(u, k) \in DOMAIN s
      BY <1>5, <2>2, <3>1
    <3>3. PlaceDealt(t, i) = PlaceDealt(u, k)
      BY <1>1, <3>2 DEF s
    <3> QED BY <1>2, <3>1, <3>3, ChunksDealt
  <2>3. \A t \in Threads : \A i, k \in DOMAIN freeChunks'[t] : freeChunks'[t][i] = freeChunks'[t][k] => i = k
    BY <2>2
  <2>4. \A t, u \in Threads : t # u => Elements(freeChunks'[t]) \cap Elements(freeChunks'[u]) = {}
    BY <2>2 DEF Elements
  <2> QED BY <2>1, <2>3, <2>4 DEF FreesInv
<1>10. \A a : (\E t \in Threads : a \in Elements(freeChunks[t])) <=> a \in Elements(s)
  <2>1. \A t \in Threads : t # 0 => Elements(freeChunks[t]) = {}
    <3>1. Elements(<<>>) = {}
      BY DEF Elements
    <3> QED BY <1>1, <3>1
  <2> QED BY <1>1, <2>1 DEF s
<1> QED BY <1>6, <1>7, <1>8, <1>9, <1>10

LEMMA StartSimulationKeeps ==
  ASSUME PInv, OwnInv, StartSimulation
  PROVE  OwnInv' /\ OwnersStay /\ Listed' = Listed
<1>1. PICK owner, pos : ListsInv(owner, pos)
  BY DEF OwnInv
<1>2. /\ phase = "create" /\ StartLoop(0) /\ (IF build = "STDCHUNKALLOC" THEN UNCHANGED freeChunks ELSE init_freelists)
      /\ UNCHANGED <<build, chunk, allocated, particles, particlesNext, push, loop, appendNext>>
  BY DEF StartSimulation
<1>3. MemoryInv /\ FreesInv /\ AppendInv /\ SparesInv /\ Heads(owner, pos)
  BY <1>1 DEF OwnInv, ListsInv
<1>4. phase' \in {"move", "done"}
  BY <1>2 DEF StartLoop
<1>5. Fronts' = Fronts
  <2>1. \A j \in Cells : CurrentFront(j) = particles[j].front
    BY <1>2 DEF CurrentFront
  <2>2. phase # "move"
    BY <1>2
  <2> QED BY <1>2, <2>1, <2>2, LoopStartKeepsFronts
<1>6. AppendInv' /\ SparesInv'
  <2>1. phase' # "append"
    BY <1>4
  <2>2. AppendInv'
    BY <1>2, <1>3 DEF AppendInv, CellBlock
  <2> QED BY <2>1, <2>2 DEF SparesInv
<1>7. phase' # "create" /\ phase # "move" /\ phase' \in {"move", "single", "append", "done"}
  BY <1>2, <1>4
<1>8. /\ freeChunks' \in [Threads -> Seq(Addresses)] /\ FreesInv'
      /\ \A a : (\E t \in Threads : a \in Elements(freeChunks'[t])) <=> (\E t \in Threads : a \in Elements(freeChunks[t]))
  <2>1. CASE build = "STDCHUNKALLOC"
    <3>1. freeChunks' = freeChunks
      BY <1>2, <2>1
    <3>2. FreesInv'
      BY <1>2, <1>3, <1>7, <3>1 DEF FreesInv
    <3> QED BY <1>3, <3>1, <3>2 DEF MemoryInv
  <2>2. CASE build # "STDCHUNKALLOC"
    <3>1. init_freelists
      BY <1>2, <2>2
    <3> QED BY <1>2, <1>3, <1>7, <3>1, FreelistsDealt
  <2> QED BY <2>1, <2>2
<1>9. Listed' = Listed
  <2>1. ListedNow /\ ListedNow'
    BY <1>2, <1>4, ListedOutsideAppend, ListedOutsideAppendNext
  <2>2. \A a : OutOfLists(a)' <=> OutOfLists(a)
    BY <1>2, <1>8 DEF OutOfLists
  <2> QED BY <1>2, <2>1, <2>2 DEF ListedNow
<1>10. Heads(owner, pos)'
  BY <1>2, <1>3, <1>5, <1>9 DEF Heads
<1>11. allocated' \subseteq Addresses
  BY <1>2, <1>3 DEF MemoryInv
<1> QED BY <1>1, <1>2, <1>5, <1>6, <1>7, <1>8, <1>9, <1>10, <1>11, ManagementKeeps

-----------------------------------------------------------------------------
(* The creation of the particles.                                           *)

\* A step that changes the bag of cell j only, at its front.
LEMMA CreationKeeps ==
  ASSUME PInv, OwnInv, phase = "create", NEW owner, NEW pos, ListsInv(owner, pos), NEW j \in Cells,
         UNCHANGED <<build, particlesNext, push, phase, loop, tiles, i_color, appendNext, spareVars>>,
         NEW owner2, NEW pos2, Chained(owner2, pos2, Links', Listed', Fronts'),
         \A a \in Listed : a \in Listed' /\ owner2[a] = owner[a] /\ pos2[a] = pos[a],
         \A a \in Listed' \ Listed : owner2[a] = CurrentId(j),
         \A a \in Addresses : ~(chunk'[a].size > CHUNK_SIZE),
         \A a \in Listed : owner[a] # CurrentId(j) => chunk'[a] = chunk[a],
         \A i \in Cells : particles'[i].front # NULL,
         CreateInv', MemoryInv', FreesInv'
  PROVE  OwnInv' /\ OwnersStay
<1>1. LoopInv /\ AppendInv /\ Heads(owner, pos) /\ BehindInv(owner) /\ ExtendersInv /\ PushesInv(owner)
  BY DEF OwnInv, ListsInv
<1>2. \A t \in Threads : Idle(t)
  BY PushingInMove
<1>3. \A kind \in BagKinds, i \in Cells :
        /\ NextFront(kind, i)' = NextFront(kind, i) /\ NextFront(kind, i) \in Listed
        /\ owner[NextFront(kind, i)] # CurrentId(j) /\ Fronts'[NextId(kind, i)] = Fronts[NextId(kind, i)]
  <2> TAKE kind \in BagKinds, i \in Cells
  <2>1. NextFront(kind, i)' = NextFront(kind, i)
    BY DEF NextFront
  <2>2. NextFront(kind, i) \in Listed /\ owner[NextFront(kind, i)] = NextId(kind, i)
    BY FrontListed
  <2>3. Fronts'[NextId(kind, i)] = Fronts[NextId(kind, i)]
    BY <2>1, FrontOf, FrontOfNext
  <2> QED BY <2>1, <2>2, <2>3, Ids
<1>4. HandsInv' /\ LoopInv' /\ AppendInv' /\ SparesInv'
  <2>1. HandsInv'
    BY <1>2 DEF HandsInv, Idle
  <2>2. LoopInv'
    BY <1>1 DEF LoopInv, Working
  <2>3. AppendInv'
    BY <1>1 DEF AppendInv, CellBlock
  <2> QED BY <2>1, <2>2, <2>3 DEF SparesInv
<1>5. Heads(owner2, pos2)'
  <2>1. \A i \in Cells : Fronts'[CurrentId(i)] # NULL
    <3>1. \A i \in Cells : Fronts'[CurrentId(i)] = CurrentFront(i)'
      BY FrontOfNext
    <3>2. \A i \in Cells : CurrentFront(i)' = particles'[i].front
      BY DEF CurrentFront
    <3> QED BY <3>1, <3>2
  <2>2. \A kind \in BagKinds, i \in Cells :
          /\ Fronts'[NextId(kind, i)] # NULL
          /\ particlesNext'[kind][i].back \in Listed'
          /\ owner2[particlesNext'[kind][i].back] = NextId(kind, i)
          /\ pos2[particlesNext'[kind][i].back] = 0
    BY <1>1, <1>3 DEF Heads
  <2> QED BY <2>1, <2>2 DEF Heads
<1>6. LateInv'
  BY DEF LateInv
<1>7. BehindInv(owner2)'
  <2> SUFFICES ASSUME NEW a \in Listed', NEW kind \in BagKinds, NEW i \in Cells,
                      owner2[a] = NextId(kind, i), a # NextFront(kind, i)'
               PROVE  chunk'[a].size >= CHUNK_SIZE
    BY DEF BehindInv, Full
  <2>1. a \in Listed /\ owner[a] = NextId(kind, i) /\ owner[a] # CurrentId(j)
    BY Ids
  <2> QED BY <1>1, <1>3, <2>1 DEF BehindInv, Full
<1>8. ExtendersInv'
  <2>1. \A kind \in BagKinds, i \in Cells : Full(NextFront(kind, i))' <=> Full(NextFront(kind, i))
    BY <1>3 DEF Full
  <2>2. \A t \in Threads : Extends(t)' <=> Extends(t)
    BY DEF Extends
  <2> QED BY <1>1, <2>1, <2>2 DEF ExtendersInv
<1>9. PushesInv(owner2)'
  BY <1>1, <1>2 DEF PushesInv, PushAt, Idle
<1>10. ListsInv(owner2, pos2)'
  BY <1>5, <1>6, <1>7, <1>8, <1>9 DEF ListsInv
<1>11. OwnersStay
  BY <1>10 DEF OwnersStay
<1> QED BY <1>4, <1>10, <1>11 DEF OwnInv

\* The chunk where the particle is written.
OnAddresses(m) == m = [a \in Addresses |-> m[a]]
GrowsTo(m2, m, c, size) ==
  /\ OnAddresses(m2) /\ \A a \in Addresses : a # c => m2[a] = m[a]
  /\ ChunkShape(m2[c]) /\ m2[c].size = size /\ m2[c].next = m[c].next

LEMMA WrittenChunk ==
  ASSUME MemoryInv, NEW c \in Addresses, NEW m2, NEW index, index = chunk[c].size,
         NEW size, size = index + 1, NEW p, WritesItem(m2, chunk, c, size, index, p)
  PROVE  GrowsTo(m2, chunk, c, size) /\ index \in Nat
<1> DEFINE x == WithItem(chunk[c], size, index, p)
<1>1. chunk = [a \in Addresses |-> chunk[a]] /\ ChunkShape(chunk[c])
  BY DEF MemoryInv
<1>2. index \in Nat
  BY <1>1 DEF ChunkShape
<1>3. size \in Nat
  BY <1>2
<1>4. ChunkShape(x) /\ x.size = size /\ x.next = chunk[c].next
  BY <1>1, <1>3, WithItemShape
<1> HIDE DEF x
<1>5. m2 = [chunk EXCEPT ![c] = x]
  BY <1>1, SizeAndItem DEF x
<1>6. OnAddresses(m2) /\ m2[c] = x /\ \A a \in Addresses : a # c => m2[a] = chunk[a]
  BY <1>1, <1>5 DEF OnAddresses
<1> QED BY <1>2, <1>4, <1>6 DEF GrowsTo

LEMMA FrontsAtCreation ==
  ASSUME phase = "create"
  PROVE  \A j \in Cells : Fronts[CurrentId(j)] = particles[j].front
<1>1. \A j \in Cells : CurrentFront(j) = particles[j].front
  BY DEF CurrentFront
<1> QED BY <1>1, FrontOf

LEMMA FrontsAtCreationNext ==
  (phase = "create" => \A j \in Cells : Fronts[CurrentId(j)] = particles[j].front)'
<1>1. phase = "create" => \A j \in Cells : Fronts[CurrentId(j)] = particles[j].front
  BY FrontsAtCreation
<1> QED BY <1>1, PTL

\* The particle is written in the front chunk, and the bag goes on with it.
LEMMA WrittenAlone ==
  ASSUME PInv, OwnInv, phase = "create", ~failed, NEW owner, NEW pos, ListsInv(owner, pos), NEW j \in Cells,
         UNCHANGED <<build, allocated, freeChunks, particles, particlesNext, push, phase, loop, tiles, i_color,
                     appendNext, spareVars>>,
         NEW c \in Listed, c = particles[j].front, NEW index, index = chunk[c].size, index < CHUNK_SIZE, NEW p,
         WritesItem(chunk', chunk, c, index + 1, index, p),
         failed' \/ index # CHUNK_SIZE - 1
  PROVE  OwnInv' /\ OwnersStay /\ Listed' = Listed
<1>1. MemoryInv /\ FreesInv /\ Chained(owner, pos, Links, Listed, Fronts) /\ LateInv /\ CreateInv
  BY DEF OwnInv, ListsInv
<1>2. Listed \subseteq Addresses /\ c \in Addresses
  BY <1>1, ListedIsMemory
<1> DEFINE grown == index + 1
<1>3. grown = index + 1 /\ WritesItem(chunk', chunk, c, grown, index, p)
  OBVIOUS
<1> HIDE DEF grown
<1>4. /\ OnAddresses(chunk') /\ \A a \in Addresses : a # c => chunk'[a] = chunk[a]
      /\ ChunkShape(chunk'[c]) /\ chunk'[c].size = index + 1 /\ chunk'[c].next = chunk[c].next /\ index \in Nat
  <2>1. GrowsTo(chunk', chunk, c, grown) /\ index \in Nat
    BY <1>1, <1>2, <1>3, WrittenChunk
  <2> QED BY <2>1, <1>3 DEF GrowsTo
<1>5. MemoryInv' /\ FreesInv'
  <2>1. \A a \in Addresses : ChunkShape(chunk'[a])
    BY <1>1, <1>4 DEF MemoryInv
  <2>2. MemoryInv'
    BY <1>1, <1>4, <2>1 DEF MemoryInv, OnAddresses
  <2>3. FreesInv'
    BY <1>1 DEF FreesInv
  <2> QED BY <2>2, <2>3
<1>6. Fronts' = Fronts
  BY FrontsSame
<1>7. Listed' = Listed
  <2>1. ListedNow /\ ListedNow'
    BY ListedOutsideAppend, ListedOutsideAppendNext
  <2> QED BY <2>1 DEF ListedNow, OutOfLists
<1>8. Chained(owner, pos, Links', Listed', Fronts')
  <2>1. \A a \in Listed : Links'[a] = Links[a]
    <3>1. \A a \in Addresses : Links'[a] = chunk'[a].next
      BY DEF Links
    <3>2. \A a \in Addresses : Links[a] = chunk[a].next
      BY LinksAre
    <3> QED BY <1>2, <1>4, <3>1, <3>2
  <2> QED BY <1>1, <1>6, <1>7, <2>1, ChainedSame
<1>9. \A i \in Cells : Fronts[CurrentId(i)] = particles[i].front /\ particles[i].front # NULL
  BY FrontsAtCreation DEF ListsInv, Heads
<1>10. \A i \in Cells : particles[i].front \in Listed /\ owner[particles[i].front] = CurrentId(i)
  <2>1. \A i \in Cells : CurrentId(i) \in ListIds
    BY Ids
  <2> QED BY <1>1, <1>9, <2>1 DEF Chained
<1>11. \A t \in Threads : Idle(t)
  BY PushingInMove
<1>12. \A a \in Addresses : ~(chunk'[a].size > CHUNK_SIZE)
  <2>1. \A a \in Addresses : ~(chunk[a].size > CHUNK_SIZE)
    BY <1>1, <1>11 DEF LateInv, Idle
  <2> QED BY <1>4, <2>1, ChunkAssumption
<1>13. CreateInv'
  <2>1. index # CHUNK_SIZE - 1 => ~(index + 1 >= CHUNK_SIZE)
    BY <1>4, ChunkAssumption
  <2>2. \A i \in Cells : i # j => particles[i].front # c /\ particles[i].front \in Addresses
    BY <1>2, <1>10, Ids
  <2> QED BY <1>1, <1>4, <2>1, <2>2 DEF CreateInv, Full
<1>14. \A a \in Listed : owner[a] # CurrentId(j) => chunk'[a] = chunk[a]
  BY <1>2, <1>4, <1>10
<1>15. \A a \in Listed : a \in Listed' /\ owner[a] = owner[a] /\ pos[a] = pos[a]
  BY <1>7
<1>16. \A a \in Listed' \ Listed : owner[a] = CurrentId(j)
  BY <1>7
<1>17. \A i \in Cells : particles'[i].front # NULL
  BY <1>9
<1> QED BY <1>5, <1>7, <1>8, <1>12, <1>13, <1>14, <1>15, <1>16, <1>17, CreationKeeps

\* A chunk made empty in front of another one.
LinksEmpty(m2, m, n, c) == m2 = [m EXCEPT ![n].size = 0, ![n].next = c]

LEMMA EmptyChunk ==
  ASSUME NEW m, m = [a \in Addresses |-> m[a]], NEW n \in Addresses, ChunkShape(m[n]), NEW c \in 0 .. MaxChunks,
         NEW m2, LinksEmpty(m2, m, n, c)
  PROVE  /\ OnAddresses(m2) /\ \A a \in Addresses : a # n => m2[a] = m[a]
         /\ ChunkShape(m2[n]) /\ m2[n].size = 0 /\ m2[n].next = c
<1> DEFINE y == m[n]  y1 == [y EXCEPT !.size = 0]  x == [size |-> 0, next |-> c, item |-> y.item]
<1>1. y = [size |-> y.size, next |-> y.next, item |-> y.item] /\ y.item = [i \in Slots |-> y.item[i]]
  BY DEF ChunkShape
<1>2. m2 = [m EXCEPT ![n] = [y EXCEPT !.size = 0, !.next = c]]
  BY DEF LinksEmpty
<1>3. [y EXCEPT !.size = 0, !.next = c] = [y1 EXCEPT !.next = c]
  <2> HIDE DEF y
  <2> QED OBVIOUS
<1>4. y1 = [size |-> 0, next |-> y.next, item |-> y.item]
  <2> HIDE DEF y
  <2> QED BY <1>1
<1> HIDE DEF y1
<1>5. [y1 EXCEPT !.next = c] = x
  <2> HIDE DEF y
  <2> QED BY <1>4
<1>6. m2 = [m EXCEPT ![n] = x]
  BY <1>2, <1>3, <1>5
<1>7. ChunkShape(x) /\ x.size = 0 /\ x.next = c
  <2> HIDE DEF y
  <2> QED BY <1>1 DEF ChunkShape
<1> HIDE DEF x
<1>8. OnAddresses(m2) /\ m2[n] = x /\ \A a \in Addresses : a # n => m2[a] = m[a]
  BY <1>6 DEF OnAddresses
<1> QED BY <1>7, <1>8

\* The particle is written in the last slot of the front chunk, and the bag goes on
\* with a chunk that was not in a list.
LEMMA WrittenAndExtended ==
  ASSUME PInv, OwnInv, phase = "create", NEW owner, NEW pos, ListsInv(owner, pos), NEW j \in Cells,
         UNCHANGED <<build, particlesNext, push, phase, loop, tiles, i_color, appendNext, spareVars, failed>>, ~failed,
         UsesFreelist(0) \/ MemoryFor(1), chunk_alloc(0), NEW new, new = ChunkAllocated(0),
         NEW c \in Listed, c = particles[j].front, NEW index, index = chunk[c].size, NEW p,
         NEW w, WritesItem(w, chunk, c, index + 1, index, p), index + 1 = CHUNK_SIZE,
         LinksEmpty(chunk', w, new, c), particles' = [particles EXCEPT ![j].front = new]
  PROVE  OwnInv' /\ OwnersStay /\ Listed' = Listed \cup {new} /\ new \in Addresses \ Listed
<1>1. /\ MemoryInv /\ FreesInv /\ HandsInv /\ Chained(owner, pos, Links, Listed, Fronts)
      /\ LateInv /\ CreateInv /\ Heads(owner, pos)
  BY DEF OwnInv, ListsInv
<1>2. Listed \subseteq Addresses /\ c \in Addresses /\ 0 \in Threads
  BY <1>1, ListedIsMemory, ChunkAssumption DEF Threads
<1>3. /\ new \in Addresses /\ new \notin {a \in allocated : ~OutOfLists(a)}
      /\ allocated' = allocated \cup {new}
      /\ freeChunks' \in [Threads -> Seq(Addresses)]
      /\ \A u \in Threads : Elements(freeChunks'[u]) = Elements(freeChunks[u]) \ {new}
      /\ FreesInv'
  <2>1. phase' = phase
    OBVIOUS
  <2> QED BY <1>1, <1>2, <2>1, AllocatedChunk
<1>4. /\ \A u \in Threads : Idle(u)
      /\ ListedNow /\ ListedNow'
  <2>1. phase # "append" /\ phase' # "append"
    OBVIOUS
  <2> QED BY <2>1, PushingInMove, ListedOutsideAppend, ListedOutsideAppendNext
<1>5. Listed' = Listed \cup {new} /\ new \notin Listed
  <2>1. \A a : OutOfLists(a) <=> \E u \in Threads : a \in Elements(freeChunks[u])
    BY <1>4 DEF OutOfLists, Idle
  <2>2. \A a : OutOfLists(a)' <=> \E u \in Threads : a \in Elements(freeChunks'[u])
    BY <1>4 DEF OutOfLists, Idle
  <2>3. \A a : a # new => (OutOfLists(a)' <=> OutOfLists(a))
    BY <1>3, <2>1, <2>2
  <2>4. ~OutOfLists(new)'
    BY <1>3, <2>2
  <2>5. Listed' = {a \in allocated' : ~OutOfLists(a)'}
    BY <1>4 DEF ListedNow
  <2>6. Listed = {a \in allocated : ~OutOfLists(a)}
    BY <1>4 DEF ListedNow
  <2>7. \A a : a \in Listed' <=> a \in Listed \cup {new}
    BY <1>3, <2>3, <2>4, <2>5, <2>6
  <2> QED BY <1>3, <2>6, <2>7
<1>6. new # c /\ c \in 0 .. MaxChunks /\ new # NULL
  BY <1>2, <1>3, <1>5, NotNull, ChunkAssumption DEF Addresses
<1>7. GrowsTo(w, chunk, c, CHUNK_SIZE) /\ index \in Nat
  BY <1>1, <1>2, WrittenChunk
<1>8. /\ w = [a \in Addresses |-> w[a]] /\ \A a \in Addresses : a # c => w[a] = chunk[a]
      /\ ChunkShape(w[c]) /\ w[c].size = CHUNK_SIZE /\ w[c].next = chunk[c].next
  BY <1>7 DEF GrowsTo, OnAddresses
<1>9. \A a \in Addresses : ChunkShape(chunk[a]) /\ ChunkShape(w[a])
  BY <1>1, <1>8 DEF MemoryInv
<1>10. /\ OnAddresses(chunk') /\ \A a \in Addresses : a # new => chunk'[a] = w[a]
       /\ ChunkShape(chunk'[new]) /\ chunk'[new].size = 0 /\ chunk'[new].next = c
  BY <1>3, <1>6, <1>8, <1>9, EmptyChunk
<1>11. /\ \A i \in Cells : particles'[i].front = IF i = j THEN new ELSE particles[i].front
       /\ particles' \in [Cells -> Bag]
  <2> DEFINE bag == [particles[j] EXCEPT !.front = new]
  <2>1. particles \in [Cells -> Bag] /\ new \in 0 .. MaxChunks
    BY <1>1, <1>3, ChunkAssumption DEF MemoryInv, Addresses
  <2>2. bag \in Bag /\ bag.front = new
    <3>1. particles[j] \in Bag
      BY <2>1
    <3> QED BY <2>1, <3>1 DEF Bag
  <2>3. particles' = [particles EXCEPT ![j] = bag]
    OBVIOUS
  <2> HIDE DEF bag
  <2> QED BY <2>1, <2>2, <2>3
<1>12. MemoryInv'
  <2>1. \A a \in Addresses : ChunkShape(chunk'[a])
    BY <1>9, <1>10
  <2>2. chunk' = [a \in Addresses |-> chunk'[a]] /\ allocated' \subseteq Addresses
    BY <1>1, <1>3, <1>10 DEF OnAddresses, MemoryInv
  <2> QED BY <1>1, <1>3, <1>11, <2>1, <2>2 DEF MemoryInv
<1>13. /\ \A i \in Cells : Fronts[CurrentId(i)] = particles[i].front /\ Fronts'[CurrentId(i)] = particles'[i].front
       /\ \A i \in Cells : particles[i].front # NULL /\ particles[i].front \in Listed
       /\ \A i \in Cells : owner[particles[i].front] = CurrentId(i)
  <2>1. \A i \in Cells : Fronts[CurrentId(i)] = particles[i].front /\ Fronts'[CurrentId(i)] = particles'[i].front
    BY FrontsAtCreation, FrontsAtCreationNext
  <2>2. \A i \in Cells : particles[i].front # NULL
    BY <1>1, <2>1 DEF Heads
  <2> QED BY <1>1, <2>1, <2>2, Ids DEF Chained
<1> DEFINE b == CurrentId(j)
<1>14. /\ b \in ListIds /\ Fronts[b] = c /\ Fronts'[b] = new
       /\ \A l \in ListIds : l # b => Fronts'[l] = Fronts[l]
  <2>1. b \in ListIds /\ Fronts[b] = c /\ Fronts'[b] = new
    BY <1>11, <1>13, Ids
  <2>2. \A i \in Cells : CurrentId(i) # b => Fronts'[CurrentId(i)] = Fronts[CurrentId(i)]
    BY <1>11, <1>13
  <2>3. \A kind \in BagKinds, i \in Cells : Fronts'[NextId(kind, i)] = Fronts[NextId(kind, i)]
    <3>1. \A kind \in BagKinds, i \in Cells : NextFront(kind, i)' = NextFront(kind, i)
      BY DEF NextFront
    <3> QED BY <3>1, FrontOf, FrontOfNext
  <2> HIDE DEF b
  <2> QED BY <2>1, <2>2, <2>3, Ids
<1>15. PICK owner2, pos2 : /\ Chained(owner2, pos2, Links', Listed', Fronts')
                           /\ owner2[new] = b
                           /\ \A a \in Addresses : a # new => owner2[a] = owner[a] /\ pos2[a] = pos[a]
  <2> HIDE DEF b
  <2> DEFINE o2 == [owner EXCEPT ![new] = b]
             p2 == [pos EXCEPT ![new] = IF Fronts[b] = NULL THEN 0 ELSE pos[Fronts[b]] + 1]
  <2>1. new \in Addresses \ Listed
    BY <1>3, <1>5
  <2>2. (\A a \in Addresses : Links[a] = chunk[a].next) /\ \A a \in Addresses : Links'[a] = chunk'[a].next
    BY LinksAre DEF Links
  <2>3. SameOn(Links', Links, Listed) /\ Links'[new] = Fronts[b]
    <3>1. \A a \in Listed : chunk'[a].next = chunk[a].next
      BY <1>2, <1>5, <1>8, <1>10
    <3> QED BY <1>2, <1>3, <1>10, <1>14, <2>2, <3>1 DEF SameOn
  <2>4. b \in ListIds /\ Fronts'[b] = new /\ SameOn(Fronts', Fronts, ListIds \ {b})
    BY <1>14 DEF SameOn
  <2>5. Chained(o2, p2, Links', Listed \cup {new}, Fronts')
    BY <1>1, <2>1, <2>3, <2>4, PrependKeeps
  <2>6. o2[new] = b /\ \A a \in Addresses : a # new => o2[a] = owner[a] /\ p2[a] = pos[a]
    BY <1>1, <1>3 DEF Chained
  <2> HIDE DEF o2, p2
  <2> QED BY <1>5, <2>5, <2>6
<1>16. \A a \in Listed : a \in Listed' /\ owner2[a] = owner[a] /\ pos2[a] = pos[a]
  BY <1>2, <1>5, <1>15
<1>17. \A a \in Listed' \ Listed : owner2[a] = CurrentId(j)
  BY <1>5, <1>15
<1>18. \A a \in Addresses : ~(chunk'[a].size > CHUNK_SIZE)
  <2>1. \A a \in Addresses : ~(chunk[a].size > CHUNK_SIZE)
    BY <1>1, <1>4 DEF LateInv, Idle
  <2> QED BY <1>8, <1>10, <2>1, ChunkAssumption
<1>19. CreateInv'
  <2>1. \A i \in Cells : i # j => chunk'[particles[i].front] = chunk[particles[i].front]
    BY <1>2, <1>5, <1>8, <1>10, <1>13, Ids
  <2>2. \A i \in Cells : ~(chunk[particles[i].front].size >= CHUNK_SIZE)
    BY <1>1 DEF CreateInv, Full
  <2>3. ~(0 >= CHUNK_SIZE)
    BY ChunkAssumption
  <2>4. \A i \in Cells : ~(chunk'[particles'[i].front].size >= CHUNK_SIZE)
    BY <1>10, <1>11, <2>1, <2>2, <2>3
  <2> QED BY <2>4 DEF CreateInv, Full
<1>20. \A a \in Listed : owner[a] # CurrentId(j) => chunk'[a] = chunk[a]
  BY <1>2, <1>5, <1>8, <1>10, <1>13
<1>21. \A i \in Cells : particles'[i].front # NULL
  BY <1>6, <1>11, <1>13
<1>22. Chained(owner2, pos2, Links', Listed', Fronts')
  BY <1>15
<1> HIDE DEF b
<1>23. OwnInv' /\ OwnersStay
  BY <1>3, <1>12, <1>16, <1>17, <1>18, <1>19, <1>20, <1>21, <1>22, CreationKeeps
<1> QED BY <1>3, <1>5, <1>23

\* The particle is written in the first slot that chunk c has left, and when c is
\* full then an empty chunk is put in front of it.
CreatesIn(j, c, index, w) ==
  /\ c = particles[j].front /\ c \in Listed /\ index = chunk[c].size /\ index < CHUNK_SIZE
  /\ WritesItem(w, chunk, c, index + 1, index, nbCreated + 1)
  /\ \/ chunk' = w /\ Listed' = Listed /\ particles' = particles
     \/ \E new \in Addresses \ Listed :
          /\ LinksEmpty(chunk', w, new, c) /\ Listed' = Listed \cup {new}
          /\ particles' = [particles EXCEPT ![j].front = new]

LEMMA CreateParticleKeeps ==
  ASSUME PInv, OwnInv, NEW j \in Cells, CreateParticle(j)
  PROVE  OwnInv' /\ OwnersStay /\ \E c, index, w : CreatesIn(j, c, index, w)
<1>1. PICK owner, pos : ListsInv(owner, pos)
  BY DEF OwnInv
<1>2. phase = "create" /\ ~failed /\ PushInitial(j, nbCreated + 1)
  BY DEF CreateParticle
<1>3. UNCHANGED <<build, particlesNext, push, phase, loop, tiles, i_color, appendNext, spareVars>>
  BY DEF CreateParticle
<1>4. PICK c, index, p : c = particles[j].front /\ index = chunk[c].size /\ p = nbCreated + 1
  OBVIOUS
<1>5. PICK w : w = [chunk EXCEPT ![c].size = index + 1, ![c].item[index] = p]
  OBVIOUS
<1>6. WritesItem(w, chunk, c, index + 1, index, p)
  BY <1>5 DEF WritesItem
<1>7. PICK new : new = IF build = "STDCHUNKALLOC" THEN Malloc(allocated) ELSE freeChunks[0][FREE_INDEX(0)]
  OBVIOUS
<1>8. /\ MemoryInv /\ CreateInv /\ Heads(owner, pos)
      /\ Chained(owner, pos, Links, Listed, Fronts)
  BY <1>1 DEF OwnInv, ListsInv
<1>9. c \in Listed
  <2>1. Fronts[CurrentId(j)] = c /\ Fronts[CurrentId(j)] # NULL
    BY <1>2, <1>4, <1>8, FrontsAtCreation DEF Heads
  <2> QED BY <1>8, <2>1, Ids DEF Chained
<1>10. index \in Nat /\ index < CHUNK_SIZE
  <2>1. c \in Addresses
    BY <1>8, <1>9, ListedIsMemory
  <2>2. index \in Nat
    BY <1>4, <1>8, <2>1 DEF MemoryInv, ChunkShape
  <2>3. ~(index >= CHUNK_SIZE)
    BY <1>2, <1>4, <1>8 DEF CreateInv, Full
  <2> QED BY <2>2, <2>3, ChunkAssumption
<1>11. \/ /\ chunk' = w /\ UNCHANGED <<allocated, freeChunks, particles>>
          /\ failed' \/ index # CHUNK_SIZE - 1
       \/ /\ index = CHUNK_SIZE - 1 /\ (build = "STDCHUNKALLOC" \/ ~(FREE_INDEX(0) < 1))
          /\ build = "STDCHUNKALLOC" => MemoryFor(1)
          /\ chunk' = [w EXCEPT ![new].size = 0, ![new].next = c]
          /\ particles' = [particles EXCEPT ![j].front = new]
          /\ allocated' = allocated \cup {new}
          /\ freeChunks' = [freeChunks EXCEPT ![0] =
                             IF build = "STDCHUNKALLOC" THEN @ ELSE SubSeq(@, 1, Len(@) - 1)]
          /\ UNCHANGED failed
  BY <1>2, <1>4, <1>5, <1>7, Zenon DEF PushInitial
<1>12. CASE /\ chunk' = w /\ UNCHANGED <<allocated, freeChunks, particles>>
            /\ failed' \/ index # CHUNK_SIZE - 1
  <2>1. WritesItem(chunk', chunk, c, index + 1, index, p)
    BY <1>6, <1>12
  <2>2. OwnInv' /\ OwnersStay /\ Listed' = Listed
    BY <1>1, <1>2, <1>3, <1>4, <1>9, <1>10, <1>12, <2>1, WrittenAlone
  <2>3. CreatesIn(j, c, index, w)
    BY <1>4, <1>6, <1>9, <1>10, <1>12, <2>2 DEF CreatesIn
  <2> QED BY <2>2, <2>3
<1>13. CASE /\ index = CHUNK_SIZE - 1 /\ (build = "STDCHUNKALLOC" \/ ~(FREE_INDEX(0) < 1))
            /\ build = "STDCHUNKALLOC" => MemoryFor(1)
            /\ chunk' = [w EXCEPT ![new].size = 0, ![new].next = c]
            /\ particles' = [particles EXCEPT ![j].front = new]
            /\ allocated' = allocated \cup {new}
            /\ freeChunks' = [freeChunks EXCEPT ![0] =
                               IF build = "STDCHUNKALLOC" THEN @ ELSE SubSeq(@, 1, Len(@) - 1)]
            /\ UNCHANGED failed
  <2>1. 0 \in Threads /\ freeChunks \in [Threads -> Seq(Addresses)] /\ FREE_INDEX(0) \in Nat
    <3>1. 0 \in Threads /\ freeChunks \in [Threads -> Seq(Addresses)]
      BY <1>8, ChunkAssumption DEF MemoryInv, Threads
    <3>2. freeChunks[0] \in Seq(Addresses)
      BY <3>1
    <3> QED BY <3>1, <3>2 DEF FREE_INDEX
  <2>2. (UsesFreelist(0) \/ MemoryFor(1)) /\ chunk_alloc(0) /\ new = ChunkAllocated(0)
    <3>1. CASE build = "STDCHUNKALLOC"
      <4>1. ~UsesFreelist(0) /\ new = ChunkAllocated(0) /\ MemoryFor(1)
        BY <1>7, <1>13, <3>1 DEF UsesFreelist, ChunkAllocated
      <4>2. freeChunks' = [freeChunks EXCEPT ![0] = freeChunks[0]]
        BY <1>13, <3>1
      <4>3. freeChunks' = freeChunks
        BY <2>1, <4>2
      <4>4. chunk_alloc(0)
        BY <1>13, <4>1, <4>3 DEF chunk_alloc
      <4> QED BY <4>1, <4>4
    <3>2. CASE build # "STDCHUNKALLOC"
      <4>1. UsesFreelist(0) /\ new = ChunkAllocated(0)
        BY <1>7, <1>13, <2>1, <3>2 DEF UsesFreelist, ChunkAllocated
      <4>2. freeChunks' = [freeChunks EXCEPT ![0] = SubSeq(freeChunks[0], 1, Len(freeChunks[0]) - 1)]
        BY <1>13, <3>2
      <4>3. allocated' = allocated
        <5>1. \A t \in Threads : Elements(freeChunks[t]) \subseteq allocated
          BY DEF OwnInv, FreesInv
        <5>2. freeChunks[0] \in Seq(Addresses) /\ FREE_INDEX(0) \in DOMAIN freeChunks[0]
          <6>1. freeChunks[0] \in Seq(Addresses)
            BY <2>1
          <6>2. FREE_INDEX(0) = Len(freeChunks[0]) /\ FREE_INDEX(0) > 0
            BY <4>1 DEF FREE_INDEX, UsesFreelist
          <6> QED BY <2>1, <6>1, <6>2
        <5>3. new = freeChunks[0][FREE_INDEX(0)]
          BY <1>7, <3>2
        <5>4. new \in Elements(freeChunks[0])
          BY <5>2, <5>3 DEF Elements
        <5> QED BY <1>13, <2>1, <5>1, <5>4
      <4>4. chunk_alloc(0)
        BY <4>1, <4>2, <4>3 DEF chunk_alloc
      <4> QED BY <4>1, <4>4
    <3> QED BY <3>1, <3>2
  <2>3. LinksEmpty(chunk', w, new, c) /\ index + 1 = CHUNK_SIZE
    BY <1>10, <1>13, ChunkAssumption DEF LinksEmpty
  <2>4. UNCHANGED failed /\ particles' = [particles EXCEPT ![j].front = new]
    BY <1>13
  <2>5. OwnInv' /\ OwnersStay /\ Listed' = Listed \cup {new} /\ new \in Addresses \ Listed
    BY <1>1, <1>2, <1>3, <1>4, <1>6, <1>9, <2>2, <2>3, <2>4, WrittenAndExtended
  <2>6. CreatesIn(j, c, index, w)
    BY <1>4, <1>6, <1>9, <1>10, <2>3, <2>4, <2>5 DEF CreatesIn
  <2> QED BY <2>5, <2>6
<1> QED BY <1>11, <1>12, <1>13

-----------------------------------------------------------------------------
(* The append loop.                                                         *)

\* A thread goes to the next cell of its block, or has done them all.
LEMMA BlockGoesOn ==
  ASSUME NEW t \in Threads, NEW j \in CellBlock(t)
  PROVE  j + 1 \in CellBlock(t) \/ \A i \in CellBlock(t) : i < j + 1
<1> DEFINE q == NumCells \div NbThreads
           r == NumCells % NbThreads
           first == t * q + (IF t < r THEN t ELSE r)
           last == first + q - (IF t < r THEN 0 ELSE 1)
<1>1. NumCells \in Nat /\ NbThreads \in Nat /\ NbThreads > 0
  BY NumCellsNatural, ChunkAssumption
<1>2. q \in Nat /\ r \in 0 .. NbThreads - 1
  BY <1>1, Division
<1>3. CellBlock(t) = first .. last
  BY DEF CellBlock, StaticBlock
<1>4. t \in Nat
  BY DEF Threads
<1> HIDE DEF q, r
<1>5. t * q \in Nat
  BY <1>2, <1>4
<1>6. first \in Int /\ last \in Int
  <2> DEFINE x == t * q
  <2>1. x \in Nat
    BY <1>5
  <2> HIDE DEF x
  <2>2. x + (IF t < r THEN t ELSE r) \in Int
    BY <1>2, <1>4, <2>1
  <2>3. first \in Int
    BY <2>2 DEF x
  <2> HIDE DEF first
  <2> QED BY <1>2, <2>3
<1> HIDE DEF first, last
<1> QED BY <1>3, <1>6

\* The place of the spare chunk of a number, as the two schemes compute it.
LEMMA SpareAtLocation ==
  ASSUME MemoryInv, SparesInv, phase = "append", build # "STDCHUNKALLOC", NEW kind \in BagKinds, NEW j \in Cells,
         NEW loc, MustLocate(loc)
  PROVE  SpareChunk(SpareLocationOf(loc, kind, j)) = Spare(SpareChunkId(kind, j))
<1> DEFINE id == SpareChunkId(kind, j)  k == ListOfSpare(id)
<1>1. id \in SpareIds /\ number_of_spare_chunks \in Nat
  BY SpareIdsOfBags
<1>2. k \in Threads /\ cumulative[k] \in Nat /\ FREE_INDEX(k) \in Nat /\ id \in Nat
  BY <1>1, SpareLocated DEF SpareIds
<1>3. PlaceOfSpare(id) =
         IF build = "SPARE_LOC_OPTIMIZED"
         THEN 1 + (id - cumulative[k]) + (IF k = lastSpare THEN FREE_INDEX(k) - (number_of_spare_chunks - cumulative[k]) ELSE 0)
         ELSE FREE_INDEX(k) - (id - cumulative[k])
  BY DEF PlaceOfSpare
<1>4. Spare(id) = freeChunks[k][PlaceOfSpare(id)]
  BY DEF Spare
<1>5. CASE build = "SPARE_LOC_OPTIMIZED"
  <2>1. SpareLocationOf(loc, kind, j) = locate_spare_chunk(id)
    BY <1>5 DEF SpareLocationOf
  <2>2. /\ locate_spare_chunk(id).thread = k
        /\ locate_spare_chunk(id).offset = IF k = lastSpare
             THEN (id - cumulative[k]) + FREE_INDEX(k) - (number_of_spare_chunks - cumulative[k])
             ELSE id - cumulative[k]
    BY DEF locate_spare_chunk
  <2> HIDE DEF id, k
  <2>3. locate_spare_chunk(id).offset + 1 = PlaceOfSpare(id)
    BY <1>1, <1>2, <1>3, <1>5, <2>2
  <2> QED BY <1>4, <2>1, <2>2, <2>3 DEF SpareChunk, id
<1>6. CASE build # "SPARE_LOC_OPTIMIZED"
  <2> DEFINE l == SpareLocationOf(loc, kind, j)
  <2>1. l.thread = k /\ l.offset = FREE_INDEX(k) - 1 - (id - cumulative[k])
    BY <1>6 DEF SpareLocationOf
  <2> HIDE DEF id, k, l
  <2>2. l.offset + 1 = PlaceOfSpare(id)
    BY <1>1, <1>2, <1>3, <1>6, <2>1
  <2> QED BY <1>4, <2>1, <2>2 DEF SpareChunk, id, l
<1> QED BY <1>5, <1>6

\* Within a freelist the spare chunks follow one another.
LEMMA NextSpareLocation ==
  ASSUME MemoryInv, SparesInv, phase = "append", build = "SPARE_LOC_OPTIMIZED",
         NEW id \in SpareIds, id + 1 \in SpareIds, ~MustLocate(NextLocation(locate_spare_chunk(id)))
  PROVE  NextLocation(locate_spare_chunk(id)) = locate_spare_chunk(id + 1)
<1> DEFINE k == ListOfSpare(id)  next == id + 1  l == ListOfSpare(next)  n == number_of_spare_chunks
           loc == locate_spare_chunk(id)
<1>1. build # "STDCHUNKALLOC"
  OBVIOUS
<1>2. /\ k \in Threads /\ cumulative[k] \in Nat /\ FREE_INDEX(k) \in Nat /\ id \in Nat /\ lastSpare \in Threads
      /\ k <= lastSpare /\ cumulative[k] <= id /\ id < cumulative[k] + FREE_INDEX(k)
  BY <1>1, SpareLocated DEF SpareIds
<1>3. /\ l \in Threads /\ l <= lastSpare /\ next \in Nat /\ LastUpTo(l, cumulative, next)
      /\ freeChunks \in [Threads -> Seq(Addresses)] /\ cumulative = [i \in Threads |-> SumTo(i, freeChunks)]
  <2>1. next \in SpareIds
    OBVIOUS
  <2>2. l \in Threads /\ l <= lastSpare
    BY <1>1, <2>1, SpareLocated
  <2> QED BY <1>1, <2>1, <2>2 DEF LastUpTo, ListOfSpare, SpareIds, MemoryInv, SparesInv
<1>4. n \in Nat
  BY SpareIdsOfBags
<1>5. /\ loc = [thread |-> k,
                offset |-> IF k = lastSpare THEN (id - cumulative[k]) + FREE_INDEX(k) - (n - cumulative[k])
                           ELSE id - cumulative[k],
                maxOffset |-> FREE_INDEX(k)]
      /\ locate_spare_chunk(next) = [thread |-> l,
                offset |-> IF l = lastSpare THEN (next - cumulative[l]) + FREE_INDEX(l) - (n - cumulative[l])
                           ELSE next - cumulative[l],
                maxOffset |-> FREE_INDEX(l)]
  BY DEF locate_spare_chunk
<1>6. NextLocation(loc) = [loc EXCEPT !.offset = loc.offset + 1] /\ ~(NextLocation(loc).offset >= NextLocation(loc).maxOffset)
  BY DEF NextLocation, MustLocate
<1>7. next = id + 1
  OBVIOUS
<1> HIDE DEF k, l, n, next, loc
<1>8. /\ loc.offset = IF k = lastSpare THEN (id - cumulative[k]) + FREE_INDEX(k) - (n - cumulative[k])
                      ELSE id - cumulative[k]
      /\ loc.maxOffset = FREE_INDEX(k)
      /\ NextLocation(loc) = [thread |-> k, offset |-> loc.offset + 1, maxOffset |-> FREE_INDEX(k)]
  <2> DEFINE o == IF k = lastSpare THEN (id - cumulative[k]) + FREE_INDEX(k) - (n - cumulative[k])
                  ELSE id - cumulative[k]
             f == FREE_INDEX(k)
  <2>1. loc = [thread |-> k, offset |-> o, maxOffset |-> f]
    BY <1>5
  <2> HIDE DEF o, f
  <2>2. loc.offset = o /\ loc.maxOffset = f /\ [loc EXCEPT !.offset = loc.offset + 1] = [thread |-> k, offset |-> o + 1, maxOffset |-> f]
    BY <2>1
  <2> QED BY <1>6, <2>2 DEF o, f
<1>9. l = k
  <2>1. CASE k # lastSpare
    <3>1. loc.offset = id - cumulative[k] /\ ~(loc.offset + 1 >= FREE_INDEX(k))
      BY <1>6, <1>8, <2>1
    <3>2. cumulative[k] <= next /\ next < cumulative[k] + FREE_INDEX(k)
      BY <1>2, <1>7, <3>1
    <3>3. \A i \in Threads : cumulative[i] <= next /\ next < cumulative[i] + Len(freeChunks[i]) => i = l
      BY <1>3, ListOfNumber
    <3>4. cumulative[k] <= next /\ next < cumulative[k] + Len(freeChunks[k])
      BY <3>2 DEF FREE_INDEX
    <3> QED BY <1>2, <3>3, <3>4
  <2>2. CASE k = lastSpare
    <3>1. ~(l < k)
      <4> SUFFICES ASSUME l < k PROVE FALSE
        OBVIOUS
      <4>1. \A i \in Threads : i > l => next < cumulative[i]
        BY <1>3, ListOfNumber
      <4>2. k > l
        BY <1>2, <1>3 DEF Threads
      <4> QED BY <1>2, <1>3, <1>7, <4>1, <4>2
    <3> QED BY <1>2, <1>3, <2>2, <3>1 DEF Threads
  <2> QED BY <2>1, <2>2
<1>10. loc.offset + 1 = IF l = lastSpare THEN (next - cumulative[l]) + FREE_INDEX(l) - (n - cumulative[l])
                        ELSE next - cumulative[l]
  BY <1>2, <1>4, <1>7, <1>8, <1>9
<1> QED BY <1>5, <1>7, <1>8, <1>9, <1>10 DEF loc, next

\* The two chunks that a cell takes are its spare chunks, and the location the thread
\* goes on with is the one of the next cell.
LEMMA SparesOfCell ==
  ASSUME MemoryInv, SparesInv, phase = "append", build # "STDCHUNKALLOC",
         NEW t \in Threads, NEW j \in Cells, j = appendNext[t], j \in CellBlock(t),
         NEW loc1, loc1 = SpareLocationOf(spareLocation[t], ID_SHARED_BAG, j),
         NEW loc2, loc2 = SpareLocationOf(NextLocation(loc1), ID_PRIVATE_BAG, j)
  PROVE  /\ SpareChunk(loc1) = Spare(SpareChunkId(ID_SHARED_BAG, j))
         /\ SpareChunk(loc2) = Spare(SpareChunkId(ID_PRIVATE_BAG, j))
         /\ build = "SPARE_LOC_OPTIMIZED" /\ 2 * (j + 1) \in SpareIds /\ ~MustLocate(NextLocation(loc2)) =>
              NextLocation(loc2) = locate_spare_chunk(2 * (j + 1))
<1> DEFINE id1 == SpareChunkId(ID_SHARED_BAG, j)  id2 == SpareChunkId(ID_PRIVATE_BAG, j)
<1>1. ID_SHARED_BAG \in BagKinds /\ ID_PRIVATE_BAG \in BagKinds
  BY DEF BagKinds
<1>2. id1 \in SpareIds /\ id2 \in SpareIds /\ id1 = 2 * j /\ id2 = id1 + 1 /\ j \in Nat /\ id2 + 1 = 2 * (j + 1)
  <2>1. id1 \in SpareIds /\ id2 \in SpareIds /\ id1 = 2 * j /\ id2 = 2 * j + 1
    BY <1>1, SpareIdsOfBags
  <2>2. j \in Nat
    BY DEF Cells
  <2> HIDE DEF id1, id2
  <2> QED BY <2>1, <2>2
<1>3. CASE build # "SPARE_LOC_OPTIMIZED"
  <2>1. MustLocate(spareLocation[t]) /\ MustLocate(NextLocation(loc1))
    BY <1>3 DEF MustLocate
  <2> QED BY <1>1, <1>3, <2>1, SpareAtLocation
<1>4. CASE build = "SPARE_LOC_OPTIMIZED"
  <2>1. \A kind \in BagKinds : SpareChunk(locate_spare_chunk(SpareChunkId(kind, j))) = Spare(SpareChunkId(kind, j))
    <3> TAKE kind \in BagKinds
    <3>1. MustLocate(NoLocation)
      BY DEF MustLocate, NoLocation
    <3>2. SpareLocationOf(NoLocation, kind, j) = locate_spare_chunk(SpareChunkId(kind, j))
      BY <1>4, <3>1 DEF SpareLocationOf
    <3>3. SpareChunk(SpareLocationOf(NoLocation, kind, j)) = Spare(SpareChunkId(kind, j))
      BY <3>1, SpareAtLocation
    <3> QED BY <3>2, <3>3
  <2>2. loc1 = locate_spare_chunk(id1)
    <3>1. CASE MustLocate(spareLocation[t])
      BY <1>4, <3>1 DEF SpareLocationOf
    <3>2. CASE ~MustLocate(spareLocation[t])
      <4>1. loc1 = spareLocation[t]
        BY <3>2 DEF SpareLocationOf
      <4>2. spareLocation[t] = locate_spare_chunk(2 * appendNext[t])
        BY <1>4, <3>2 DEF SparesInv
      <4> HIDE DEF id1
      <4> QED BY <1>2, <4>1, <4>2
    <3> QED BY <3>1, <3>2
  <2>3. loc2 = locate_spare_chunk(id2)
    <3>1. CASE MustLocate(NextLocation(loc1))
      BY <1>4, <3>1 DEF SpareLocationOf
    <3>2. CASE ~MustLocate(NextLocation(loc1))
      <4>1. loc2 = NextLocation(loc1)
        BY <3>2 DEF SpareLocationOf
      <4> HIDE DEF id1, id2
      <4>2. NextLocation(locate_spare_chunk(id1)) = locate_spare_chunk(id1 + 1)
        BY <1>2, <1>4, <2>2, <3>2, NextSpareLocation
      <4> QED BY <1>2, <2>2, <4>1, <4>2
    <3> QED BY <3>1, <3>2
  <2>4. SpareChunk(loc1) = Spare(id1) /\ SpareChunk(loc2) = Spare(id2)
    BY <1>1, <2>1, <2>2, <2>3
  <2>5. ASSUME 2 * (j + 1) \in SpareIds, ~MustLocate(NextLocation(loc2))
        PROVE  NextLocation(loc2) = locate_spare_chunk(2 * (j + 1))
    <3> HIDE DEF id1, id2
    <3>1. id2 + 1 \in SpareIds
      BY <1>2, <2>5
    <3>2. NextLocation(locate_spare_chunk(id2)) = locate_spare_chunk(id2 + 1)
      BY <1>2, <1>4, <2>3, <2>5, <3>1, NextSpareLocation
    <3> QED BY <1>2, <2>3, <3>2
  <2> QED BY <2>4, <2>5
<1> QED BY <1>3, <1>4

\* The links and sizes written when a bag is put in front of another one.
Relinks(m2, m, last, first, c1, c2) ==
  m2 = [a \in Addresses |-> CASE a = last -> [m[a] EXCEPT !.next = first]
                              [] a \in {c1, c2} -> [m[a] EXCEPT !.size = 0, !.next = NULL]
                              [] OTHER -> m[a]]

LEMMA Relinked ==
  ASSUME NEW m, \A a \in Addresses : ChunkShape(m[a]), NEW last \in Addresses, NEW first \in 0 .. MaxChunks,
         NEW c1 \in Addresses, NEW c2 \in Addresses, last # c1, last # c2, NEW m2, Relinks(m2, m, last, first, c1, c2)
  PROVE  /\ OnAddresses(m2) /\ \A a \in Addresses : ChunkShape(m2[a])
         /\ m2[last].next = first /\ m2[last].size = m[last].size
         /\ \A a \in {c1, c2} : m2[a].size = 0 /\ m2[a].next = NULL
         /\ \A a \in Addresses : a \notin {last, c1, c2} => m2[a] = m[a]
<1> DEFINE Goes(y) == [y EXCEPT !.next = first]
           Emptied(y) == [y EXCEPT !.size = 0, !.next = NULL]
<1>1. ASSUME NEW y, ChunkShape(y)
      PROVE  /\ ChunkShape(Goes(y)) /\ Goes(y).next = first /\ Goes(y).size = y.size
             /\ ChunkShape(Emptied(y)) /\ Emptied(y).size = 0 /\ Emptied(y).next = NULL
  <2>1. /\ y = [size |-> y.size, next |-> y.next, item |-> y.item] /\ y.size \in Nat
        /\ y.item = [i \in Slots |-> y.item[i]]
    BY <1>1 DEF ChunkShape
  <2> DEFINE y1 == [y EXCEPT !.next = first]  y2 == [y EXCEPT !.size = 0]  y3 == [y2 EXCEPT !.next = NULL]
  <2>2. y1 = [size |-> y.size, next |-> first, item |-> y.item]
    BY <2>1
  <2>3. y2 = [size |-> 0, next |-> y.next, item |-> y.item]
    BY <2>1
  <2>4. [y EXCEPT !.size = 0, !.next = NULL] = y3
    OBVIOUS
  <2> HIDE DEF y2
  <2>5. y3 = [size |-> 0, next |-> NULL, item |-> y.item]
    BY <2>3
  <2>6. ChunkShape(y1) /\ y1.next = first /\ y1.size = y.size
    <3> HIDE DEF y1
    <3> QED BY <2>1, <2>2 DEF ChunkShape
  <2>7. ChunkShape(y3) /\ y3.size = 0 /\ y3.next = NULL
    <3> HIDE DEF y3
    <3> QED BY <2>1, <2>5, ChunkAssumption DEF ChunkShape, NULL
  <2> QED BY <2>4, <2>6, <2>7
<1>2. OnAddresses(m2)
  BY DEF Relinks, OnAddresses
<1>3. m2[last] = Goes(m[last])
  BY DEF Relinks
<1>4. \A a \in {c1, c2} : m2[a] = Emptied(m[a])
  BY DEF Relinks
<1>5. \A a \in Addresses : a \notin {last, c1, c2} => m2[a] = m[a]
  BY DEF Relinks
<1> HIDE DEF Goes, Emptied
<1>6. /\ ChunkShape(m2[last]) /\ m2[last].next = first /\ m2[last].size = m[last].size
      /\ \A a \in {c1, c2} : ChunkShape(m2[a]) /\ m2[a].size = 0 /\ m2[a].next = NULL
  BY <1>1, <1>3, <1>4
<1>7. \A a \in Addresses : ChunkShape(m2[a])
  BY <1>5, <1>6
<1> QED BY <1>2, <1>5, <1>6, <1>7

\* The bags of a cell before and after the append.
LEMMA FrontsInAppend ==
  ASSUME phase = "append"
  PROVE  \A i \in Cells : CurrentFront(i) = IF Appended(i) THEN particles[i].front ELSE NULL
BY DEF CurrentFront

LEMMA FrontsInAppendNext ==
  (phase = "append" => \A i \in Cells : CurrentFront(i) = IF Appended(i) THEN particles[i].front ELSE NULL)'
<1>1. phase = "append" => \A i \in Cells : CurrentFront(i) = IF Appended(i) THEN particles[i].front ELSE NULL
  BY FrontsInAppend
<1> QED BY <1>1, PTL

LEMMA AppendedNext ==
  ASSUME AppendInv, NEW t \in Threads, NEW j \in CellBlock(t), j = appendNext[t],
         appendNext' = [appendNext EXCEPT ![t] = j + 1]
  PROVE  /\ j \in Cells /\ ~Appended(j) /\ \A i \in Cells : Appended(i)' <=> Appended(i) \/ i = j
         /\ AppendInv'
<1>1. \A u \in Threads : CellBlock(u) \subseteq Cells
  BY CellsShared
<1>2. j \in Cells /\ Cells \subseteq Int
  BY <1>1 DEF Cells
<1>3. appendNext = [u \in Threads |-> appendNext[u]] /\ \A u \in Threads : appendNext[u] \in Nat
  BY DEF AppendInv
<1>4. appendNext'[t] = j + 1 /\ \A u \in Threads : u # t => appendNext'[u] = appendNext[u]
  BY <1>3
<1>5. \A u \in Threads : j \in CellBlock(u) => u = t
  BY CellsShared
<1>6. ~Appended(j)
  BY <1>2, <1>5 DEF Appended
<1>7. \A i \in Cells : Appended(i)' <=> \E u \in Threads : i \in CellBlock(u) /\ i < appendNext'[u]
  BY DEF Appended, CellBlock
<1>8. \A i \in Cells : i < j + 1 <=> i < j \/ i = j
  BY <1>2
<1>9. \A i \in Cells : Appended(i)' <=> Appended(i) \/ i = j
  BY <1>4, <1>7, <1>8 DEF Appended
<1>10. AppendInv'
  <2>1. j + 1 \in Nat /\ (j + 1 \in CellBlock(t) \/ \A i \in CellBlock(t) : i < j + 1)
    BY <1>3, BlockGoesOn
  <2>2. \A u \in Threads : CellBlock(u)' = CellBlock(u)
    BY DEF CellBlock
  <2>3. \A u \in Threads : /\ appendNext'[u] \in Nat
                           /\ appendNext'[u] \in CellBlock(u) \/ \A i \in CellBlock(u) : i < appendNext'[u]
    BY <1>4, <2>1 DEF AppendInv
  <2>4. appendNext' = [u \in Threads |-> appendNext'[u]]
    BY <1>3
  <2> QED BY <2>2, <2>3, <2>4 DEF AppendInv
<1> QED BY <1>2, <1>6, <1>9, <1>10

\* The two bags of the next step of a cell start again from two chunks.
Restarts(bags2, bags, j, c1, c2) ==
  bags2 = [bags EXCEPT ![ID_SHARED_BAG][j] = [front |-> c1, back |-> c1],
                       ![ID_PRIVATE_BAG][j] = [front |-> c2, back |-> c2]]

LEMMA BagsRestart ==
  ASSUME NEW bags \in [BagKinds -> [Cells -> Bag]], NEW j \in Cells, NEW c1 \in Addresses, NEW c2 \in Addresses,
         NEW bags2, Restarts(bags2, bags, j, c1, c2)
  PROVE  /\ bags2 \in [BagKinds -> [Cells -> Bag]]
         /\ \A kind \in BagKinds, i \in Cells : i # j => bags2[kind][i] = bags[kind][i]
         /\ bags2[ID_SHARED_BAG][j].front = c1 /\ bags2[ID_SHARED_BAG][j].back = c1
         /\ bags2[ID_PRIVATE_BAG][j].front = c2 /\ bags2[ID_PRIVATE_BAG][j].back = c2
<1> DEFINE S == ID_SHARED_BAG  P == ID_PRIVATE_BAG
           x == [front |-> c1, back |-> c1]  y == [front |-> c2, back |-> c2]
           row == [bags[S] EXCEPT ![j] = x]  mid == [bags EXCEPT ![S] = row]
           row2 == [mid[P] EXCEPT ![j] = y]
<1>1. S \in BagKinds /\ P \in BagKinds /\ S # P /\ \A kind \in BagKinds : kind = S \/ kind = P
  BY DEF BagKinds, ID_SHARED_BAG, ID_PRIVATE_BAG
<1>2. x \in Bag /\ y \in Bag /\ x.front = c1 /\ x.back = c1 /\ y.front = c2 /\ y.back = c2
  BY ChunkAssumption DEF Bag, Addresses
<1>3. bags2 = [bags EXCEPT ![S][j] = x, ![P][j] = y]
  BY DEF Restarts
<1> HIDE DEF S, P, x, y
<1>4. bags2 = [mid EXCEPT ![P] = row2]
  <2>1. [bags EXCEPT ![S][j] = x, ![P][j] = y] = [[bags EXCEPT ![S][j] = x] EXCEPT ![P][j] = y]
    OBVIOUS
  <2>2. [bags EXCEPT ![S][j] = x] = mid
    OBVIOUS
  <2>3. [mid EXCEPT ![P][j] = y] = [mid EXCEPT ![P] = row2]
    OBVIOUS
  <2> QED BY <1>3, <2>1, <2>2, <2>3
<1>5. row \in [Cells -> Bag] /\ row[j] = x /\ \A i \in Cells : i # j => row[i] = bags[S][i]
  BY <1>1, <1>2
<1> HIDE DEF row
<1>6. mid \in [BagKinds -> [Cells -> Bag]] /\ mid[S] = row /\ mid[P] = bags[P]
  BY <1>1, <1>5
<1> HIDE DEF mid
<1>7. row2 \in [Cells -> Bag] /\ row2[j] = y /\ \A i \in Cells : i # j => row2[i] = bags[P][i]
  BY <1>1, <1>2, <1>6
<1> HIDE DEF row2
<1>8. bags2 \in [BagKinds -> [Cells -> Bag]] /\ bags2[S] = row /\ bags2[P] = row2
  BY <1>1, <1>4, <1>6, <1>7
<1>9. bags2[S][j] = x /\ bags2[P][j] = y
  BY <1>5, <1>7, <1>8
<1>10. \A kind \in BagKinds, i \in Cells : i # j => bags2[kind][i] = bags[kind][i]
  BY <1>1, <1>5, <1>7, <1>8
<1> QED BY <1>2, <1>8, <1>9, <1>10 DEF S, P

\* The body of the append loop, whatever the two chunks it takes.
LEMMA AppendedKeeps ==
  ASSUME PInv, OwnInv, phase = "append", NEW owner, NEW pos, ListsInv(owner, pos),
         NEW t \in Threads, NEW j \in CellBlock(t), j = appendNext[t],
         UNCHANGED <<build, freeChunks, push, phase, loop, tiles, i_color>>,
         appendNext' = [appendNext EXCEPT ![t] = j + 1],
         NEW shared, shared = particlesNext[ID_SHARED_BAG][j], NEW private, private = particlesNext[ID_PRIVATE_BAG][j],
         NEW c1 \in Addresses \ Listed, NEW c2 \in Addresses \ Listed, c1 # c2,
         Relinks(chunk', chunk, shared.back, private.front, c1, c2),
         particles' = [particles EXCEPT ![j] = [front |-> shared.front, back |-> private.back]],
         Restarts(particlesNext', particlesNext, j, c1, c2),
         Listed' = Listed \cup {c1, c2}, allocated' \subseteq Addresses, FreesInv', SparesInv'
  PROVE  OwnInv' /\ OwnersJoin(j)
<1> DEFINE s == NextId(ID_SHARED_BAG, j)  p == NextId(ID_PRIVATE_BAG, j)  l == CurrentId(j)  last == shared.back
<1>1. /\ MemoryInv /\ AppendInv /\ LoopInv /\ Chained(owner, pos, Links, Listed, Fronts) /\ Heads(owner, pos)
      /\ LateInv /\ BehindInv(owner) /\ ExtendersInv
  BY DEF OwnInv, ListsInv
<1>2. /\ j \in Cells /\ ~Appended(j) /\ \A i \in Cells : Appended(i)' <=> Appended(i) \/ i = j
      /\ AppendInv'
  BY <1>1, AppendedNext
<1>3. /\ ID_SHARED_BAG \in BagKinds /\ ID_PRIVATE_BAG \in BagKinds /\ ID_SHARED_BAG # ID_PRIVATE_BAG
      /\ \A kind \in BagKinds : kind = ID_SHARED_BAG \/ kind = ID_PRIVATE_BAG
  BY DEF BagKinds, ID_SHARED_BAG, ID_PRIVATE_BAG
<1>4. Listed \subseteq Addresses
  BY <1>1, ListedIsMemory
<1>5. /\ last \in Listed /\ owner[last] = s /\ pos[last] = 0 /\ last \in Addresses
      /\ Fronts[s] = shared.front /\ Fronts[p] = private.front
      /\ shared.front \in Listed /\ private.front \in Listed /\ Fronts[s] # NULL /\ Fronts[p] # NULL
  <2>1. /\ \A kind \in BagKinds : Fronts[NextId(kind, j)] = particlesNext[kind][j].front
        /\ \A kind \in BagKinds : Fronts[NextId(kind, j)] \in Listed /\ Fronts[NextId(kind, j)] # NULL
    <3>1. \A kind \in BagKinds : NextFront(kind, j) \in Listed
      BY <1>2, FrontListed
    <3>2. \A kind \in BagKinds : Fronts[NextId(kind, j)] = NextFront(kind, j) /\ NextFront(kind, j) = particlesNext[kind][j].front
      BY <1>2, FrontOf DEF NextFront
    <3> QED BY <1>4, <3>1, <3>2, NotNull
  <2>2. last \in Listed /\ owner[last] = s /\ pos[last] = 0
    BY <1>1, <1>2, <1>3 DEF Heads
  <2> QED BY <1>3, <1>4, <2>1, <2>2
<1>6. /\ s \in ListIds /\ p \in ListIds /\ l \in ListIds /\ s # p /\ s # l /\ p # l
      /\ \A kind \in BagKinds, i \in Cells : NextId(kind, i) \in {s, p} <=> i = j
      /\ \A i \in Cells : CurrentId(i) # s /\ CurrentId(i) # p /\ (CurrentId(i) = l <=> i = j)
      /\ \A kind \in BagKinds, i \in Cells : NextId(kind, i) # l
  BY <1>2, <1>3, Ids
<1>7. /\ Fronts[l] = NULL
      /\ Fronts'[l] = shared.front /\ \A i \in Cells : i # j => Fronts'[CurrentId(i)] = Fronts[CurrentId(i)]
  <2>1. /\ \A i \in Cells : CurrentFront(i) = IF Appended(i) THEN particles[i].front ELSE NULL
        /\ \A i \in Cells : CurrentFront(i)' = IF Appended(i)' THEN particles'[i].front ELSE NULL
    BY FrontsInAppend, FrontsInAppendNext
  <2>2. particles'[j].front = shared.front /\ \A i \in Cells : i # j => particles'[i] = particles[i]
    <3>1. particles \in [Cells -> Bag]
      BY <1>1 DEF MemoryInv
    <3> DEFINE bag == [front |-> shared.front, back |-> private.back]
    <3>2. bag.front = shared.front /\ particles' = [particles EXCEPT ![j] = bag]
      OBVIOUS
    <3> HIDE DEF bag
    <3> QED BY <1>2, <3>1, <3>2
  <2>3. CurrentFront(j) = NULL /\ CurrentFront(j)' = shared.front
    BY <1>2, <2>1, <2>2
  <2>4. \A i \in Cells : i # j => CurrentFront(i)' = CurrentFront(i)
    BY <1>2, <2>1, <2>2
  <2> QED BY <1>2, <2>3, <2>4, FrontOf, FrontOfNext
<1> HIDE DEF s, p, l, last
<1>8. /\ particlesNext' \in [BagKinds -> [Cells -> Bag]]
      /\ \A kind \in BagKinds, i \in Cells : i # j => particlesNext'[kind][i] = particlesNext[kind][i]
      /\ particlesNext'[ID_SHARED_BAG][j].front = c1 /\ particlesNext'[ID_SHARED_BAG][j].back = c1
      /\ particlesNext'[ID_PRIVATE_BAG][j].front = c2 /\ particlesNext'[ID_PRIVATE_BAG][j].back = c2
  <2>1. particlesNext \in [BagKinds -> [Cells -> Bag]] /\ c1 \in Addresses /\ c2 \in Addresses
    BY <1>1 DEF MemoryInv
  <2> QED BY <1>2, <2>1, BagsRestart
<1>9. /\ Fronts'[s] = c1 /\ Fronts'[p] = c2
      /\ \A kind \in BagKinds, i \in Cells : i # j => Fronts'[NextId(kind, i)] = Fronts[NextId(kind, i)]
      /\ NextFront(ID_SHARED_BAG, j)' = c1 /\ NextFront(ID_PRIVATE_BAG, j)' = c2
      /\ \A kind \in BagKinds, i \in Cells : i # j => NextFront(kind, i)' = NextFront(kind, i)
  <2>1. \A kind \in BagKinds, i \in Cells : NextFront(kind, i)' = particlesNext'[kind][i].front
    BY DEF NextFront
  <2>2. \A kind \in BagKinds, i \in Cells : i # j => NextFront(kind, i)' = NextFront(kind, i)
    BY <1>8, <2>1 DEF NextFront
  <2>3. \A kind \in BagKinds, i \in Cells :
          Fronts'[NextId(kind, i)] = NextFront(kind, i)' /\ Fronts[NextId(kind, i)] = NextFront(kind, i)
    BY FrontOf, FrontOfNext
  <2>4. NextFront(ID_SHARED_BAG, j)' = c1 /\ NextFront(ID_PRIVATE_BAG, j)' = c2
    BY <1>2, <1>3, <1>8, <2>1
  <2>5. Fronts'[s] = c1 /\ Fronts'[p] = c2
    BY <1>2, <1>3, <2>3, <2>4 DEF s, p
  <2> QED BY <2>2, <2>3, <2>4, <2>5
<1>10. SameOn(Fronts', Fronts, ListIds \ {s, p, l})
  <2> SUFFICES ASSUME NEW a \in ListIds, a # s, a # p, a # l PROVE Fronts'[a] = Fronts[a]
    BY DEF SameOn
  <2>1. \/ \E i \in Cells : a = CurrentId(i)
        \/ \E kind \in BagKinds, i \in Cells : a = NextId(kind, i)
    BY Ids
  <2> QED BY <1>6, <1>7, <1>9, <2>1
<1>11. private.front \in 0 .. MaxChunks /\ last # c1 /\ last # c2 /\ c1 \in Addresses /\ c2 \in Addresses
  <2>1. c1 \in Addresses /\ c2 \in Addresses /\ c1 \notin Listed /\ c2 \notin Listed
    OBVIOUS
  <2>2. private.front \in Addresses
    BY <1>4, <1>5
  <2>3. Addresses \subseteq 0 .. MaxChunks
    BY ChunkAssumption DEF Addresses
  <2> QED BY <1>5, <2>1, <2>2, <2>3
<1>12. \A a \in Addresses : ChunkShape(chunk[a])
  BY <1>1 DEF MemoryInv
<1>13. /\ OnAddresses(chunk') /\ \A a \in Addresses : ChunkShape(chunk'[a])
       /\ chunk'[last].next = private.front /\ chunk'[last].size = chunk[last].size
       /\ \A a \in {c1, c2} : chunk'[a].size = 0 /\ chunk'[a].next = NULL
       /\ \A a \in Addresses : a \notin {last, c1, c2} => chunk'[a] = chunk[a]
  <2>1. Relinks(chunk', chunk, last, private.front, c1, c2)
    BY DEF last
  <2> QED BY <1>5, <1>11, <1>12, <2>1, Relinked
<1>14. \A a \in Addresses : Links[a] = chunk[a].next /\ Links'[a] = chunk'[a].next
  BY LinksAre DEF Links
<1>15. /\ SameOn(Links', Links, Listed \ {last}) /\ Links'[last] = Fronts[p]
       /\ Links'[c1] = NULL /\ Links'[c2] = NULL
  <2>1. ASSUME NEW a \in Listed \ {last} PROVE Links'[a] = Links[a]
    <3>1. a \in Addresses /\ a \notin {last, c1, c2}
      BY <1>4
    <3> QED BY <1>13, <1>14, <3>1
  <2> QED BY <1>5, <1>11, <1>13, <1>14, <2>1 DEF SameOn
<1>16. Fronts'[l] = Fronts[s]
  BY <1>5, <1>7
<1>17. PICK owner2, pos2 : /\ owner2 = JoinedOwner(owner, s, p, l, c1, c2)
                           /\ pos2 = JoinedPos(owner, pos, s, Fronts[p], c1, c2)
  OBVIOUS
<1>18. Chained(owner2, pos2, Links', Listed', Fronts')
  <2>1. c1 \in Addresses \ Listed /\ c2 \in Addresses \ Listed /\ c1 # c2
    OBVIOUS
  <2> QED BY <1>1, <1>5, <1>6, <1>7, <1>9, <1>10, <1>15, <1>16, <1>17, <2>1, JoinKeeps
<1>19. /\ owner2[c1] = s /\ owner2[c2] = p /\ pos2[c1] = 0 /\ pos2[c2] = 0
       /\ \A a \in Addresses \ {c1, c2} : owner2[a] = IF owner[a] \in {s, p} THEN l ELSE owner[a]
       /\ \A a \in Addresses \ {c1, c2} : owner[a] # s => pos2[a] = pos[a]
  BY <1>11, <1>17 DEF JoinedOwner, JoinedPos
<1>20. \A u \in Threads : Idle(u) /\ Idle(u)'
  <2>1. \A u \in Threads : Idle(u)
    BY PushingInMove
  <2> QED BY <2>1 DEF Idle
<1>21. MemoryInv'
  <2>1. particles' \in [Cells -> Bag]
    <3> DEFINE bag == [front |-> shared.front, back |-> private.back]
    <3>1. particles \in [Cells -> Bag] /\ shared \in Bag /\ private \in Bag
      BY <1>1, <1>2, <1>3 DEF MemoryInv
    <3>2. bag \in Bag
      BY <3>1 DEF Bag
    <3>3. particles' = [particles EXCEPT ![j] = bag]
      OBVIOUS
    <3> HIDE DEF bag
    <3> QED BY <3>1, <3>2, <3>3
  <2>2. chunk' = [a \in Addresses |-> chunk'[a]]
    BY <1>13 DEF OnAddresses
  <2> QED BY <1>1, <1>8, <1>13, <2>1, <2>2 DEF MemoryInv
<1>22. HandsInv' /\ LoopInv'
  <2>1. HandsInv'
    BY <1>20 DEF HandsInv, Idle
  <2>2. LoopInv'
    BY <1>1 DEF LoopInv, Working
  <2> QED BY <2>1, <2>2
<1>23. Heads(owner2, pos2)'
  <2>1. \A i \in Cells : Fronts'[CurrentId(i)] # NULL \/ (phase' \in {"single", "append"} /\ ~(phase' = "append" /\ Appended(i)'))
    <3> TAKE i \in Cells
    <3>1. CASE i = j
      BY <1>5, <1>7, <3>1 DEF l
    <3>2. CASE i # j
      BY <1>1, <1>2, <1>7, <3>2 DEF Heads
    <3> QED BY <3>1, <3>2
  <2>2. ASSUME NEW kind \in BagKinds, NEW i \in Cells
        PROVE  /\ Fronts'[NextId(kind, i)] # NULL
               /\ particlesNext'[kind][i].back \in Listed'
               /\ owner2[particlesNext'[kind][i].back] = NextId(kind, i)
               /\ pos2[particlesNext'[kind][i].back] = 0
    <3>1. CASE i = j
      <4>1. c1 # NULL /\ c2 # NULL /\ c1 \in Listed' /\ c2 \in Listed'
        BY <1>11, NotNull
      <4>2. /\ Fronts'[s] # NULL /\ particlesNext'[ID_SHARED_BAG][j].back \in Listed'
            /\ owner2[particlesNext'[ID_SHARED_BAG][j].back] = s /\ pos2[particlesNext'[ID_SHARED_BAG][j].back] = 0
        BY <1>8, <1>9, <1>19, <4>1
      <4>3. /\ Fronts'[p] # NULL /\ particlesNext'[ID_PRIVATE_BAG][j].back \in Listed'
            /\ owner2[particlesNext'[ID_PRIVATE_BAG][j].back] = p /\ pos2[particlesNext'[ID_PRIVATE_BAG][j].back] = 0
        BY <1>8, <1>9, <1>19, <4>1
      <4>4. CASE kind = ID_SHARED_BAG
        BY <3>1, <4>2, <4>4 DEF s
      <4>5. CASE kind = ID_PRIVATE_BAG
        BY <3>1, <4>3, <4>5 DEF p
      <4> QED BY <1>3, <4>4, <4>5
    <3>2. CASE i # j
      <4> DEFINE b == particlesNext[kind][i].back
      <4>1. Fronts[NextId(kind, i)] # NULL /\ b \in Listed /\ owner[b] = NextId(kind, i) /\ pos[b] = 0
        BY <1>1 DEF Heads
      <4>2. particlesNext'[kind][i].back = b
        BY <1>8, <3>2
      <4> HIDE DEF b
      <4>3. b \in Addresses \ {c1, c2} /\ owner[b] \notin {s, p}
        BY <1>4, <1>6, <3>2, <4>1
      <4>4. owner2[b] = owner[b] /\ pos2[b] = pos[b]
        BY <1>19, <4>3
      <4> QED BY <1>9, <3>2, <4>1, <4>2, <4>4
    <3> QED BY <3>1, <3>2
  <2> QED BY <2>1, <2>2 DEF Heads
<1>24. \A a \in Addresses : chunk'[a].size = chunk[a].size \/ chunk'[a].size = 0
  BY <1>13
<1>25. LateInv'
  <2>1. \A a \in Addresses : ~(chunk[a].size > CHUNK_SIZE)
    BY <1>1, <1>20 DEF LateInv, Idle
  <2>2. \A a \in Addresses : ~(chunk'[a].size > CHUNK_SIZE)
    BY <1>24, <2>1, ChunkAssumption
  <2> QED BY <2>2 DEF LateInv
<1>26. BehindInv(owner2)'
  <2> SUFFICES ASSUME NEW a \in Listed', NEW kind \in BagKinds, NEW i \in Cells,
                      owner2[a] = NextId(kind, i), a # NextFront(kind, i)'
               PROVE  chunk'[a].size >= CHUNK_SIZE
    BY DEF BehindInv, Full
  <2>1. a # c1 /\ a # c2
    BY <1>2, <1>3, <1>9, <1>19, Ids DEF s, p
  <2>2. a \in Listed /\ a \in Addresses \ {c1, c2}
    BY <1>4, <2>1
  <2>3. owner[a] = NextId(kind, i) /\ i # j
    BY <1>6, <1>19, <2>2
  <2>4. chunk[a].size >= CHUNK_SIZE
    BY <1>1, <1>9, <2>2, <2>3 DEF BehindInv, Full
  <2>5. chunk'[a].size = chunk[a].size
    BY <1>13, <2>2
  <2> QED BY <2>4, <2>5
<1>27. ExtendersInv'
  <2>1. \A u \in Threads : ~Extends(u) /\ ~Extends(u)'
    BY <1>20 DEF Extends, Idle
  <2>2. ASSUME NEW kind \in BagKinds, NEW i \in Cells PROVE ~Full(NextFront(kind, i))'
    <3>1. Full(NextFront(kind, i))' <=> chunk'[NextFront(kind, i)'].size >= CHUNK_SIZE
      BY DEF Full
    <3>2. CASE i = j
      <4>1. chunk'[NextFront(kind, i)'].size = 0
        BY <1>3, <1>9, <1>13, <3>2
      <4> QED BY <3>1, <4>1, ChunkAssumption
    <3>3. CASE i # j
      <4>1. NextFront(kind, i)' = NextFront(kind, i) /\ NextFront(kind, i) \in Listed
        BY <1>9, <3>3, FrontListed
      <4>2. NextFront(kind, i) \in Addresses /\ NextFront(kind, i) \notin {c1, c2}
        BY <1>4, <4>1
      <4>3. chunk'[NextFront(kind, i)].size = chunk[NextFront(kind, i)].size
        BY <1>13, <4>2
      <4>4. ~Full(NextFront(kind, i))
        BY <1>1, <2>1 DEF ExtendersInv
      <4> QED BY <3>1, <4>1, <4>3, <4>4 DEF Full
    <3> QED BY <3>2, <3>3
  <2> QED BY <2>1, <2>2 DEF ExtendersInv
<1>28. CreateInv' /\ PushesInv(owner2)'
  <2>1. CreateInv'
    BY DEF CreateInv
  <2>2. PushesInv(owner2)'
    <3>1. \A u \in Threads : push'[u].kind \in BagKinds
      BY DEF ListsInv, PushesInv, PushAt
    <3> QED BY <1>20, <3>1 DEF PushesInv, PushAt, Idle
  <2> QED BY <2>1, <2>2
<1>29. ListsInv(owner2, pos2)'
  BY <1>18, <1>23, <1>25, <1>26, <1>27, <1>28 DEF ListsInv
<1>30. OwnersJoin(j)
  <2>1. \A a : a \in {s, p} <=> \E kind \in BagKinds : a = NextId(kind, j)
    BY <1>3 DEF s, p
  <2>2. \A a \in Listed : owner2[a] = IF owner[a] \in {s, p} THEN l ELSE owner[a]
    BY <1>4, <1>19
  <2>3. \A a \in Listed' : a \notin Listed => owner2[a] \in {s, p}
    BY <1>19
  <2>4. l = CurrentId(j)
    BY DEF l
  <2> HIDE DEF s, p, l
  <2> QED BY <1>29, <2>1, <2>2, <2>3, <2>4 DEF OwnersJoin
<1> QED BY <1>2, <1>21, <1>22, <1>29, <1>30 DEF OwnInv

\* The two bags of cell j become its current bag, and c1 and c2 are put in their place.
AppendsChunks(j, c1, c2) ==
  /\ c1 \notin Listed /\ c2 \notin Listed /\ Listed' = Listed \cup {c1, c2}
  /\ Relinks(chunk', chunk, particlesNext[ID_SHARED_BAG][j].back, particlesNext[ID_PRIVATE_BAG][j].front, c1, c2)

LEMMA AppendAndReduceKeeps ==
  ASSUME PInv, OwnInv, NEW t \in Threads, AppendAndReduce(t)
  PROVE  OwnInv' /\ OwnersJoin(appendNext[t]) /\ \E c1, c2 \in Addresses : AppendsChunks(appendNext[t], c1, c2)
<1>1. PICK owner, pos : ListsInv(owner, pos)
  BY DEF OwnInv
<1>2. PICK j : j = appendNext[t]
  OBVIOUS
<1>3. /\ phase = "append" /\ ~failed /\ j \in CellBlock(t) /\ AppendCell(t, j)
      /\ appendNext' = [appendNext EXCEPT ![t] = j + 1]
      /\ UNCHANGED <<build, push, phase, loop, tiles, i_color>>
  BY <1>2 DEF AppendAndReduce
<1> DEFINE bag1 == particlesNext[ID_SHARED_BAG][j]
           bag2 == particlesNext[ID_PRIVATE_BAG][j]
           place1 == SpareLocationOf(spareLocation[t], ID_SHARED_BAG, j)
           place2 == SpareLocationOf(NextLocation(place1), ID_PRIVATE_BAG, j)
           spare1 == IF build = "STDCHUNKALLOC" THEN Malloc(allocated) ELSE SpareChunk(place1)
           spare2 == IF build = "STDCHUNKALLOC" THEN Malloc(allocated \cup {spare1}) ELSE SpareChunk(place2)
           exits == /\ build # "STDCHUNKALLOC"
                    /\ \/ MustLocate(spareLocation[t]) /\ SpareMissing(SpareChunkId(ID_SHARED_BAG, j))
                       \/ MustLocate(NextLocation(place1)) /\ SpareMissing(SpareChunkId(ID_PRIVATE_BAG, j))
<1>4. /\ MemoryInv /\ FreesInv /\ SparesInv /\ AppendInv
      /\ j \in Cells /\ ~Appended(j) /\ \A i \in Cells : Appended(i)' <=> Appended(i) \/ i = j
      /\ AppendInv'
  <2>1. MemoryInv /\ FreesInv /\ SparesInv /\ AppendInv
    BY DEF OwnInv
  <2> QED BY <1>2, <1>3, <2>1, AppendedNext
<1>5. /\ ID_SHARED_BAG \in BagKinds /\ ID_PRIVATE_BAG \in BagKinds
      /\ SpareChunkId(ID_SHARED_BAG, j) \in SpareIds /\ SpareChunkId(ID_PRIVATE_BAG, j) \in SpareIds
      /\ SpareChunkId(ID_SHARED_BAG, j) # SpareChunkId(ID_PRIVATE_BAG, j)
  <2>1. ID_SHARED_BAG \in BagKinds /\ ID_PRIVATE_BAG \in BagKinds /\ ID_SHARED_BAG # ID_PRIVATE_BAG
    BY DEF BagKinds, ID_SHARED_BAG, ID_PRIVATE_BAG
  <2> QED BY <1>4, <2>1, SpareIdsOfBags
<1>6. build = "STDCHUNKALLOC" \/ (~SpareMissing(SpareChunkId(ID_SHARED_BAG, j)) /\ ~SpareMissing(SpareChunkId(ID_PRIVATE_BAG, j)))
  BY <1>3, <1>4, <1>5, SpareLocated
<1>7. ~exits
  BY <1>6
<1>8. /\ build = "STDCHUNKALLOC" => MemoryFor(2)
      /\ Relinks(chunk', chunk, bag1.back, bag2.front, spare1, spare2)
      /\ particles' = [particles EXCEPT ![j] = [front |-> bag1.front, back |-> bag2.back]]
      /\ Restarts(particlesNext', particlesNext, j, spare1, spare2)
      /\ allocated' = allocated \cup {spare1, spare2}
      /\ spareLocation' = IF build = "SPARE_LOC_OPTIMIZED"
                          THEN [spareLocation EXCEPT ![t] = NextLocation(place2)] ELSE spareLocation
      /\ UNCHANGED <<freeChunks, cumulative, lastSpare, failed>>
  <2>1. /\ build = "STDCHUNKALLOC" => MemoryFor(2)
        /\ chunk' = [a \in Addresses |->
             CASE a = bag1.back -> Linked(a, bag2)
               [] a \in {spare1, spare2} -> [chunk[a] EXCEPT !.size = 0, !.next = NULL]
               [] OTHER -> chunk[a]]
        /\ particles' = [particles EXCEPT ![j] = [front |-> bag1.front, back |-> bag2.back]]
        /\ particlesNext' = [particlesNext EXCEPT
             ![ID_SHARED_BAG][j] = [front |-> spare1, back |-> spare1],
             ![ID_PRIVATE_BAG][j] = [front |-> spare2, back |-> spare2]]
        /\ allocated' = allocated \cup {spare1, spare2}
        /\ spareLocation' = IF build = "SPARE_LOC_OPTIMIZED"
                            THEN [spareLocation EXCEPT ![t] = NextLocation(place2)] ELSE spareLocation
        /\ UNCHANGED <<freeChunks, cumulative, lastSpare, failed>>
    BY <1>3, <1>7, Zenon DEF AppendCell
  <2> HIDE DEF bag1, bag2, spare1, spare2, place2
  <2>2. Relinks(chunk', chunk, bag1.back, bag2.front, spare1, spare2)
    BY <2>1 DEF Relinks, Linked
  <2>3. Restarts(particlesNext', particlesNext, j, spare1, spare2)
    BY <2>1 DEF Restarts
  <2> QED BY <2>1, <2>2, <2>3
<1> HIDE DEF bag1, bag2, spare1, spare2, place2, exits
<1>9. PICK shared, private : shared = bag1 /\ private = bag2
  OBVIOUS
<1>10. PICK c1, c2 : c1 = spare1 /\ c2 = spare2
  OBVIOUS
<1>11. /\ Relinks(chunk', chunk, shared.back, private.front, c1, c2)
       /\ particles' = [particles EXCEPT ![j] = [front |-> shared.front, back |-> private.back]]
       /\ Restarts(particlesNext', particlesNext, j, c1, c2)
       /\ allocated' = allocated \cup {c1, c2}
       /\ shared = particlesNext[ID_SHARED_BAG][j] /\ private = particlesNext[ID_PRIVATE_BAG][j]
  BY <1>8, <1>9, <1>10 DEF bag1, bag2
<1>12. \A u \in Threads : Idle(u) /\ InHand(u) = {} /\ InHand(u)' = {}
  <2>1. \A u \in Threads : Idle(u)
    BY <1>3, PushingInMove
  <2> QED BY <1>3, <2>1 DEF Idle, InHand
<1>13. allocated \subseteq Addresses /\ \A u \in Threads : Elements(freeChunks[u]) \subseteq allocated
  BY <1>4 DEF MemoryInv, FreesInv
<1>14. /\ \A a : a \in Listed <=> a \in allocated /\ ~\E u \in Threads : a \in Elements(freeChunks[u]) /\ a \notin Handed
       /\ \A a : a \in Listed' <=> a \in allocated' /\ ~\E u \in Threads : a \in Elements(freeChunks[u]) /\ a \notin Handed'
  BY <1>8, <1>12 DEF Listed, Loose
<1>15. /\ c1 \in Addresses \ Listed /\ c2 \in Addresses \ Listed /\ c1 # c2
       /\ Listed' = Listed \cup {c1, c2} /\ allocated' \subseteq Addresses /\ FreesInv' /\ SparesInv'
  <2>1. CASE build = "STDCHUNKALLOC"
    <3>1. c1 = Malloc(allocated) /\ c2 = Malloc(allocated \cup {c1})
      BY <1>10, <2>1 DEF spare1, spare2
    <3>2. Cardinality(Addresses \ allocated) >= 2
      BY <1>8, <2>1 DEF MemoryFor
    <3>3. c1 \in Addresses \ allocated /\ Cardinality(Addresses \ (allocated \cup {c1})) >= 1
      BY <1>13, <3>1, <3>2, RoomLeft
    <3>4. c2 \in Addresses \ (allocated \cup {c1})
      BY <1>13, <3>1, <3>3, RoomLeft
    <3>5. Handed = {} /\ Handed' = {}
      BY <1>3, <2>1 DEF Handed
    <3>6. \A a : a \in Listed' <=> a \in Listed \cup {c1, c2}
      BY <1>11, <1>13, <1>14, <3>3, <3>4, <3>5
    <3>7. FreesInv'
      BY <1>3, <1>4, <1>8, <1>11 DEF FreesInv
    <3>8. SparesInv'
      BY <1>3, <2>1 DEF SparesInv
    <3> QED BY <1>11, <1>13, <1>14, <3>3, <3>4, <3>6, <3>7, <3>8
  <2>2. CASE build # "STDCHUNKALLOC"
    <3> DEFINE id1 == SpareChunkId(ID_SHARED_BAG, j)  id2 == SpareChunkId(ID_PRIVATE_BAG, j)
    <3>1. PICK loc1, loc2 : /\ loc1 = SpareLocationOf(spareLocation[t], ID_SHARED_BAG, j)
                            /\ loc2 = SpareLocationOf(NextLocation(loc1), ID_PRIVATE_BAG, j)
                            /\ loc1 = place1 /\ loc2 = place2
      BY DEF place2
    <3>2. c1 = SpareChunk(loc1) /\ c2 = SpareChunk(loc2)
      BY <1>10, <2>2, <3>1 DEF spare1, spare2
    <3>3. /\ c1 = Spare(id1) /\ c2 = Spare(id2)
          /\ build = "SPARE_LOC_OPTIMIZED" /\ 2 * (j + 1) \in SpareIds /\ ~MustLocate(NextLocation(loc2)) =>
               NextLocation(loc2) = locate_spare_chunk(2 * (j + 1))
      BY <1>2, <1>3, <1>4, <2>2, <3>1, <3>2, SparesOfCell
    <3>4. c1 # c2
      BY <1>3, <1>4, <1>5, <2>2, <3>3, SparesApart
    <3>5. ASSUME NEW id \in SpareIds
          PROVE  \E u \in Threads : Spare(id) \in Elements(freeChunks[u])
      <4> DEFINE k == ListOfSpare(id)
      <4>1. k \in Threads /\ PlaceOfSpare(id) \in 1 .. FREE_INDEX(k)
        BY <1>3, <1>4, <2>2, SpareLocated
      <4>2. Spare(id) = freeChunks[k][PlaceOfSpare(id)]
        BY DEF Spare
      <4> HIDE DEF k
      <4>3. DOMAIN freeChunks[k] = 1 .. FREE_INDEX(k)
        BY <1>4, <4>1 DEF MemoryInv, FREE_INDEX
      <4> QED BY <4>1, <4>2, <4>3 DEF Elements
    <3>6. /\ \E u \in Threads : c1 \in Elements(freeChunks[u])
          /\ \E u \in Threads : c2 \in Elements(freeChunks[u])
      BY <1>5, <3>3, <3>5
    <3>7. ASSUME NEW a, a \in Handed PROVE a # c1 /\ a # c2
      <4>1. PICK kind \in BagKinds, i \in {i2 \in Cells : Appended(i2)} : a = Spare(SpareChunkId(kind, i))
        BY <1>3, <2>2, <3>7 DEF Handed
      <4>2. SpareChunkId(kind, i) \in SpareIds /\ SpareChunkId(kind, i) # id1 /\ SpareChunkId(kind, i) # id2
        BY <1>4, <1>5, <4>1, SpareIdsOfBags
      <4> QED BY <1>3, <1>4, <1>5, <2>2, <3>3, <4>1, <4>2, SparesApart
    <3>8. \A a : a \in Handed' <=> a \in Handed \/ a = c1 \/ a = c2
      <4>1. \A id : Spare(id)' = Spare(id)
        BY <1>3, <1>8 DEF Spare, PlaceOfSpare, ListOfSpare, FREE_INDEX, number_of_spare_chunks
      <4>2. \A a : a \in Handed <=> \E kind \in BagKinds, i \in Cells : Appended(i) /\ a = Spare(SpareChunkId(kind, i))
        BY <1>3, <2>2 DEF Handed
      <4>3. \A a : a \in Handed' <=> \E kind \in BagKinds, i \in Cells : Appended(i)' /\ a = Spare(SpareChunkId(kind, i))
        BY <1>3, <2>2, <4>1 DEF Handed, SpareChunkId
      <4>4. \A kind \in BagKinds : kind = ID_SHARED_BAG \/ kind = ID_PRIVATE_BAG
        BY DEF BagKinds
      <4>5. \A a : (\E kind \in BagKinds : a = Spare(SpareChunkId(kind, j))) <=> a = c1 \/ a = c2
        BY <1>5, <3>3, <4>4
      <4> QED BY <1>4, <4>2, <4>3, <4>5
    <3>9. allocated' = allocated /\ c1 \in allocated /\ c2 \in allocated
      BY <1>11, <1>13, <3>6
    <3>10. \A a : a \in Listed' <=> a \in Listed \cup {c1, c2}
      BY <1>14, <3>8, <3>9
    <3>11. c1 \notin Listed /\ c2 \notin Listed
      BY <1>14, <3>6, <3>7
    <3>12. FreesInv'
      BY <1>3, <1>4, <1>8, <3>9 DEF FreesInv
    <3>13. SparesInv'
      <4>1. /\ cumulative' = [k \in Threads |-> SumTo(k, freeChunks')]
            /\ lastSpare' = Max({k \in Threads : cumulative'[k] <= number_of_spare_chunks})
            /\ SumTo(NbThreads, freeChunks') >= number_of_spare_chunks
        BY <1>3, <1>4, <1>8, <2>2 DEF SparesInv
      <4>2. /\ \A loc : MustLocate(loc)' <=> MustLocate(loc)
            /\ \A id : locate_spare_chunk(id)' = locate_spare_chunk(id)
            /\ \A u \in Threads : CellBlock(u)' = CellBlock(u)
            /\ number_of_spare_chunks' = number_of_spare_chunks
        BY <1>3, <1>8 DEF MustLocate, locate_spare_chunk, ListOfSpare, FREE_INDEX, CellBlock, number_of_spare_chunks
      <4>3. spareLocation = [u \in Threads |-> spareLocation[u]]
        BY <1>3, <1>4, <2>2 DEF SparesInv
      <4>4. /\ spareLocation' = [u \in Threads |-> spareLocation'[u]]
            /\ \A u \in Threads : u # t => spareLocation'[u] = spareLocation[u]
            /\ build = "SPARE_LOC_OPTIMIZED" => spareLocation'[t] = NextLocation(loc2)
        BY <1>8, <3>1, <4>3
      <4>5. appendNext'[t] = j + 1 /\ \A u \in Threads : u # t => appendNext'[u] = appendNext[u]
        BY <1>3, <1>4 DEF AppendInv
      <4>6. ASSUME build = "SPARE_LOC_OPTIMIZED", NEW u \in Threads, appendNext'[u] \in CellBlock(u),
                   ~MustLocate(spareLocation'[u])
            PROVE  spareLocation'[u] = locate_spare_chunk(2 * appendNext'[u])
        <5>1. CASE u = t
          <6>1. j + 1 \in Cells
            BY <4>5, <4>6, <5>1, CellsShared
          <6>2. 2 * (j + 1) \in SpareIds
            BY <1>5, <6>1, SpareIdsOfBags
          <6> QED BY <3>3, <4>4, <4>5, <4>6, <5>1, <6>2
        <5>2. CASE u # t
          BY <1>3, <1>4, <2>2, <4>4, <4>5, <4>6, <5>2 DEF SparesInv
        <5> QED BY <5>1, <5>2
      <4>7. build' = "SPARE_LOC_OPTIMIZED" =>
              \A u \in Threads : appendNext'[u] \in CellBlock(u)' /\ ~MustLocate(spareLocation[u])'
                                   => spareLocation'[u] = locate_spare_chunk(2 * appendNext[u])'
        <5>1. \A u \in Threads : locate_spare_chunk(2 * appendNext[u])' = locate_spare_chunk(2 * appendNext'[u])
          BY <1>3, <1>8 DEF locate_spare_chunk, ListOfSpare, FREE_INDEX, number_of_spare_chunks
        <5>2. \A u \in Threads : MustLocate(spareLocation[u])' <=> MustLocate(spareLocation'[u])
          BY <1>3 DEF MustLocate
        <5> QED BY <1>3, <4>2, <4>6, <5>1, <5>2
      <4> QED BY <4>1, <4>2, <4>4, <4>7 DEF SparesInv
    <3> QED BY <1>13, <3>4, <3>9, <3>10, <3>11, <3>12, <3>13
  <2> QED BY <2>1, <2>2
<1>16. UNCHANGED <<build, freeChunks, push, phase, loop, tiles, i_color>>
  BY <1>3, <1>8
<1>17. OwnInv' /\ OwnersJoin(j)
  BY <1>1, <1>2, <1>3, <1>11, <1>15, <1>16, AppendedKeeps
<1>18. AppendsChunks(j, c1, c2)
  BY <1>11, <1>15 DEF AppendsChunks
<1> QED BY <1>2, <1>15, <1>17, <1>18

-----------------------------------------------------------------------------
(* The first state.                                                         *)

\* The chunks that the program makes first.
TotalMade == IF build = "STDCHUNKALLOC" THEN 3 * NumCells ELSE total_nb_chunks

LEMMA ChunksMade ==
  /\ TotalMade \in Nat /\ TotalMade <= MaxChunks
  /\ 3 * NumCells <= TotalMade /\ 3 * NumCells <= MaxChunks
<1>1. NumCells \in Nat /\ NumCells > 0 /\ CHUNK_SIZE \in Nat /\ CHUNK_SIZE > 0 /\ nbParticles \in Nat
  BY NumCellsNatural, ChunkAssumption
<1> DEFINE q == (nbParticles + CHUNK_SIZE - 1) \div CHUNK_SIZE
<1>2. q \in Nat
  <2> DEFINE n == nbParticles + CHUNK_SIZE - 1
  <2>1. n \in Nat
    BY <1>1
  <2> HIDE DEF n
  <2>2. n \div CHUNK_SIZE \in Nat
    BY <1>1, <2>1, Division
  <2> QED BY <2>2 DEF n
<1>3. total_nb_chunks = q + 2 * (2 * NumCells)
  BY DEF total_nb_chunks, CeilingDiv, number_of_spare_chunks
<1>4. total_nb_chunks <= MaxChunks /\ MaxChunks \in Nat
  BY MemoryAssumption, ChunkAssumption
<1> HIDE DEF q
<1> QED BY <1>1, <1>2, <1>3, <1>4 DEF TotalMade

\* The fronts of the bags are the last chunks made, one each.
LEMMA FirstFronts ==
  ASSUME Init
  PROVE  /\ \A j \in Cells : Fronts[CurrentId(j)] = TotalMade - 2 * NumCells - j
         /\ \A kind \in BagKinds, j \in Cells : Fronts[NextId(kind, j)] = TotalMade - 2 * j - kind
         /\ \A kind \in BagKinds, j \in Cells : particlesNext[kind][j].back = TotalMade - 2 * j - kind
         /\ \A j \in Cells : particles[j].front = TotalMade - 2 * NumCells - j
         /\ particles \in [Cells -> Bag] /\ particlesNext \in [BagKinds -> [Cells -> Bag]]
<1>1. /\ phase = "create" /\ InitBags
  BY DEF Init
<1> DEFINE total == TotalMade
<1>2. /\ particlesNext = [kind \in BagKinds |-> [j \in Cells |-> EmptyBag(total + 1 - (2 * j + kind + 1))]]
      /\ particles = [j \in Cells |-> EmptyBag(total + 1 - (2 * NumCells + j + 1))]
  BY <1>1 DEF InitBags, TotalMade
<1>3. total \in Nat /\ 3 * NumCells <= total /\ total <= MaxChunks /\ NumCells \in Nat
  BY ChunksMade, NumCellsNatural
<1> HIDE DEF total
<1>4. ASSUME NEW j \in Cells
      PROVE  /\ total + 1 - (2 * NumCells + j + 1) = total - 2 * NumCells - j
             /\ total - 2 * NumCells - j \in 0 .. MaxChunks
             /\ \A kind \in BagKinds : /\ total + 1 - (2 * j + kind + 1) = total - 2 * j - kind
                                       /\ total - 2 * j - kind \in 0 .. MaxChunks
  BY <1>3, ChunkAssumption DEF Cells, BagKinds, ID_PRIVATE_BAG, ID_SHARED_BAG
<1>5. \A c \in 0 .. MaxChunks : EmptyBag(c) \in Bag /\ EmptyBag(c).front = c /\ EmptyBag(c).back = c
  BY DEF EmptyBag, Bag
<1>6. \A j \in Cells : particles[j] \in Bag /\ particles[j].front = total - 2 * NumCells - j
  BY <1>2, <1>4, <1>5
<1>7. \A kind \in BagKinds, j \in Cells :
        /\ particlesNext[kind][j] \in Bag
        /\ particlesNext[kind][j].front = total - 2 * j - kind /\ particlesNext[kind][j].back = total - 2 * j - kind
  BY <1>2, <1>4, <1>5
<1>8. particles \in [Cells -> Bag] /\ particlesNext \in [BagKinds -> [Cells -> Bag]]
  BY <1>2, <1>6, <1>7
<1>9. /\ \A j \in Cells : Fronts[CurrentId(j)] = particles[j].front
      /\ \A kind \in BagKinds, j \in Cells : Fronts[NextId(kind, j)] = particlesNext[kind][j].front
  BY <1>1, FrontsAtCreation, FrontOf DEF NextFront
<1> QED BY <1>6, <1>7, <1>8, <1>9 DEF total

\* Each of the last chunks is the front of one list.
LEMMA FrontsApart ==
  ASSUME Init
  PROVE  /\ \A l \in ListIds : Fronts[l] \in TotalMade - 3 * NumCells + 1 .. TotalMade
         /\ \A l, m \in ListIds : Fronts[l] = Fronts[m] => l = m
         /\ \A a \in TotalMade - 3 * NumCells + 1 .. TotalMade : \E l \in ListIds : Fronts[l] = a
<1> DEFINE total == TotalMade  N == NumCells
<1>1. /\ \A j \in Cells : Fronts[CurrentId(j)] = total - 2 * N - j
      /\ \A kind \in BagKinds, j \in Cells : Fronts[NextId(kind, j)] = total - 2 * j - kind
  BY FirstFronts
<1>2. total \in Nat /\ N \in Nat /\ Cells = 0 .. N - 1 /\ BagKinds = {0, 1}
  BY ChunksMade, NumCellsNatural DEF Cells, BagKinds, ID_PRIVATE_BAG, ID_SHARED_BAG
<1>3. /\ \A j \in Cells : CurrentId(j) \in ListIds
      /\ \A kind \in BagKinds, j \in Cells : NextId(kind, j) \in ListIds
      /\ \A l \in ListIds : \/ \E j \in Cells : l = CurrentId(j)
                            \/ \E kind \in BagKinds, j \in Cells : l = NextId(kind, j)
  BY Ids
<1> HIDE DEF total, N
<1>4. \A l \in ListIds : Fronts[l] \in total - 3 * N + 1 .. total
  <2> TAKE l \in ListIds
  <2>1. ASSUME NEW j \in Cells, l = CurrentId(j) PROVE Fronts[l] \in total - 3 * N + 1 .. total
    BY <1>1, <1>2, <2>1
  <2>2. ASSUME NEW kind \in BagKinds, NEW j \in Cells, l = NextId(kind, j) PROVE Fronts[l] \in total - 3 * N + 1 .. total
    <3>1. Fronts[l] = total - 2 * j - kind
      BY <1>1, <2>2
    <3> QED BY <1>2, <3>1
  <2> QED BY <1>3, <2>1, <2>2
<1>5. \A l, m \in ListIds : Fronts[l] = Fronts[m] => l = m
  <2> SUFFICES ASSUME NEW l \in ListIds, NEW m \in ListIds, Fronts[l] = Fronts[m] PROVE l = m
    OBVIOUS
  <2>1. ASSUME NEW i \in Cells, NEW j \in Cells, l = CurrentId(i), m = CurrentId(j) PROVE i = j
    BY <1>1, <1>2, <2>1
  <2>2. ASSUME NEW i \in Cells, NEW kind \in BagKinds, NEW j \in Cells PROVE Fronts[CurrentId(i)] # Fronts[NextId(kind, j)]
    <3>1. Fronts[CurrentId(i)] = total - 2 * N - i /\ Fronts[NextId(kind, j)] = total - 2 * j - kind
      BY <1>1
    <3>2. 2 * j + kind < 2 * N + i
      BY <1>2
    <3> QED BY <1>2, <3>1, <3>2
  <2>3. ASSUME NEW i \in Cells, NEW j \in Cells, NEW k \in BagKinds, NEW kind \in BagKinds,
               l = NextId(k, i), m = NextId(kind, j)
        PROVE  i = j /\ k = kind
    <3>1. total - 2 * i - k = total - 2 * j - kind
      BY <1>1, <2>3
    <3> QED BY <1>2, <3>1
  <2>4. CASE \E i \in Cells : l = CurrentId(i)
    BY <1>3, <2>1, <2>2, <2>4
  <2>5. CASE \E k \in BagKinds, i \in Cells : l = NextId(k, i)
    BY <1>3, <2>2, <2>3, <2>5
  <2> QED BY <1>3, <2>4, <2>5
<1>6. \A a \in total - 3 * N + 1 .. total : \E l \in ListIds : Fronts[l] = a
  <2> TAKE a \in total - 3 * N + 1 .. total
  <2> DEFINE n == total - a  j == n \div 2  kind == n % 2
  <2>1. n \in 0 .. 3 * N - 1 /\ a = total - n
    BY <1>2
  <2>2. CASE n >= 2 * N
    <3> DEFINE i == n - 2 * N
    <3>1. i \in Cells /\ total - 2 * N - i = a
      BY <1>2, <2>1, <2>2
    <3> HIDE DEF i
    <3> QED BY <1>1, <1>3, <3>1
  <2>3. CASE ~(n >= 2 * N)
    <3> HIDE DEF n
    <3>1. j \in Nat /\ kind \in 0 .. 1 /\ n = 2 * j + kind
      BY <2>1, Division
    <3> HIDE DEF j, kind
    <3>2. j \in Cells /\ kind \in BagKinds /\ total - 2 * j - kind = a
      BY <1>2, <2>1, <2>3, <3>1
    <3> QED BY <1>1, <1>3, <3>2
  <2> QED BY <2>2, <2>3
<1> QED BY <1>4, <1>5, <1>6 DEF total, N

LEMMA OwnInvAtStart ==
  ASSUME Init
  PROVE  OwnInv /\ \A c \in Listed : chunk[c].size = 0
<1> DEFINE total == TotalMade  first == total - 3 * NumCells + 1
<1>1. /\ build \in Builds /\ InitBags /\ push = [t \in Threads |-> NoPush] /\ failed = FALSE
      /\ phase = "create" /\ loop = [t \in Threads |-> NoTile] /\ appendNext = FirstCells
  BY ConfigurationAssumption DEF Init
<1>2. /\ allocated = 1 .. total
      /\ freeChunks = [t \in Threads |-> IF t = 0 THEN [i \in 1 .. total - 3 * NumCells |-> i] ELSE <<>>]
      /\ chunk = [a \in Addresses |->
           [size |-> IF a \in total + 1 - 3 * NumCells .. total THEN 0 ELSE CHUNK_SIZE,
            next |-> NULL, item |-> [i \in Slots |-> NoParticle]]]
  BY <1>1 DEF InitBags, TotalMade
<1>3. total \in Nat /\ 3 * NumCells <= total /\ total <= MaxChunks /\ NumCells \in Nat /\ MaxChunks \in Nat
  BY ChunksMade, NumCellsNatural, ChunkAssumption
<1>4. /\ \A l \in ListIds : Fronts[l] \in first .. total
      /\ \A l, m \in ListIds : Fronts[l] = Fronts[m] => l = m
      /\ \A a \in first .. total : \E l \in ListIds : Fronts[l] = a
  BY FrontsApart
<1>5. /\ \A kind \in BagKinds, j \in Cells : particlesNext[kind][j].back = Fronts[NextId(kind, j)]
      /\ \A j \in Cells : Fronts[CurrentId(j)] = particles[j].front
      /\ particles \in [Cells -> Bag] /\ particlesNext \in [BagKinds -> [Cells -> Bag]]
  BY FirstFronts
<1>6. \A t \in Threads : push[t] = NoPush /\ Idle(t) /\ NoPush.kind = ID_PRIVATE_BAG /\ NoPush.pc = "idle"
  BY <1>1 DEF NoPush, Idle
<1> HIDE DEF total
<1>7. /\ first \in Nat /\ first >= 1 /\ first .. total \subseteq Addresses /\ NULL \notin first .. total
      /\ 1 .. total - 3 * NumCells \subseteq 1 .. total /\ 1 .. total \subseteq Addresses
      /\ total + 1 - 3 * NumCells = first /\ first - 1 = total - 3 * NumCells
  BY <1>3 DEF Addresses, NULL
<1> HIDE DEF first
<1>8. \A a \in Addresses : /\ ChunkShape(chunk[a]) /\ chunk[a].next = NULL /\ ~(chunk[a].size > CHUNK_SIZE)
                           /\ a \in first .. total => chunk[a].size = 0
  <2> TAKE a \in Addresses
  <2> DEFINE size == IF a \in first .. total THEN 0 ELSE CHUNK_SIZE
             item == [i \in Slots |-> NoParticle]
  <2>1. chunk[a] = [size |-> size, next |-> NULL, item |-> item]
    BY <1>2, <1>7
  <2>2. item = [i \in Slots |-> item[i]]
    OBVIOUS
  <2>3. size \in Nat /\ ~(size > CHUNK_SIZE) /\ (a \in first .. total => size = 0) /\ NULL \in 0 .. MaxChunks
    BY ChunkAssumption DEF NULL
  <2> HIDE DEF size, item
  <2> QED BY <2>1, <2>2, <2>3 DEF ChunkShape
<1>9. \A t \in Threads : /\ freeChunks[t] \in Seq(Addresses)
                         /\ Elements(freeChunks[t]) = IF t = 0 THEN 1 .. first - 1 ELSE {}
                         /\ \A i, k \in DOMAIN freeChunks[t] : freeChunks[t][i] = freeChunks[t][k] => i = k
                         /\ t # 0 => freeChunks[t] = <<>>
  <2> TAKE t \in Threads
  <2> DEFINE m == total - 3 * NumCells  s == [i \in 1 .. m |-> i]
  <2>1. freeChunks[t] = IF t = 0 THEN s ELSE <<>>
    BY <1>2
  <2>2. m \in Nat /\ 1 .. m \subseteq Addresses /\ m = first - 1
    BY <1>3, <1>7
  <2> HIDE DEF m
  <2>3. s \in Seq(Addresses) /\ DOMAIN s = 1 .. m /\ \A i \in 1 .. m : s[i] = i
    BY <2>2
  <2> HIDE DEF s
  <2>4. Elements(s) = 1 .. m
    BY <2>3 DEF Elements
  <2>5. <<>> \in Seq(Addresses) /\ DOMAIN <<>> = {} /\ Elements(<<>>) = {}
    BY DEF Elements
  <2>6. CASE t = 0
    BY <2>1, <2>2, <2>3, <2>4, <2>6
  <2>7. CASE t # 0
    BY <2>1, <2>5, <2>7
  <2> QED BY <2>6, <2>7
<1>10. MemoryInv
  <2>1. freeChunks \in [Threads -> Seq(Addresses)]
    BY <1>2, <1>9
  <2>2. chunk = [a \in Addresses |-> chunk[a]]
    BY <1>2
  <2> QED BY <1>1, <1>2, <1>5, <1>7, <1>8, <2>1, <2>2 DEF MemoryInv
<1>11. FreesInv
  <2>1. \A t \in Threads : Elements(freeChunks[t]) \subseteq allocated
    BY <1>2, <1>7, <1>9
  <2>2. \A t, u \in Threads : t # u => Elements(freeChunks[t]) \cap Elements(freeChunks[u]) = {}
    BY <1>9
  <2> QED BY <1>9, <2>1, <2>2 DEF FreesInv
<1>12. HandsInv /\ LoopInv /\ AppendInv /\ SparesInv
  <2>1. HandsInv
    BY <1>6 DEF HandsInv, Idle
  <2>2. LoopInv
    <3>1. \A t \in Threads : loop[t] = NoTile
      BY <1>1
    <3>2. NoTile.my_chunk = NULL
      BY DEF NoTile
    <3> QED BY <3>1, <3>2 DEF LoopInv, Working
  <2>3. AppendInv
    BY <1>1, FirstCellsFirst DEF AppendInv
  <2> QED BY <1>1, <2>1, <2>2, <2>3 DEF SparesInv
<1>13. \A a : a \in Listed <=> a \in first .. total
  <2>1. Listed = {a \in allocated : ~OutOfLists(a)}
    BY <1>1, ListedOutsideAppend DEF ListedNow
  <2>2. 0 \in Threads
    BY ChunkAssumption DEF Threads
  <2>3. \A a : OutOfLists(a) <=> a \in 1 .. first - 1
    BY <1>6, <1>9, <2>2 DEF OutOfLists, Idle
  <2>4. \A a \in 1 .. total : a \notin 1 .. first - 1 <=> a \in first .. total
    BY <1>3, <1>7
  <2>5. \A a \in first .. total : a \in 1 .. total
    BY <1>3, <1>7
  <2> QED BY <1>2, <2>1, <2>3, <2>4, <2>5
<1> DEFINE own == [a \in Addresses |-> IF a \in first .. total THEN CHOOSE l \in ListIds : Fronts[l] = a
                                       ELSE CurrentId(0)]
           zero == [a \in Addresses |-> 0]
<1>14. PICK owner, pos : owner = own /\ pos = zero
  OBVIOUS
<1>15. /\ owner \in [Addresses -> ListIds] /\ pos \in [Addresses -> Nat]
       /\ \A a \in first .. total : owner[a] \in ListIds /\ Fronts[owner[a]] = a /\ pos[a] = 0
  <2>1. CurrentId(0) \in ListIds
    BY <1>3, NumCellsNatural, Ids DEF Cells
  <2>2. \A a \in first .. total : (CHOOSE l \in ListIds : Fronts[l] = a) \in ListIds /\ Fronts[CHOOSE l \in ListIds : Fronts[l] = a] = a
    BY <1>4
  <2> QED BY <1>7, <1>14, <2>1, <2>2
<1> HIDE DEF own, zero
<1>16. \A l \in ListIds : Fronts[l] \in first .. total /\ owner[Fronts[l]] = l
  BY <1>4, <1>15
<1>17. Chained(owner, pos, Links, Listed, Fronts)
  <2>1. Listed \subseteq Addresses
    BY <1>7, <1>13
  <2>2. \A c \in Listed : pos[c] = 0 /\ Links[c] = NULL
    BY <1>8, <1>13, <1>15, <2>1, LinksAre
  <2>3. \A c, d \in Listed : owner[c] = owner[d] => c = d
    BY <1>13, <1>15
  <2>4. \A l \in ListIds : Fronts[l] \in Listed /\ owner[Fronts[l]] = l
    BY <1>13, <1>16
  <2>5. \A c \in Listed : Fronts[owner[c]] # NULL /\ pos[c] <= pos[Fronts[owner[c]]]
    BY <1>7, <1>13, <1>15
  <2> QED BY <1>15, <2>1, <2>2, <2>3, <2>4, <2>5 DEF Chained
<1>18. Heads(owner, pos)
  <2>1. \A l \in ListIds : Fronts[l] # NULL /\ Fronts[l] \in Listed /\ owner[Fronts[l]] = l /\ pos[Fronts[l]] = 0
    BY <1>7, <1>13, <1>15, <1>16
  <2> QED BY <1>5, <2>1, Ids DEF Heads
<1>19. LateInv
  BY <1>8 DEF LateInv
<1>20. BehindInv(owner)
  <2> SUFFICES ASSUME NEW c \in Listed, NEW kind \in BagKinds, NEW j \in Cells,
                      owner[c] = NextId(kind, j), c # NextFront(kind, j)
               PROVE  FALSE
    BY DEF BehindInv
  <2> QED BY <1>13, <1>15, FrontOf
<1>21. \A l \in ListIds : ~Full(Fronts[l])
  BY <1>7, <1>8, <1>16, ChunkAssumption DEF Full
<1>22. ExtendersInv
  <2>1. \A t \in Threads : ~Extends(t)
    BY <1>6 DEF Extends
  <2>2. \A kind \in BagKinds, j \in Cells : ~Full(NextFront(kind, j))
    BY <1>21, FrontOf, Ids
  <2> QED BY <2>1, <2>2 DEF ExtendersInv
<1>23. CreateInv
  BY <1>5, <1>21, Ids DEF CreateInv
<1>24. PushesInv(owner)
  <2>1. ID_PRIVATE_BAG \in BagKinds
    BY DEF BagKinds
  <2> QED BY <1>6, <2>1 DEF PushesInv, PushAt
<1>25. ListsInv(owner, pos)
  BY <1>17, <1>18, <1>19, <1>20, <1>22, <1>23, <1>24 DEF ListsInv
<1> QED BY <1>7, <1>8, <1>10, <1>11, <1>12, <1>13, <1>25 DEF OwnInv

-----------------------------------------------------------------------------
(* Every step keeps the invariant.                                          *)

LEMMA StutterKeeps ==
  ASSUME OwnInv, UNCHANGED vars
  PROVE  OwnInv'
<1>1. /\ UNCHANGED <<build, chunk, allocated, freeChunks, cumulative, lastSpare, spareLocation, particles>>
      /\ UNCHANGED <<particlesNext, push, failed, phase, i_color, tiles, loop, appendNext>>
  BY DEF vars, bagVars, simVars
<1>2. PICK owner, pos : ListsInv(owner, pos)
  BY DEF OwnInv
<1>3. Fronts' = Fronts
  BY <1>1, FrontsSame
<1>4. Handed' = Handed
  <2>1. \A id : Spare(id)' = Spare(id)
    BY <1>1 DEF Spare, PlaceOfSpare, ListOfSpare, FREE_INDEX
  <2>2. \A j : Appended(j)' <=> Appended(j)
    BY <1>1 DEF Appended
  <2> QED BY <1>1, <2>1, <2>2 DEF Handed
<1>5. Listed' = Listed
  BY <1>1, <1>4 DEF Listed, Loose, InHand
<1>6. MemoryInv' /\ FreesInv' /\ LoopInv' /\ AppendInv'
  BY <1>1 DEF OwnInv, MemoryInv, FreesInv, LoopInv, AppendInv, Working
<1>7. HandsInv'
  BY <1>1 DEF OwnInv, HandsInv, Target
<1>8. SparesInv'
  BY <1>1 DEF OwnInv, SparesInv, MustLocate, locate_spare_chunk, ListOfSpare, FREE_INDEX, SumTo
<1>9. ListsInv(owner, pos)'
  <2>1. Heads(owner, pos)'
    BY <1>1, <1>2, <1>3, <1>5 DEF ListsInv, Heads, Pending, Appended
  <2>2. LateInv' /\ ExtendersInv'
    BY <1>1, <1>2 DEF ListsInv, LateInv, ExtendersInv, Extends, Full, NextFront
  <2>3. PushesInv(owner)'
    BY <1>1, <1>2, <1>5 DEF ListsInv, PushesInv, PushAt, Full, Target
  <2>4. Links' = Links
    BY <1>1 DEF Links
  <2>5. BehindInv(owner)' /\ CreateInv'
    BY <1>1, <1>2, <1>5 DEF ListsInv, BehindInv, CreateInv, Full, NextFront
  <2> QED BY <1>2, <1>3, <1>5, <2>1, <2>2, <2>3, <2>4, <2>5 DEF ListsInv
<1> QED BY <1>6, <1>7, <1>8, <1>9 DEF OwnInv

LEMMA OwnInvKept ==
  ASSUME EvenTiling, PInv, OwnInv, [Next]_vars
  PROVE  OwnInv'
<1>1. SerialPushExclusive
  BY TilesKeepThreadsApart
<1>2. CASE UNCHANGED vars
  BY <1>2, StutterKeeps
<1>3. CASE MainStep
  BY <1>3, CreateParticleKeeps, StartSimulationKeeps, NextColorKeeps, SingleKeeps, EndStepKeeps DEF MainStep
<1>4. ASSUME NEW t \in Threads, ThreadStep(t)
      PROVE  OwnInv'
  BY <1>1, <1>4, TakeTileKeeps, MoveParticleKeeps, PushParticleKeeps, DepositChargeKeeps, NextChunkKeeps,
     AppendAndReduceKeeps DEF ThreadStep
<1> QED BY <1>2, <1>3, <1>4 DEF Next

-----------------------------------------------------------------------------
(* What the invariant says of the chunks.                                   *)

\* The list of a bag holds the chunks that it owns, and ends.
LEMMA ChunksOfList ==
  ASSUME OwnInv, NEW owner, NEW pos, ListsInv(owner, pos), NEW l \in ListIds
  PROVE  ChunksFrom(Fronts[l]) = {e \in Listed : owner[e] = l} /\ ListEnds(Fronts[l])
<1> DEFINE c == Fronts[l]
<1>1. LinksTyped
  BY LinksAre DEF OwnInv
<1>2. Chained(owner, pos, Links, Listed, Fronts)
  BY DEF ListsInv
<1>3. /\ \A a \in ListIds : Fronts[a] # NULL => Fronts[a] \in Listed /\ owner[Fronts[a]] = a
      /\ \A e \in Listed : Fronts[owner[e]] # NULL /\ pos[e] <= pos[Fronts[owner[e]]]
      /\ Listed \subseteq Addresses /\ pos \in [Addresses -> Nat]
      /\ \A e \in Listed : IF pos[e] = 0 THEN Links[e] = NULL
                           ELSE Links[e] \in Listed /\ owner[Links[e]] = owner[e] /\ pos[Links[e]] = pos[e] - 1
  BY <1>2 DEF Chained
<1>4. CASE c = NULL
  <2>1. ChunksFrom(NULL) = {}
    <3>1. PICK f : /\ \A a : ChunksFrom(a) = f[MaxChunks][a]
                   /\ \A k \in 0 .. MaxChunks, a \in 0 .. MaxChunks :
                        f[k][a] = IF a = NULL \/ k = 0 THEN {} ELSE {a} \cup f[k - 1][chunk[a].next]
      BY <1>1, ChunksFollow
    <3>2. MaxChunks \in 0 .. MaxChunks /\ NULL \in 0 .. MaxChunks
      BY ChunkAssumption DEF NULL
    <3> QED BY <3>1, <3>2
  <2>2. {e \in Listed : owner[e] = l} = {}
    BY <1>3, <1>4
  <2> QED BY <1>4, <2>1, <2>2 DEF ListEnds
<1>5. CASE c # NULL
  <2>1. c \in Listed /\ owner[c] = l
    BY <1>3, <1>5
  <2>2. ChunksFrom(c) = Behind(owner, pos, Listed, c)
    BY <1>1, <1>2, <2>1, ChunksBehind
  <2>3. Behind(owner, pos, Listed, c) = {e \in Listed : owner[e] = l}
    BY <1>3, <2>1 DEF Behind
  <2> DEFINE S == {pos[e] : e \in {a \in Listed : owner[a] = l}}
  <2>4. PICK n \in S : \A m \in S : n <= m
    <3>1. S \subseteq Nat /\ S # {}
      BY <1>3, <2>1
    <3> HIDE DEF S
    <3> QED BY <3>1, LeastNatural
  <2>5. PICK e \in Listed : owner[e] = l /\ pos[e] = n
    OBVIOUS
  <2>6. pos[e] = 0
    <3> SUFFICES ASSUME pos[e] # 0 PROVE FALSE
      OBVIOUS
    <3>1. Links[e] \in Listed /\ owner[Links[e]] = l /\ pos[Links[e]] = n - 1
      BY <1>3, <2>5
    <3>2. n <= n - 1
      BY <2>4, <3>1
    <3>3. n \in Nat
      BY <1>3, <2>5
    <3> QED BY <3>2, <3>3
  <2>7. e \in Addresses /\ Links[e] = NULL
    BY <1>3, <2>5, <2>6
  <2>8. chunk[e].next = NULL
    BY <2>7, LinksAre
  <2>9. e \in ChunksFrom(c)
    BY <2>2, <2>3, <2>5
  <2> QED BY <2>2, <2>3, <2>8, <2>9 DEF ListEnds
<1> QED BY <1>4, <1>5

FreeId(t) == <<"free", t, 0>>
HandId(t) == <<"hand", t, 0>>

LEMMA ListsAre ==
  /\ ListIds \subseteq Lists
  /\ \A t \in Threads : FreeId(t) \in Lists /\ HandId(t) \in Lists
  /\ \A l \in Lists : l \in ListIds \/ \E t \in Threads : l = FreeId(t) \/ l = HandId(t)
<1>1. \A j \in Cells : CurrentId(j) \in Lists
  BY DEF CurrentId, Lists
<1>2. \A kind \in BagKinds, j \in Cells : NextId(kind, j) \in Lists
  BY DEF NextId, Lists
<1>3. \A t \in Threads : FreeId(t) \in Lists /\ HandId(t) \in Lists
  BY DEF FreeId, HandId, Lists
<1>4. ASSUME NEW l \in Lists
      PROVE  l \in ListIds \/ \E t \in Threads : l = FreeId(t) \/ l = HandId(t)
  BY DEF Lists, CurrentId, NextId, FreeId, HandId, ListIds
<1> QED BY <1>1, <1>2, <1>3, <1>4, Ids

LEMMA ChunksOf ==
  ASSUME OwnInv, NEW owner, NEW pos, ListsInv(owner, pos)
  PROVE  /\ \A l \in ListIds : ChunksIn(l) = {e \in Listed : owner[e] = l}
         /\ \A t \in Threads : ChunksIn(FreeId(t)) = Elements(freeChunks[t])
         /\ \A t \in Threads : ChunksIn(HandId(t)) = InHand(t)
<1>1. \A j \in Cells : ChunksIn(CurrentId(j)) = ChunksFrom(CurrentFront(j))
  BY DEF ChunksIn, CurrentId, CurrentChunks
<1>2. \A kind \in BagKinds, j \in Cells : ChunksIn(NextId(kind, j)) = ChunksFrom(NextFront(kind, j))
  BY DEF ChunksIn, NextId, NextChunks
<1>3. \A l \in ListIds : ChunksIn(l) = ChunksFrom(Fronts[l])
  BY <1>1, <1>2, FrontOf, Ids
<1>4. \A l \in ListIds : ChunksIn(l) = {e \in Listed : owner[e] = l}
  BY <1>3, ChunksOfList
<1>5. \A t \in Threads : ChunksIn(FreeId(t)) = Elements(freeChunks[t])
  BY DEF ChunksIn, FreeId
<1>6. \A t \in Threads : ChunksIn(HandId(t)) = InHand(t)
  BY DEF ChunksIn, HandId
<1> QED BY <1>4, <1>5, <1>6

LEMMA EachChunkInOneList ==
  ASSUME OwnInv
  PROVE  ChunkOwnedOnce
<1> SUFFICES ASSUME phase # "append" PROVE ChunkOwnedOnce
  BY DEF ChunkOwnedOnce
<1>1. PICK owner, pos : ListsInv(owner, pos)
  BY DEF OwnInv
<1>2. Listed = {a \in allocated : ~OutOfLists(a)}
  BY ListedOutsideAppend DEF ListedNow
<1>3. \A c \in Listed : owner[c] \in ListIds
  BY <1>1, ListedIsMemory DEF ListsInv, Chained, OwnInv
<1>4. /\ \A l \in ListIds : ChunksIn(l) = {e \in Listed : owner[e] = l}
      /\ \A t \in Threads : ChunksIn(FreeId(t)) = Elements(freeChunks[t])
      /\ \A t \in Threads : ChunksIn(HandId(t)) = InHand(t)
  BY <1>1, ChunksOf
<1>5. \A t \in Threads : \A c : c \in InHand(t) <=> push[t].pc = "publish" /\ push[t].c = c
  BY DEF InHand
<1>6. /\ \A t \in Threads : Elements(freeChunks[t]) \subseteq allocated
      /\ \A t, u \in Threads : t # u => Elements(freeChunks[t]) \cap Elements(freeChunks[u]) = {}
      /\ \A t \in Threads : \A i, k \in DOMAIN freeChunks[t] : freeChunks[t][i] = freeChunks[t][k] => i = k
  BY DEF OwnInv, FreesInv
<1>7. \A t \in Threads : push[t].pc = "publish" =>
        /\ push[t].c \in allocated
        /\ \A u \in Threads : push[t].c \notin Elements(freeChunks[u])
        /\ \A u \in Threads : u # t /\ push[u].pc = "publish" => push[u].c # push[t].c
  BY DEF OwnInv, HandsInv
<1> DEFINE owners == UNION {ChunksIn(l) \X {l} : l \in Lists}
<1>8. \A o : o \in owners <=> \E l \in Lists : \E c \in ChunksIn(l) : o = <<c, l>>
  OBVIOUS
<1> HIDE DEF owners
<1>9. ASSUME NEW l \in Lists, NEW c \in ChunksIn(l)
      PROVE  /\ c \in allocated
             /\ \/ l \in ListIds /\ c \in Listed /\ owner[c] = l
                \/ \E t \in Threads : l = FreeId(t) /\ c \in Elements(freeChunks[t])
                \/ \E t \in Threads : l = HandId(t) /\ c \in InHand(t)
  <2>1. CASE l \in ListIds
    BY <1>2, <1>4, <2>1
  <2>2. ASSUME NEW t \in Threads, l = FreeId(t)
        PROVE  c \in Elements(freeChunks[t]) /\ c \in allocated
    BY <1>4, <1>6, <2>2
  <2>3. ASSUME NEW t \in Threads, l = HandId(t)
        PROVE  c \in InHand(t) /\ c \in allocated
    BY <1>4, <1>5, <1>7, <2>3
  <2> QED BY <2>1, <2>2, <2>3, ListsAre
<1>10. ASSUME NEW c \in allocated
       PROVE  \E l \in Lists : c \in ChunksIn(l)
  <2>1. CASE OutOfLists(c)
    BY <1>4, <1>5, <2>1, ListsAre DEF OutOfLists
  <2>2. CASE ~OutOfLists(c)
    <3>1. c \in Listed /\ owner[c] \in ListIds
      BY <1>2, <1>3, <2>2
    <3> QED BY <1>4, <3>1, ListsAre
  <2> QED BY <2>1, <2>2
<1>11. ASSUME NEW l \in Lists, NEW m \in Lists, NEW c \in ChunksIn(l), c \in ChunksIn(m)
       PROVE  l = m
  <2>1. \A t \in Threads : c \in Elements(freeChunks[t]) \/ c \in InHand(t) => OutOfLists(c)
    BY <1>5 DEF OutOfLists
  <2>2. OutOfLists(c) => c \notin Listed
    BY <1>2
  <2>3. \A t, u \in Threads : c \in Elements(freeChunks[t]) => c \notin InHand(u)
    BY <1>5, <1>7
  <2>4. \A t, u \in Threads : c \in Elements(freeChunks[t]) /\ c \in Elements(freeChunks[u]) => t = u
    BY <1>6
  <2>5. \A t, u \in Threads : c \in InHand(t) /\ c \in InHand(u) => t = u
    BY <1>5, <1>7
  <2> QED BY <1>9, <1>11, <2>1, <2>2, <2>3, <2>4, <2>5
<1>12. {o[1] : o \in owners} = allocated
  <2>1. ASSUME NEW o \in owners PROVE o[1] \in allocated
    <3>1. PICK l \in Lists : \E c \in ChunksIn(l) : o = <<c, l>>
      BY <1>8
    <3>2. PICK c \in ChunksIn(l) : o = <<c, l>>
      BY <3>1
    <3> QED BY <1>9, <3>2
  <2>2. ASSUME NEW c \in allocated PROVE \E o \in owners : o[1] = c
    <3>1. PICK l \in Lists : c \in ChunksIn(l)
      BY <1>10
    <3>2. <<c, l>> \in owners
      BY <1>8, <3>1
    <3> QED BY <3>2
  <2> QED BY <2>1, <2>2
<1>13. \A o, other \in owners : o[1] = other[1] => o = other
  BY <1>8, <1>11
<1>14. \A j \in Cells : ListEnds(CurrentFront(j)) /\ \A kind \in BagKinds : ListEnds(NextFront(kind, j))
  BY <1>1, ChunksOfList, FrontOf, Ids
<1> QED BY <1>6, <1>12, <1>13, <1>14 DEF ChunkOwnedOnce, owners

LEMMA NoLateIncrement ==
  ASSUME OwnInv
  PROVE  SizesSettled
<1> SUFFICES ASSUME NEW j \in Cells, NEW c \in CurrentChunks(j) PROVE chunk[c].size <= CHUNK_SIZE
  BY DEF SizesSettled
<1>1. PICK owner, pos : ListsInv(owner, pos)
  BY DEF OwnInv
<1>2. c \in Listed /\ owner[c] = CurrentId(j)
  BY <1>1, ChunksOfList, FrontOf, Ids DEF CurrentChunks
<1>3. c \in Addresses /\ chunk[c].size \in Nat
  BY <1>2, ListedIsMemory DEF OwnInv, MemoryInv, ChunkShape
<1>4. ASSUME NEW t \in Threads, push[t].pc = "undo", push[t].c = c
      PROVE  FALSE
  BY <1>1, <1>2, <1>4, Ids DEF ListsInv, PushesInv, PushAt
<1>5. ~(chunk[c].size > CHUNK_SIZE)
  BY <1>1, <1>3, <1>4 DEF ListsInv, LateInv
<1> QED BY <1>3, <1>5, ChunkAssumption

\* The chunk that a push writes is the one that it holds, in the list of a bag, or one
\* that it has just allocated.
LEMMA PushWrites ==
  ASSUME PInv, OwnInv, NEW t \in Threads, PushParticle(t), NEW c \in Addresses, chunk'[c] # chunk[c]
  PROVE  /\ c \in allocated \cup allocated'
         /\ ~\E u \in Threads : c \in Elements(freeChunks[u]) /\ c \in Elements(freeChunks'[u])
<1>1. PICK owner, pos : ListsInv(owner, pos)
  BY DEF OwnInv
<1>2. MemoryInv /\ FreesInv /\ HandsInv /\ chunk = [a \in Addresses |-> chunk[a]]
  BY DEF OwnInv, MemoryInv
<1>3. phase = "move" /\ phase' = phase
  BY DEF PushParticle, simVars
<1>4. Listed = {a \in allocated : ~OutOfLists(a)}
  BY <1>3, ListedOutsideAppend DEF ListedNow
<1>5. PushAt(owner, t)
  BY <1>1 DEF ListsInv, PushesInv
<1>6. CASE c \in Listed
  BY <1>4, <1>6 DEF OutOfLists
<1>7. CASE c \notin Listed
  <2> DEFINE w == push[t].c
  <2>1. push[t].pc \in {"serial_write", "capture", "write", "undo"} => w # c
    BY <1>5, <1>7 DEF PushAt
  <2>2. ASSUME SerialWrite(t) PROVE FALSE
    <3>1. WritesItem(chunk', chunk, w, push[t].index + 1, push[t].index, push[t].p)
      BY <2>2, Zenon DEF SerialWrite, WritesItem
    <3>2. w # c /\ w \in Addresses /\ ChunkShape(chunk[w])
      BY <2>1, <2>2, <1>5, <1>2, ListedIsMemory DEF SerialWrite, PushAt, MemoryInv
    <3> DEFINE x == WithItem(chunk[w], push[t].index + 1, push[t].index, push[t].p)
    <3>3. chunk' = [chunk EXCEPT ![w] = x]
      BY <1>2, <3>1, <3>2, SizeAndItem
    <3> HIDE DEF w, x
    <3> QED BY <3>2, <3>3, <1>2
  <2>3. ~Capture(t) /\ ~WriteItem(t) /\ ~UndoCapture(t)
    BY <1>2, <2>1 DEF Capture, WriteItem, UndoCapture
  <2>4. ~SerialTake(t) /\ ~ReadFront(t) /\ ~LeaveSpin(t) /\ ~Publish(t)
    BY DEF SerialTake, ReadFront, LeaveSpin, Publish, memoryVars
  <2>5. ExtendBag(t)
    BY <2>2, <2>3, <2>4 DEF PushParticle, PushStep
  <2> DEFINE n == ChunkAllocated(t)
  <2>6. /\ n \in Addresses
        /\ allocated' = allocated \cup {n}
        /\ \A u \in Threads : Elements(freeChunks'[u]) = Elements(freeChunks[u]) \ {n}
    <3>1. phase # "create" /\ phase' = phase /\ (UsesFreelist(t) \/ MemoryFor(1)) /\ chunk_alloc(t)
      BY <1>3, <2>5 DEF ExtendBag
    <3> QED BY <1>2, <3>1, AllocatedChunk
  <2>7. c = n
    <3>1. chunk' = [chunk EXCEPT ![n].size = 0, ![n].next = Target(t).front]
      BY <2>5 DEF ExtendBag
    <3> HIDE DEF n
    <3> QED BY <1>2, <3>1
  <2> QED BY <2>6, <2>7
<1> QED BY <1>6, <1>7

LEMMA FreeChunksKept ==
  ASSUME PInv, OwnInv, [Next]_vars, phase = "move", NEW c \in Addresses, chunk'[c] # chunk[c]
  PROVE  /\ c \in allocated \cup allocated'
         /\ ~\E t \in Threads : c \in Elements(freeChunks[t]) /\ c \in Elements(freeChunks'[t])
<1>1. ~UNCHANGED vars
  BY DEF vars, bagVars
<1>2. ~MainStep
  BY DEF MainStep, CreateParticle, StartSimulation, NextColor, Single, EndStep, ColorDone, bagVars
<1>3. PICK t \in Threads : ThreadStep(t)
  BY <1>1, <1>2 DEF Next
<1>4. ~TakeTile(t) /\ ~MoveParticle(t) /\ ~DepositCharge(t) /\ ~NextChunk(t) /\ ~AppendAndReduce(t)
  BY DEF TakeTile, MoveParticle, DepositCharge, NextChunk, AppendAndReduce, bagVars, memoryVars
<1>5. PushParticle(t)
  BY <1>3, <1>4 DEF ThreadStep
<1> QED BY <1>5, PushWrites

-----------------------------------------------------------------------------
(* The theorems.  The sizes of the mesh must be those for which the colours  *)
(* keep the private regions apart: without that, two threads push serially   *)
(* into one bag, and both may add a chunk in front of it.                    *)

\* No chunk of memory is lost and none is in two lists: posix_memalign'ed or from
\* a freelist, extended in front of a bag, joined by bag_append, freed by the
\* particle loop, each belongs to one bag, one freelist or one thread, once, and
\* every bag's list ends.
THEOREM ChunksAlwaysOwnedOnce ==
  ASSUME EvenTiling
  PROVE  Spec => []ChunkOwnedOnce
<1>1. Init => OwnInv
  BY OwnInvAtStart
<1>2. PInv /\ OwnInv /\ [Next]_vars => OwnInv'
  BY OwnInvKept
<1>3. OwnInv => ChunkOwnedOnce
  BY EachChunkInOneList
<1> QED BY <1>1, <1>2, <1>3, PInvAtStart, PInvKept, PTL DEF Spec

\* The late increments of the size of a full chunk are all undone by the time the
\* particle loop reads that size, at the next step: bag_push_concurrent resets it
\* before it looks for another chunk, and the chunk is in a bag that is only read
\* after the barrier.
THEOREM SizesAlwaysSettled ==
  ASSUME EvenTiling
  PROVE  Spec => []SizesSettled
<1>1. Init => OwnInv
  BY OwnInvAtStart
<1>2. PInv /\ OwnInv /\ [Next]_vars => OwnInv'
  BY OwnInvKept
<1>3. OwnInv => SizesSettled
  BY NoLateIncrement
<1> QED BY <1>1, <1>2, <1>3, PInvAtStart, PInvKept, PTL DEF Spec

\* A push never writes a chunk that is in a freelist or that malloc owns, however
\* late its undo or its item is.
THEOREM FreeChunksNeverWritten ==
  ASSUME EvenTiling
  PROVE  Spec => FreeChunksUntouched
<1>1. Init => OwnInv
  BY OwnInvAtStart
<1>2. PInv /\ OwnInv /\ [Next]_vars => OwnInv'
  BY OwnInvKept
<1> DEFINE Untouched ==
      phase = "move" =>
        \A c \in Addresses : chunk'[c] # chunk[c] =>
          /\ c \in allocated \cup allocated'
          /\ ~\E t \in Threads : c \in Elements(freeChunks[t]) /\ c \in Elements(freeChunks'[t])
<1>3. PInv /\ OwnInv /\ [Next]_vars => [Untouched]_vars
  BY FreeChunksKept
<1>4. FreeChunksUntouched <=> [][Untouched]_vars
  BY DEF FreeChunksUntouched
<1> QED BY <1>1, <1>2, <1>3, <1>4, PInvAtStart, PInvKept, PTL DEF Spec

=============================================================================
