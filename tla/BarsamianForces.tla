-------------------------- MODULE BarsamianForces --------------------------
(***************************************************************************)
(* The hand-written parallel simulation, in numbers, with the counters of  *)
(* pushes (simulations/pic_barsamian_single_instr.c: the program of        *)
(* pic_barsamian.c, whose threads and bags are in PicBarsamian).  Here the *)
(* charge and mass of a particle are those of a.charge and a.mass, -1 and  *)
(* 1, and OMP_TILE_SIZE is TileEdge.                                       *)
(***************************************************************************)
EXTENDS PicSingle

LOCAL Pic == INSTANCE MiniPic

HandPushKeys == {7, 8}   \* CONTRIB_NONATOMIC_PUSH, CONTRIB_ATOMIC_PUSH

\* Speeds stay in the units of the area until the leap frog.
Created(a, p) ==
  LET co(d) == Pic!Truncated(p.pos[d], cellX(a, d))
  IN  [cell |-> Pic!cellOfCoord(a.grid, Axes(LAMBDA d : co(d))), speed |-> p.speed,
       pos |-> Axes(LAMBDA d : Single(a, (p.pos[d] \div a.unit[d]) - a.parts * co(d)))]

\* E_field: the field at the corners of a cell, in parts of a cell per step, and what
\* a particle gets of it.
x_field_factor(a, d) == Over(a.charge * a.stepDuration * a.stepDuration, a.mass * a.unit[d])
E_field(a, field, c) ==
  LET corners == Pic!getFieldAtCorners(a.grid, field, c)
  IN  [k \in Corners |-> Axes(LAMBDA d : x_field_factor(a, d) * corners[k][d])]
Interpolated(a, field, p) == Pic!matrix_vect_mul(CornerCoeffs(a, p.pos), E_field(a, field, p.cell))

\* Loops on all cells give a block of cells to each thread.
staticThread(a, c) == c \div (((nbCells(a) - 1) \div a.nbThreads) + 1)

\* Each thread adds to the accumulators of its own, by cell and corner, then
\* convert_charge_to_rho_3d_per_per gives each corner what the cells around it have.
charge_accu(a, particles, thread) ==
  [t \in 0 .. a.nbThreads - 1 |-> [c \in CellIds(a) |-> [k \in Corners |->
     MapThenSumSet(LAMBDA i : CornerCoeffs(a, particles[i].pos)[k],
                   {i \in DOMAIN particles : particles[i].cell = c /\ thread[i] = t})]]]
reduced_charge_accu(a, accu) ==
  [c \in CellIds(a) |-> [k \in Corners |-> accu[0][c][k] + MapThenSumSet(LAMBDA t : accu[t][c][k], 1 .. a.nbThreads - 1)]]
FieldFrom(a, particles, thread) ==
  FieldOf(a, reducedDeposit(a, reduced_charge_accu(a, charge_accu(a, particles, thread))))

InitialField(a, created) == FieldFrom(a, created, [i \in DOMAIN created |-> staticThread(a, created[i].cell)])
HalfStepBack(a, field, p) ==
  [p EXCEPT !.speed = Axes(LAMBDA d : Over(@[d] * a.stepDuration, a.unit[d]) - Over(Interpolated(a, field, p)[d], 2))]

-----------------------------------------------------------------------------
\* Tiles of one colour start every two tiles; the last one of an axis may be cut.
TileEdge == 2
TileBorders == TileEdge \div 2
ColorStarts(a, d) ==
  {color * TileEdge + 2 * TileEdge * i : color \in 0 .. 1, i \in 0 .. a.grid[d]} \cap 0 .. a.grid[d] - 1
TileOf(a, i, d) == CHOOSE first \in ColorStarts(a, d) : i \in first .. first + TileEdge - 1
LastOf(a, first, d) == IF first + TileEdge - 1 < a.grid[d] THEN first + TileEdge - 1 ELSE a.grid[d] - 1

\* A tile is given to any thread.
tileThread(a, c) ==
  LET co == Pic!coordOfCell(a.grid, c)
  IN  MapThenSumSet(LAMBDA d : TileOf(a, co[d], d) \div TileEdge, Dims) % a.nbThreads
NearTile(a, from, to) ==
  \A d \in Dims :
    LET first == TileOf(a, Pic!coordOfCell(a.grid, from)[d], d)
        last == LastOf(a, first, d)
        ic == Pic!coordOfCell(a.grid, to)[d]
    IN  \/ ic \in first - TileBorders .. last + TileBorders
        \/ first = 0 /\ ic >= a.grid[d] - TileBorders
        \/ last = a.grid[d] - 1 /\ ic <= TileBorders - 1

CreatedState(a) ==
  LET created == [i \in DOMAIN a.particles |-> Created(a, a.particles[i])]
      field == InitialField(a, created)
  IN  [state |-> [particles |-> [i \in DOMAIN created |-> HalfStepBack(a, field, created[i])], field |-> field],
       contrib |-> contrib_reset(HandPushKeys)]
TimeStep(a, s) ==
  LET from == s.state.particles
      Moved(p) == Stored(a, Relocated(a, p, Pic!vect_add(p.speed, Interpolated(a, s.state.field, p))))
      moved == [i \in DOMAIN from |-> Moved(from[i])]
      thread == [i \in DOMAIN from |-> tileThread(a, from[i].cell)]
      key == [i \in DOMAIN from |-> IF NearTile(a, from[i].cell, moved[i].cell) THEN 7 ELSE 8]
  IN  [state |-> [particles |-> moved, field |-> FieldFrom(a, moved, thread)], contrib |-> Counted(s.contrib, thread, key)]
pic_barsamian_single_instr(a) == Reported(Steps(a, CreatedState(a), LAMBDA s : TimeStep(a, s)))

=============================================================================
