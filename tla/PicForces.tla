----------------------------- MODULE PicForces -----------------------------
(***************************************************************************)
(* The motion of the particles and the charge they deposit, in numbers: in *)
(* simulations/pic_demo.c, in demo/pic_demo_exp.cpp that OptiTrust makes   *)
(* from it, and in simulations/pic_optimized_stable.c, an earlier output.  *)
(*                                                                         *)
(* The naive program keeps positions and speeds in the units of the area.  *)
(* The others keep positions relative to a cell, in cells, and speeds in   *)
(* cells per step; here a cell is divided in equal parts, that positions   *)
(* and speeds count.  a holds the parameters: grid, parts (of a cell), the *)
(* width of each, unit, stepDuration, charge and mass (average densities), *)
(* nbThreads, nbSteps and the particles.                                   *)
(***************************************************************************)
EXTENDS Integers, Sequences, FiniteSetsExt

LOCAL Pic == INSTANCE MiniPic

Dims == Pic!Dims
Corners == Pic!Corners
Axes(Value(_)) == [d \in Dims |-> Value(d)]

\* Exact quotients, also by a negative number.
Over(a, b) == IF b < 0 THEN (-a) \div (-b) ELSE a \div b

\* int_of_double(x / width).
int_of_quotient(x, width) == Pic!Truncated(x, width) - (IF x < 0 THEN 1 ELSE 0)
nbCells(a) == Pic!nbCells(a.grid)
CellIds(a) == 0 .. nbCells(a) - 1
cellX(a, d) == a.parts * a.unit[d]
areaX(a, d) == cellX(a, d) * a.grid[d]

\* computeConstants.
cellVolume(a) == cellX(a, "x") * cellX(a, "y") * cellX(a, "z")
particleCharge(a) == Over(a.charge * nbCells(a) * cellVolume(a), Len(a.particles))
particleMass(a) == Over(a.mass * nbCells(a) * cellVolume(a), Len(a.particles))

-----------------------------------------------------------------------------
\* From the deposit to the field.  The Poisson solver is an external library: any
\* function of the charge density does, as long as it tells the cells apart.
computeRhoFromDeposit(a, deposit) ==
  [c \in CellIds(a) |-> Over(a.charge * nbCells(a) * deposit[c], Len(a.particles))]
computeFieldFromRho(a, rho) ==
  [c \in CellIds(a) |-> Axes(LAMBDA d :
     2 * a.unit[d] * (rho[(c + 1) % nbCells(a)] - rho[c] + (IF d = "y" THEN rho[0] ELSE 0)))]
FieldOf(a, deposit) == computeFieldFromRho(a, computeRhoFromDeposit(a, deposit))

\* The naive program.
fwrap(width, x) ==
  LET r == x - width * Pic!Truncated(x, width)  IN  IF r >= 0 THEN r ELSE r + width
wrapArea(a, pos) == Axes(LAMBDA d : fwrap(areaX(a, d), pos[d]))
idCellOfPos(a, pos) == Pic!cellOfCoord(a.grid, Axes(LAMBDA d : int_of_quotient(pos[d], cellX(a, d))))
relativePos(a, pos, d) == (pos[d] - int_of_quotient(pos[d], cellX(a, d)) * cellX(a, d)) \div a.unit[d]
cornerInterpolationCoeff(a, pos) ==
  LET Side(k, d) == IF Pic!Bit(k, d) = 1 THEN relativePos(a, pos, d) ELSE a.parts - relativePos(a, pos, d)
  IN  [k \in Corners |-> Side(k, "x") * Side(k, "y") * Side(k, "z")]
accelAt(a, field, pos) ==
  Pic!vect_mul(Over(particleCharge(a), particleMass(a)),
    Pic!matrix_vect_mul(cornerInterpolationCoeff(a, pos), Pic!getFieldAtCorners(a.grid, field, idCellOfPos(a, pos))))

\* What is added to each corner by particles, given their cells and coefficients.
Accumulated(a, particles, Cell(_), Coeffs(_)) ==
  LET Added(p, c) == LET indices == Pic!indicesOfCorners(a.grid, Cell(p))
                         coeffs == Coeffs(p)
                     IN  MapThenSumSet(LAMBDA k : IF indices[k] = c THEN coeffs[k] ELSE 0, Corners)
  IN  [c \in CellIds(a) |-> MapThenSumSet(LAMBDA i : Added(particles[i], c), DOMAIN particles)]
accumulateChargeAtCorners(a, particles) ==
  Accumulated(a, particles, LAMBDA p : idCellOfPos(a, p.pos), LAMBDA p : cornerInterpolationCoeff(a, p.pos))

stepLeapFrog(a) ==
  LET field == FieldOf(a, accumulateChargeAtCorners(a, a.particles))
      HalfBack(p) == [p EXCEPT !.speed = Axes(LAMBDA d : @[d] + Over(-a.stepDuration * accelAt(a, field, p.pos)[d], 2))]
  IN  [particles |-> [i \in DOMAIN a.particles |-> HalfBack(a.particles[i])], field |-> field]
step(a, s) ==
  LET Move(p) ==
        LET speed2 == Pic!vect_add(p.speed, Pic!vect_mul(a.stepDuration, accelAt(a, s.field, p.pos)))
        IN  [pos |-> wrapArea(a, Pic!vect_add(p.pos, Pic!vect_mul(a.stepDuration, speed2))), speed |-> speed2]
      moved == [i \in DOMAIN s.particles |-> Move(s.particles[i])]
  IN  [particles |-> moved, field |-> FieldOf(a, accumulateChargeAtCorners(a, moved))]
Steps(a, first, Step(_)) ==
  LET after[n \in 0 .. a.nbSteps] == IF n = 0 THEN first ELSE Step(after[n - 1])  IN  after[a.nbSteps]
pic_demo(a) == Steps(a, stepLeapFrog(a), LAMBDA s : step(a, s))

-----------------------------------------------------------------------------
\* The optimised programs.
coefX == [x |-> <<1, 1, 1, 1, 0, 0, 0, 0>>, y |-> <<1, 1, 0, 0, 1, 1, 0, 0>>, z |-> <<1, 0, 1, 0, 1, 0, 1, 0>>]
signX == [x |-> <<-1, -1, -1, -1, 1, 1, 1, 1>>, y |-> <<-1, -1, 1, 1, -1, -1, 1, 1>>, z |-> <<-1, 1, -1, 1, -1, 1, -1, 1>>]
CornerCoeffs(a, rel) ==
  LET Side(k, d) == a.parts * coefX[d][k + 1] + signX[d][k + 1] * rel[d]
  IN  [k \in Corners |-> Side(k, "x") * Side(k, "y") * Side(k, "z")]

\* addParticle also deposits the charge, as the naive one, from the position in the area.
addParticle(a, p) ==
  LET idCell == idCellOfPos(a, p.pos)
      co == Pic!coordOfCell(a.grid, idCell)
  IN  [cell |-> idCell, pos |-> Axes(LAMBDA d : (p.pos[d] \div a.unit[d]) - a.parts * co[d]),
       speed |-> Axes(LAMBDA d : (p.speed[d] * a.stepDuration) \div a.unit[d])]

\* The factor that the field is multiplied by, in parts of a cell per step.
factorX(a, d) ==
  Over(particleCharge(a) * a.stepDuration * a.stepDuration, particleMass(a) * a.unit[d])
scaledField(a, field, c) ==
  LET corners == Pic!getFieldAtCorners(a.grid, field, c)
  IN  [k \in Corners |-> Axes(LAMBDA d : corners[k][d] * factorX(a, d))]
leapFrogScaled(a, added) ==
  LET field == FieldOf(a, accumulateChargeAtCorners(a, a.particles))
      HalfBack(p) ==
        LET at == Pic!matrix_vect_mul(CornerCoeffs(a, p.pos), scaledField(a, field, p.cell))
        IN  [p EXCEPT !.speed = Axes(LAMBDA d :
               @[d] + Over(Over(Over(-a.stepDuration * particleCharge(a), 2 * particleMass(a)) * at[d], factorX(a, d))
                             * a.stepDuration, a.unit[d]))]
  IN  [particles |-> [i \in DOMAIN added |-> HalfBack(added[i])], field |-> field]

\* The new position: relative to the cell of the floor, whose coordinates are masked
\* by the size of the grid, a power of two.
Relocated(a, p, speed2) ==
  LET from == Pic!coordOfCell(a.grid, p.cell)
      q(d) == int_of_quotient(p.pos[d] + a.parts * from[d] + speed2[d], a.parts)
  IN  [cell |-> Pic!cellOfCoord(a.grid, Axes(LAMBDA d : q(d) % a.grid[d])),
       pos |-> Axes(LAMBDA d : p.pos[d] + a.parts * (from[d] - q(d)) + speed2[d]), speed |-> speed2]

\* The cells that the nest of loops on colours, blocks and cells of a block goes over.
BlockEdge == 2
Along(n, colours, start, next) ==
  {i \in 0 .. 2 * n : \E c \in 0 .. colours - 1, b \in 0 .. n - 1 :
     (\E j \in 0 .. n : b = c * start + j * next) /\ i \in b .. b + BlockEdge - 1}
VisitedCells(a) ==
  {Pic!cellOfCoord(a.grid, v) : v \in {[x |-> i, y |-> j, z |-> k] :
     i \in Along(a.grid["x"], 2, BlockEdge, 2 * BlockEdge), j \in Along(a.grid["y"], 2, BlockEdge, 2 * BlockEdge),
     k \in Along(a.grid["z"], 2, BlockEdge, 2 * BlockEdge)}}
stableVisitedCells(a) ==
  {Pic!cellOfCoord(a.grid, v) : v \in {[x |-> i, y |-> j, z |-> k] :
     i \in Along(a.grid["x"], BlockEdge, 2, BlockEdge * 2), j \in Along(a.grid["y"], BlockEdge, 2, BlockEdge * 2),
     k \in Along(a.grid["z"], BlockEdge, 2, BlockEdge * 2)}}

\* Each thread deposits the charges of its particles at the corners of their new cell,
\* by cell and corner; they are added up per cell, then each cell collects its corner
\* from the eight cells around it.  A block is given to any thread.
threadOf(a, c) ==
  LET co == Pic!coordOfCell(a.grid, c)
  IN  ((co["x"] \div BlockEdge) + (co["y"] \div BlockEdge) + (co["z"] \div BlockEdge)) % a.nbThreads
depositThreadCorners(a, from, moved, t) ==
  [c \in CellIds(a) |-> [k \in Corners |->
     MapThenSumSet(LAMBDA i : CornerCoeffs(a, moved[i].pos)[k],
                   {i \in DOMAIN moved : moved[i].cell = c /\ threadOf(a, from[i].cell) = t})]]
depositCorners(a, from, moved) ==
  LET byThread == [t \in 0 .. a.nbThreads - 1 |-> depositThreadCorners(a, from, moved, t)]
  IN  [c \in CellIds(a) |-> [k \in Corners |->
         byThread[0][c][k] + MapThenSumSet(LAMBDA t : byThread[t][c][k], 1 .. a.nbThreads - 1)]]
bij(a, c, k) ==
  LET co == Pic!coordOfCell(a.grid, c)
  IN  Pic!cellOfCoord(a.grid, Axes(LAMBDA d : IF Pic!Bit(k, d) = 1 THEN Pic!wrap(a.grid[d], co[d] - 1) ELSE co[d]))
reducedDeposit(a, corners) == [c \in CellIds(a) |-> MapThenSumSet(LAMBDA k : corners[bij(a, c, k)][k], Corners)]

\* Store is what the arrays of a chunk make of a particle.
stepScaled(a, s, visited, Store(_)) ==
  LET Move(p) == Store(Relocated(a, p, Pic!vect_add(p.speed,
                   Pic!matrix_vect_mul(CornerCoeffs(a, p.pos), scaledField(a, s.field, p.cell)))))
      moved == [i \in DOMAIN s.particles |-> IF s.particles[i].cell \in visited THEN Move(s.particles[i]) ELSE s.particles[i]]
  IN  [particles |-> moved, field |-> FieldOf(a, reducedDeposit(a, depositCorners(a, s.particles, moved)))]
Added(a) == [i \in DOMAIN a.particles |-> addParticle(a, a.particles[i])]
expStep(a, s) == stepScaled(a, s, VisitedCells(a), LAMBDA p : p)
pic_demo_exp(a) == Steps(a, leapFrogScaled(a, Added(a)), LAMBDA s : expStep(a, s))

\* The older output has the same text for its loops on particles, under its own nest.
stableLeapFrog(a) == leapFrogScaled(a, Added(a))
stableStep(a, s) == stepScaled(a, s, stableVisitedCells(a), LAMBDA p : p)
pic_optimized_stable(a) == Steps(a, stableLeapFrog(a), LAMBDA s : stableStep(a, s))

=============================================================================
