------------------------------- MODULE MiniPic -------------------------------
(***************************************************************************)
(* The simulations of case_studies/minipic: particles that move in a given *)
(* electric field.  Lengths are counted in half cells, fields in eighths,  *)
(* so that interpolation stays in integers.  Quotients of doubles are made *)
(* once multiplied by a field, by which they are exact; an int is truncated *)
(* where the program converts to one.                                      *)
(***************************************************************************)
EXTENDS Integers, Sequences, FiniteSetsExt, TLC

Dims == {"x", "y", "z"}
Corners == 0 .. 7

\* Integer quotients, truncated like a conversion to int.
Truncated(a, b) == IF a < 0 THEN -((-a) \div b) ELSE a \div b

vect_add(v1, v2) == [d \in Dims |-> v1[d] + v2[d]]
vect_mul(k, v) == [d \in Dims |-> k * v[d]]
\* vect_mul by the quotient of two doubles.
vect_mul_quotient(a, b, v) == [d \in Dims |-> Truncated(a * v[d], b)]
NoVect == [d \in Dims |-> 0]

\* int_of_double of a number of half cells: below a negative whole number too.
int_of_double(half) == Truncated(half, 2) - (IF half < 0 THEN 1 ELSE 0)
relativePos(half) == half - 2 * int_of_double(half)

\* Corner k is at distance 1 on the axes of its bits.
Bit(k, d) == (k \div (CASE d = "x" -> 4 [] d = "y" -> 2 [] d = "z" -> 1)) % 2
CornerWeight(half, bit) == IF bit = 1 THEN relativePos(half) ELSE 2 - relativePos(half)
corner_interpolation_coeff(pos) ==
  [k \in Corners |-> CornerWeight(pos["x"], Bit(k, "x")) * CornerWeight(pos["y"], Bit(k, "y"))
                                                         * CornerWeight(pos["z"], Bit(k, "z"))]
matrix_vect_mul(coeffs, matrix) ==
  [d \in Dims |-> MapThenSumSet(LAMBDA k : coeffs[k] * matrix[k][d], Corners)]

\* n steps of each of the particles in turn.
Simulate(particles, n, Step(_)) ==
  LET after[s \in 0 .. n] == IF s = 0 THEN particles ELSE [i \in DOMAIN particles |-> Step(after[s - 1][i])]
  IN  after[n]

-----------------------------------------------------------------------------
\* micropic.cpp, the program given to OptiTrust.
micropic(a) ==
  LET Step(p) ==
        LET fieldAtPos == matrix_vect_mul(corner_interpolation_coeff(p.pos), a.fieldAtCorners)
            accel == vect_mul_quotient(a.pCharge, a.pMass, fieldAtPos)
            speed2 == vect_add(p.speed, vect_mul(a.deltaT, accel))
        IN  [pos |-> vect_add(p.pos, vect_mul(a.deltaT, speed2)), speed |-> speed2]
  IN  Simulate(a.particles, a.nbSteps, Step)

\* micropic_exp.cpp, its output: fields and speeds are scaled around the loop.
\* fieldFactor is declared as an int.
ScaledSpeeds(particles, k) == [i \in DOMAIN particles |-> [particles[i] EXCEPT !.speed = vect_mul(k, @)]]
\* Faulty: speeds stay scaled after the loop.
StillScaled(particles, k) == particles
UnscaledSpeeds(particles, k) == [i \in DOMAIN particles |-> [particles[i] EXCEPT !.speed = vect_mul_quotient(1, k, @)]]
fieldFactor(a) == Truncated(a.deltaT * a.deltaT * a.pCharge, a.pMass)
micropic_exp(a) ==
  LET lFieldAtCorners == [k \in Corners |-> vect_mul(fieldFactor(a), a.fieldAtCorners[k])]
      Step(p) ==
        LET speed2 == vect_add(p.speed, matrix_vect_mul(corner_interpolation_coeff(p.pos), lFieldAtCorners))
        IN  [pos |-> vect_add(p.pos, speed2), speed |-> speed2]
  IN  UnscaledSpeeds(Simulate(ScaledSpeeds(a.particles, a.deltaT), a.nbSteps, Step), a.deltaT)

\* micropic_fixed_width_arrays.cpp: each particle has its charge and its mass, which
\* the copy that is stored back does not receive: the next quotient is 0. / 0.
NaN == [d \in Dims |-> "nan"]
Particle(pos, speed) == [pos |-> pos, speed |-> speed, charge |-> 0, mass |-> 0]
Moved(p, field, stepDuration) ==
  LET fieldAtPos == matrix_vect_mul(corner_interpolation_coeff(p.pos), field)
      accel == vect_mul_quotient(p.charge, p.mass, fieldAtPos)
      speed2 == vect_add(p.speed, vect_mul(stepDuration, accel))
  IN  IF p.mass = 0 THEN Particle(NaN, NaN) ELSE Particle(vect_add(p.pos, vect_mul(stepDuration, speed2)), speed2)
fixed_width_arrays(a) ==
  LET Step(p) == Moved(p, a.fieldAtCorners, a.deltaT)  IN  Simulate(a.particles, a.nbSteps, Step)

-----------------------------------------------------------------------------
\* minipic.cpp: two bags per cell, for the current step and for the next one.
nbCells(grid) == grid["x"] * grid["y"] * grid["z"]
cellOfCoord(grid, v) == (v["x"] * grid["y"] + v["y"]) * grid["z"] + v["z"]
coordOfCell(grid, c) ==
  ("x" :> (c \div grid["z"]) \div grid["y"]) @@ ("y" :> (c \div grid["z"]) % grid["y"]) @@ ("z" :> c % grid["z"])
idCellOfPos(grid, pos) == cellOfCoord(grid, [d \in Dims |-> int_of_double(pos[d])])
wrap(gridSize, a) == ((a % gridSize) + gridSize) % gridSize
indicesOfCorners(grid, c) ==
  [k \in Corners |-> cellOfCoord(grid, [d \in Dims |->
     IF Bit(k, d) = 1 THEN wrap(grid[d], coordOfCell(grid, c)[d] + 1) ELSE coordOfCell(grid, c)[d]])]
getFieldAtCorners(grid, field, c) == [k \in Corners |-> field[indicesOfCorners(grid, c)[k]]]

\* A cell: each particle is pushed into the next bag of the cell that it moves to.
PushNext(a, bags, next, p) == [bags EXCEPT ![next][idCellOfPos(a.grid, p.pos)] = Append(@, p)]
SimulateCell(a, bags, idStep, c) ==
  LET current == idStep % 2
      nbParts == Len(bags[current][c])
      fieldAtCorners == getFieldAtCorners(a.grid, a.field[idStep], c)
      pushed[i \in 0 .. nbParts] ==
        IF i = 0 THEN bags
        ELSE PushNext(a, pushed[i - 1], (idStep + 1) % 2, Moved(bags[current][c][i], fieldAtCorners, a.deltaT))
  IN  [pushed[nbParts] EXCEPT ![current][c] = <<>>]
SimulateStep(a, bags, idStep) ==
  LET upto[c \in 0 .. nbCells(a.grid)] == IF c = 0 THEN bags ELSE SimulateCell(a, upto[c - 1], idStep, c - 1)
  IN  upto[nbCells(a.grid)]
\* A cell computed from a position that is not a number is undefined, and so is then
\* everything.
Undefined == <<>>
Weightless(bags, idStep) == \E c \in DOMAIN bags[idStep % 2] : \E i \in DOMAIN bags[idStep % 2][c] : bags[idStep % 2][c][i].mass = 0
simulate(a) ==
  LET after[s \in 0 .. a.nbSteps] ==
        IF s = 0 THEN a.bags
        ELSE IF after[s - 1] = Undefined \/ Weightless(after[s - 1], s - 1) THEN Undefined
        ELSE SimulateStep(a, after[s - 1], s - 1)
  IN  after[a.nbSteps]

=============================================================================
