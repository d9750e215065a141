------------------------------- MODULE Kernels -------------------------------
(***************************************************************************)
(* The case studies that are functions of their arguments.  OptiTrust is   *)
(* given a naive program and outputs another one, that must return the     *)
(* same; some of the others were written by hand as its goal.  A step is a *)
(* whole call.                                                             *)
(***************************************************************************)
EXTENDS Integers, Sequences, FiniteSetsExt

CONSTANT KernelCalls   \* records: kernel is the program, args are its arguments

VARIABLES
  kernelCall,     \* the call
  result          \* what it returned, as a sequence: empty until it did

kernelVars == <<kernelCall, result>>

Pic == INSTANCE MiniPic
Forces == INSTANCE PicForces
Single == INSTANCE PicSingle
Hand == INSTANCE BarsamianForces
Clift == INSTANCE CliftForward
Flat == INSTANCE CliftKernels
Mat == INSTANCE MatMul
Rows == INSTANCE RowSumVariants
Small == INSTANCE SmallKernels
Vec == INSTANCE HarrisVectors
Curves == INSTANCE SpaceFillingCurves

kernel == kernelCall.kernel
arg == kernelCall.args

KernelInit == kernelCall \in KernelCalls /\ result = <<>>

Returns(value) == result = <<>> /\ result' = <<value>> /\ UNCHANGED kernelCall
Call(name, value) == kernel = name /\ Returns(value)

RunMiniPic ==
  \/ Call("micropic_exp", Pic!micropic_exp(arg))
  \/ Call("fixed_width_arrays", Pic!fixed_width_arrays(arg))
  \/ Call("minipic", Pic!simulate(arg))

RunPicForces ==
  \/ Call("pic_demo_exp", Forces!pic_demo_exp(arg))
  \/ Call("pic_optimized_stable", Forces!pic_optimized_stable(arg))
  \/ Call("pic_demo_single_exp", Single!pic_demo_single_exp(arg))
  \/ Call("pic_optimized_single_instr", Single!pic_optimized_single_instr(arg))
  \/ Call("pic_barsamian_single_instr", Hand!pic_barsamian_single_instr(arg))

RunClift ==
  \/ Call("generate_prompt", Clift!strip_mined_prompt(arg.m, arg.s, arg.sequence))
  \/ Call("queries", [loop_swap |-> Clift!loop_swap(arg.m, arg.sequence),
                      strip_mining |-> Clift!strip_mining(arg.m, arg.sequence)])
  \/ Call("matvec_quantized", Clift!matvec_quantized(Clift!quantize(arg.vector, arg.GS),
            [i \in DOMAIN arg.matrix |-> Clift!quantize(arg.matrix[i], arg.GS)], arg.GS))

RunCliftKernels ==
  \/ Call("rope", Flat!rope(arg.mem, arg.n, arg.x, arg.pos))
  \/ Call("softmax", Flat!softmax(arg.mem, arg.n, arg.x))
  \/ Call("matmul", Flat!matmul(arg.mem, arg.rows, arg.n, arg.red, arg.x, arg.y, arg.w))
  \/ Call("flat_prompt", Flat!generate_prompt_proc(arg.m, arg.mem, arg.tokens))
  \/ Call("flat_quantized", Flat!matvec_quantized(Flat!quantize(arg.vector, arg.n, arg.GS),
                               Flat!quantize(arg.matrix, arg.n * arg.d, arg.GS), arg.n, arg.d, arg.GS))

RunMatMul == kernel \in Mat!Versions /\ Returns(Mat!Product(kernel, arg))
RunRowSum == kernel \in Rows!Versions /\ Returns(Rows!RowSums(kernel, arg))

RunSort == Call("quicksort", Small!Sort(arg))
RunFloyd ==
  \/ Call("floyd", Small!floyd(arg))
  \/ Call("default_floyd", Small!default_floyd(arg))
  \/ Call("floyd_exp", Small!floyd_exp(arg))
RunBlur == Call("blur_exp", Small!blur_exp(arg))
RunScalarProduct ==
  \/ Call("vectvectmul0", Small!vectvectmul0(arg))
  \/ Call("vectvectmul1", Small!vectvectmul1(arg))
  \/ Call("vectvectmul2", Small!vectvectmul2(arg))
  \/ Call("vv1", Small!vv1(arg))
  \/ Call("vv2", Small!vv2(arg))
RunGpu ==
  \/ Call("hist", Small!hist(arg))
  \/ Call("reduce", Small!reduce(arg))
  \/ Call("vector_add", Small!vector_add(arg))
RunHarrisVectors == Call("regrot_vec", Vec!regrot_vec(arg.image, arg.TILE))
RunCurves ==
  \/ Call("numbering", Curves!Numbering(arg))
  \/ Call("dilated", Curves!Conversions(arg.x))

KernelNext ==
  \/ RunMiniPic \/ RunPicForces \/ RunClift \/ RunCliftKernels \/ RunMatMul \/ RunRowSum \/ RunSort \/ RunFloyd
  \/ RunBlur \/ RunScalarProduct \/ RunGpu \/ RunHarrisVectors \/ RunCurves

KernelSpec == KernelInit /\ [][KernelNext]_kernelVars

-----------------------------------------------------------------------------
Kinematics(p) == [pos |-> p.pos, speed |-> p.speed]
\* The particles of a cell after a step of minipic.cpp: those that move there,
\* as micropic.cpp moves them.
ArriveIn(a, c) ==
  UNION {LET field == Pic!getFieldAtCorners(a.grid, a.field[0], from)
             moved == Pic!micropic([a EXCEPT !.particles = a.bags[0][from], !.fieldAtCorners = field])
         IN  {moved[i] : i \in {j \in DOMAIN moved : Pic!idCellOfPos(a.grid, moved[j].pos) = c}} :
           from \in DOMAIN a.bags[0]}
SameMoves(a, bags) ==
  \A c \in DOMAIN bags[1] :
    /\ bags[0][c] = <<>>
    /\ {Kinematics(bags[1][c][i]) : i \in DOMAIN bags[1][c]} = ArriveIn(a, c)
    /\ Len(bags[1][c]) = Cardinality(ArriveIn(a, c))

\* In the units of the naive simulation, the particles are where it has them, wherever
\* their cells are said to start, and as fast; the fields are the same.
SameForces(a, state) ==
  LET naive == Forces!pic_demo(a)
  IN  /\ state.field = naive.field
      /\ \A i \in DOMAIN a.particles, d \in Pic!Dims :
           LET p == state.particles[i]
               place == a.parts * Pic!coordOfCell(a.grid, p.cell)[d] + p.pos[d]
           IN  /\ (place % (a.parts * a.grid[d])) * a.unit[d] = naive.particles[i].pos[d]
               /\ p.speed[d] * a.unit[d] = naive.particles[i].speed[d] * a.stepDuration

\* Rounded positions stay in their cell, its far faces included, and the threads deposit
\* what a loop on the particles would, from where they are stored; without rounding it is
\* the naive simulation.  Each step pushes each particle once.
SingleRight(a, state) ==
  /\ a.grain = 1 => SameForces(a, state)
  /\ \A i \in DOMAIN state.particles, d \in Pic!Dims :
       LET p == state.particles[i]
       IN  p.cell \in Forces!CellIds(a) /\ p.pos[d] \in 0 .. a.parts /\ p.pos[d] % a.grain = 0
  /\ a.nbSteps > 0 =>
       state.field = Forces!FieldOf(a, Forces!Accumulated(a, state.particles, LAMBDA p : p.cell,
                                                          LAMBDA p : Forces!CornerCoeffs(a, p.pos)))
CountsRight(a, pushes) ==
  MapThenSumSet(LAMBDA key : pushes[key], DOMAIN pushes) = Len(a.particles) * a.nbSteps

\* Element e of query q of token i, all from 0, in the buffers of the programs.
SameQueries(a, buffers) ==
  LET n == Len(a.sequence)
      rows == Clift!demo_verif(a.m, a.sequence)
  IN  \A i \in 0 .. n - 1, q \in 0 .. a.m.q_head_count - 1, e \in 0 .. a.m.head_dim - 1 :
        /\ buffers.loop_swap[(i * a.m.q_head_count + q) * a.m.head_dim + e] = rows[i + 1][q * a.m.head_dim + e]
        /\ buffers.strip_mining[(q * n + i) * a.m.head_dim + e] = rows[i + 1][q * a.m.head_dim + e]

\* A kernel works in place: its cells get the values of the vector, all others are kept.
VectorAt(mem, p, n) == [j \in 1 .. n |-> mem[p + j - 1]]
Rotated(x, pos) ==
  [j \in DOMAIN x |-> IF j % 2 = 1 THEN (x[j] * Clift!cosf(2 * pos) - x[j + 1] * Clift!sinf(2 * pos)) % Clift!P
                                   ELSE (x[j - 1] * Clift!sinf(2 * pos) + x[j] * Clift!cosf(2 * pos)) % Clift!P]
Updated(a, mem, size, vector) ==
  /\ VectorAt(mem, a.x, size) = vector
  /\ \A c \in DOMAIN mem : c \notin a.x .. a.x + size - 1 => mem[c] = a.mem[c]
ProductOf(a) ==
  [c \in 1 .. a.rows * a.n |->
     Clift!matvec(VectorAt(a.mem, a.y + ((c - 1) \div a.n) * a.red, a.red),
                  [j \in 1 .. a.n |-> VectorAt(a.mem, a.w + (j - 1) * a.red, a.red)])[((c - 1) % a.n) + 1]]

\* A number gives back its cell; numbers leave no gap where the grid has the shape of
\* the order, a Hilbert curve goes from a cell to a neighbour, and a Morton number has
\* the bits of the coordinates in turn.
Distance(cell, other) == MapThenSumSet(LAMBDA d : IF cell[d] > other[d] THEN cell[d] - other[d] ELSE other[d] - cell[d], DOMAIN cell)
NumberingRight(g, value) ==
  LET cells == DOMAIN value
      axes == IF g.ncz = 0 THEN <<"x", "y">> ELSE <<"x", "y", "z">>
      noGap == \/ g.curve \in {"ROW_MAJOR", "TILE"}
               \/ g.ncx = g.ncy /\ g.ncz \in {0, g.ncx}
  IN  /\ \A c \in cells : value[c].back = c
      /\ noGap => {value[c].i : c \in cells} = 0 .. Cardinality(cells) - 1
      /\ noGap /\ g.curve = "HILBERT" =>
           \A c, next \in cells : value[next].i = value[c].i + 1 => Distance(c, next) = 1
      /\ g.curve \in {"MORTON", "MORTON_PRECALC"} =>
           \A c \in cells : Curves!Word(value[c].i) =
             UNION {{Len(axes) * i + k - 1 : i \in Curves!Word(c[axes[k]])} : k \in DOMAIN axes}

\* With tables or without, bit i of a number is bit 2 * i, or 3 * i up to 10 bits, of
\* the dilated one, and an increment gives the dilated successor.
DilatedRight(x, value) ==
  LET w == Curves!Word(x)
  IN  /\ value.two = {{2 * i : i \in w}} /\ value.back2 = {w}
      /\ x < 1024 => value.three = {{3 * i : i \in w}} /\ value.back3 = {w}
      /\ value.next = {{2 * i : i \in Curves!Word((x + 1) % 65536)}}

\* The output of micropic agrees with it exactly where the factor of the fields, which it
\* has in an int, is a whole number.
WholeFactor(a) == (a.deltaT * a.deltaT * a.pCharge) % a.pMass = 0
MicropicRight(a, value) == (value = Pic!micropic(a)) <=> (WholeFactor(a) \/ a.nbSteps = 0)

\* The programs whose particles lose their charge and mass agree for a step, and for
\* that step only.
FixedWidthRight(a, value) ==
  LET naive == Pic!micropic(a)
      expected(i) == IF a.nbSteps <= 1 THEN Kinematics(naive[i]) ELSE [pos |-> Pic!NaN, speed |-> Pic!NaN]
  IN  \A i \in DOMAIN naive : Kinematics(value[i]) = expected(i)
MinipicRight(a, bags) == IF a.nbSteps = 1 THEN SameMoves(a, bags) ELSE bags = Pic!Undefined

\* What the program returns is what the naive program returns; a sort is judged by
\* its definition, and so are shortest paths.
Right(value) ==
  \/ kernel = "micropic_exp" /\ MicropicRight(arg, value)
  \/ kernel = "fixed_width_arrays" /\ FixedWidthRight(arg, value)
  \/ kernel = "minipic" /\ MinipicRight(arg, value)
  \/ kernel \in {"pic_demo_exp", "pic_optimized_stable"} /\ SameForces(arg, value)
  \/ kernel = "pic_demo_single_exp" /\ SingleRight(arg, value)
  \/ kernel \in {"pic_optimized_single_instr", "pic_barsamian_single_instr"} /\ SingleRight(arg, value.state) /\ CountsRight(arg, value.pushes)
  \/ kernel = "generate_prompt" /\ value = Clift!generate_prompt_proc(arg.m, arg.s, arg.sequence)
  \/ kernel = "queries" /\ SameQueries(arg, value)
  \/ kernel = "matvec_quantized" /\ value = [i \in DOMAIN arg.matrix |-> Clift!Exact(arg.vector, arg.matrix[i])]
  \/ kernel = "rope" /\ Updated(arg, value, arg.n, Rotated(VectorAt(arg.mem, arg.x, arg.n), arg.pos))
  \/ kernel = "softmax" /\ Updated(arg, value, arg.n, Clift!softmax(VectorAt(arg.mem, arg.x, arg.n)))
  \/ kernel = "matmul" /\ Updated(arg, value, arg.rows * arg.n, ProductOf(arg))
  \/ kernel = "flat_prompt" /\ value = Clift!demo_verif(arg.m, [i \in DOMAIN arg.tokens |-> arg.tokens[i] + 1])
  \/ kernel = "flat_quantized" /\ value = Flat!flat_matvec(arg.vector, arg.matrix, arg.n, arg.d)
  \/ kernel \in Mat!Versions /\ value = Mat!mm1024(arg)
  \/ kernel \in Rows!Versions /\ value = Rows!rowSum(arg)
  \/ kernel = "quicksort" /\ Small!Sorted(arg, value)
  \/ kernel \in {"floyd", "default_floyd", "floyd_exp"} /\ value = Small!ShortestPaths(arg)
  \/ kernel = "blur_exp" /\ value = Small!blur(arg)
  \/ kernel \in {"vectvectmul0", "vectvectmul1", "vectvectmul2", "vv1", "vv2"} /\ value = Small!vect_vect_mul(arg)
  \/ kernel = "hist" /\ \A j \in DOMAIN value : value[j] = Small!countelems(arg, j)
  \/ kernel = "reduce" /\ value = Small!Sum(arg.arr_len, LAMBDA i : arg.arr[i])
  \/ kernel = "vector_add" /\ \A i \in DOMAIN value : value[i] = arg.arr[i] + 5
  \/ kernel = "numbering" /\ NumberingRight(arg, value)
  \/ kernel = "dilated" /\ DilatedRight(arg.x, value)
  \/ kernel = "regrot_vec" /\ Vec!MainColumnsRight(arg.image, value)

\* A call returns what the program that OptiTrust starts from, or its contract,
\* says: a block, a tile, a branch or a stage in another order changes nothing.  Three
\* programs of minipic are known not to, and differ where MicropicRight,
\* FixedWidthRight and MinipicRight say, and nowhere else.
KernelsRight == result # <<>> => Right(result[1])

=============================================================================
