------------------------------ MODULE MCKernels ------------------------------
(***************************************************************************)
(* The calls of the functions of module Kernels that TLC evaluates.        *)
(***************************************************************************)
EXTENDS Integers, Sequences, TLC

Clift == INSTANCE CliftForward
Flat == INSTANCE CliftKernels
Mat == INSTANCE MatMul
Rows == INSTANCE RowSumVariants

\* Each of some programs, on each of some tuples of arguments.
Of(kernels, arguments) == {[kernel |-> k, args |-> a] : k \in kernels, a \in arguments}

Vect(x, y, z) == ("x" :> x) @@ ("y" :> y) @@ ("z" :> z)
\* Multiples of the masses, so that a quotient of doubles by which they are multiplied is
\* exact.  The factor of micropic_exp is whole or not, on either side of zero.
FieldAt(k) == Vect(4 * (k - 3), 4 * (2 - k * k), 4 * ((3 * k) % 5))
PicArgs(n, particles) ==
  [deltaT : {1, 2}, pCharge : {-3, 1, 2}, pMass : {1, 2, 4}, nbSteps : n, particles : particles,
   fieldAtCorners : {[k \in 0 .. 7 |-> FieldAt(k)]}]
TwoParticles == [i \in 0 .. 1 |-> [pos |-> Vect(i - 3, 2 * i - 4, i - 1), speed |-> Vect(1 - i, i, 2)]]
Charged(p, a) == [pos |-> p.pos, speed |-> p.speed, charge |-> a.pCharge, mass |-> a.pMass]
PicCalls ==
  Of({"micropic_exp"}, PicArgs(0 .. 3, {TwoParticles}))
  \cup Of({"fixed_width_arrays"}, {[a EXCEPT !.particles = [i \in 0 .. 1 |-> Charged(TwoParticles[i], a)]] : a \in PicArgs(0 .. 3, {TwoParticles})})
\* Two or three cells on an axis, a field that pushes to the one in the middle, and
\* particles that stay, that move, or that leave together.
Drift(half, v) == [pos |-> Vect(half, 1, 1), speed |-> Vect(v, 0, 0), charge |-> 1, mass |-> 8]
BagsOfCells == {<<<<Drift(0, 1), Drift(1, 3)>>, <<Drift(3, 1)>>, <<>>>>, <<<<>>, <<Drift(2, -2), Drift(3, 0)>>, <<Drift(4, 0), Drift(5, -4)>>>>}
MinipicCalls ==
  {[kernel |-> "minipic",
    args |-> [grid |-> Vect(3, 1, 1), deltaT |-> 1, pCharge |-> 1, pMass |-> 8, nbSteps |-> n, particles |-> <<>>,
              fieldAtCorners |-> <<>>, field |-> [step \in 0 .. n - 1 |-> [c \in 0 .. 2 |-> Vect(2 * (1 - c), 0, 0)]],
              bags |-> [parity \in 0 .. 1 |-> [c \in 0 .. 2 |-> IF parity = 0 THEN bags[c + 1] ELSE <<>>]]]] :
     bags \in BagsOfCells, n \in 1 .. 3}

\* Particles at the corners and in the middle of cells, one on the edge of the mesh that
\* a negative speed takes below zero, and in another cell.
PlacesOf(a) == <<Vect(0, 0, 0), Vect(3 * a.unit["x"], 2 * a.unit["y"], a.unit["z"]),
                 Vect(a.unit["x"], 3 * a.unit["y"], 2 * a.unit["z"]),
                 Vect((2 + 2 * a.parts) * a.unit["x"], (1 + a.parts) * a.unit["y"], 3 * a.unit["z"])>>
SpeedsOf(a) == <<Vect(-2 * a.unit["x"], 0, -4 * a.unit["z"]), Vect(a.unit["x"], -3 * a.unit["y"], 0),
                 Vect(0, 2 * a.unit["y"], a.unit["z"]), Vect(-a.unit["x"], -2 * a.unit["y"], 5 * a.unit["z"])>>
WithParticles(a) ==
  [k \in DOMAIN a \cup {"particles"} |-> IF k = "particles" THEN [i \in 1 .. 4 |-> [pos |-> PlacesOf(a)[i], speed |-> SpeedsOf(a)[i]]]
                                         ELSE a[k]]
PicForcesCalls ==
  {[kernel |-> program, args |-> WithParticles([grid |-> Vect(4, 2, 2), parts |-> 2, unit |-> Vect(1, 2, 1), stepDuration |-> q[2], charge |-> q[1],
                                                mass |-> 1, nbThreads |-> 3, nbSteps |-> n])] :
     program \in {"pic_demo_exp", "pic_optimized_stable"},
     q \in {<<-1, 2>>, <<-4, 1>>}, n \in {0, 2}}

\* Finer parts, of which a float keeps them all or one in two or four.
PicSingleCalls ==
  {[kernel |-> program, args |-> WithParticles([grid |-> Vect(8, 2, 2), parts |-> 4, unit |-> Vect(1, 2, 1), stepDuration |-> 2, charge |-> -1,
                                                mass |-> 1, nbThreads |-> 3, nbSteps |-> n, grain |-> kept])] :
     program \in {"pic_demo_single_exp", "pic_optimized_single_instr", "pic_barsamian_single_instr"},
     n \in {1, 2}, kept \in {1, 2, 4}}

-----------------------------------------------------------------------------
\* A model of two layers, with two queries for each key; weights are all different.
Weights(id, n) == Clift!Vector(n, LAMBDA j : (id * 37 + j * j * 13 + 5) % Clift!P)
WeightMatrix(id, n, k) == Clift!Vector(n, LAMBDA j : Weights(id + 11 * j, k))
Layers(Weight(_)) == Clift!Vector(2, Weight)
Model ==
  [q_head_count |-> 4, q_head_per_kv_head_count |-> 2, head_dim |-> 2, epsilon |-> 1, layer_count |-> 2,
   embedding_weight |-> Clift!Vector(3, LAMBDA token : Weights(token + 50, 8)),
   mha_norm_weight |-> Layers(LAMBDA l : Weights(l, 8)), ffn_norm_weight |-> Layers(LAMBDA l : Weights(l + 5, 8)),
   out_norm_weight |-> Weights(4, 8), out_weight |-> WeightMatrix(9, 3, 8),
   mha_q_weight |-> Layers(LAMBDA l : Clift!Vector(4, LAMBDA q : WeightMatrix(l + 7 * q, 2, 8))),
   mha_k_weight |-> Layers(LAMBDA l : Clift!Vector(2, LAMBDA h : WeightMatrix(l + 8 * h, 2, 8))),
   mha_v_weight |-> Layers(LAMBDA l : Clift!Vector(2, LAMBDA h : WeightMatrix(l + 6 * h, 2, 8))),
   mha_out_weight |-> Layers(LAMBDA l : WeightMatrix(l + 3, 8, 8)),
   ffn_fc_weight |-> Layers(LAMBDA l : WeightMatrix(l + 13, 3, 8)),
   ffn_up_weight |-> Layers(LAMBDA l : WeightMatrix(l + 23, 3, 8)),
   ffn_out_weight |-> Layers(LAMBDA l : WeightMatrix(l + 33, 8, 3))]
NoCache == [cell \in (1 .. 2) \X (1 .. 2) \X (1 .. 3) |-> 0]
NoState == [embedding |-> <<>>, k_cache |-> NoCache, v_cache |-> NoCache, logits |-> <<>>]
CliftCalls ==
  {[kernel |-> "generate_prompt", args |-> [m |-> Model, s |-> NoState, sequence |-> tokens]] : tokens \in {<<1>>, <<2, 1, 2>>}}
  \cup {[kernel |-> "queries", args |-> [m |-> Model, sequence |-> tokens]] : tokens \in {<<1>>, <<2, 1, 2>>}}
  \* Groups whose largest value is a multiple of 127.
  \cup {[kernel |-> "matvec_quantized", args |-> [vector |-> vec, matrix |-> <<vec, <<127, 3, -127, 0, 127, 5>>>>, GS |-> 2]] :
          vec \in {<<254, -2, 254, 0, 381, -3>>, <<-127, 40, 0, 508, 127, -127>>}}

\* The kernels in place, in the middle of a memory; and the weights of the model one
\* after the other.
Memory == [c \in 0 .. 39 |-> (c * c * 17 + 11 * c + 4) % Clift!P]
FlatModel == [k \in DOMAIN Model \cup {"embedding_dim", "vocabulary_len"} |->
                IF k = "embedding_dim" THEN 8 ELSE IF k = "vocabulary_len" THEN 3 ELSE Model[k]]
FlatMemory ==
  LET q_weight == Flat!Pointer(FlatModel, "mha_q_weight")
      norm_weight == Flat!Pointer(FlatModel, "mha_norm_weight")
  IN  [c \in 0 .. Flat!MemorySize(FlatModel) - 1 |->
         IF c < norm_weight THEN Model.embedding_weight[(c \div 8) + 1][(c % 8) + 1]
         ELSE IF c < q_weight THEN Model.mha_norm_weight[((c - norm_weight) \div 8) + 1][((c - norm_weight) % 8) + 1]
         ELSE IF c < Flat!Pointer(FlatModel, "embedding")
              THEN LET row == (c - q_weight) \div 8
                   IN  Model.mha_q_weight[(row \div 8) + 1][((row % 8) \div 2) + 1][(row % 2) + 1][((c - q_weight) % 8) + 1]
         ELSE Flat!Uninit]
FlatCalls ==
  {[kernel |-> "rope", args |-> [mem |-> Memory, n |-> size, x |-> 5, pos |-> at]] : size \in {2, 6}, at \in 0 .. 2}
  \cup {[kernel |-> "softmax", args |-> [mem |-> Memory, n |-> size, x |-> 7]] : size \in 1 .. 4}
  \cup {[kernel |-> "matmul", args |-> [mem |-> Memory, rows |-> r, n |-> cols, red |-> k, x |-> 26, y |-> 0, w |-> 12]] :
          r \in 1 .. 3, cols \in {1, 4}, k \in {2, 3}}
  \cup {[kernel |-> "flat_prompt", args |-> [m |-> FlatModel, mem |-> FlatMemory, tokens |-> tokens]] : tokens \in {<<0>>, <<1, 2, 0>>}}
  \cup {[kernel |-> "flat_quantized",
         args |-> [n |-> 4, d |-> 3, GS |-> 2, vector |-> [c \in 0 .. 3 |-> IF c % 2 = 0 THEN 127 * (c + 1) ELSE -5 * c],
                   matrix |-> [c \in 0 .. 11 |-> IF c % 2 = 1 THEN -127 * (c + 1) ELSE 3 * (c + 2)]]]}

Matrices(shape) ==
  LET size == shape[1] * shape[1]
  IN  [N |-> shape[1], T |-> shape[2], K |-> shape[3], A |-> [i \in 0 .. size - 1 |-> (i * i + 3) % 11],
       B |-> [i \in 0 .. size - 1 |-> (i * 7 + i * i * i) % 13]]
RowArgs(width, size, chs) ==
  [w |-> width, n |-> size, cn |-> chs, src |-> [i \in 0 .. (size + width) * chs |-> (i * i * 7 + 3 * i) % 256]]
Values(size, seed) == [i \in 0 .. size - 1 |-> (i * i * 7 + seed * i + seed) % 6]
Graph(size, seed) == [N |-> size, A |-> [cell \in 0 .. size * size - 1 |-> ((cell * cell * 31 + seed * cell + 3) % 23) + 1]]
BlurArgs(width, height, lines) ==
  [w |-> width, h |-> height, block |-> lines, input |-> [i \in 0 .. width * height - 1 |-> 9 * ((i * i + 3 * i) % 17)]]
Vectors(size, lines) ==
  [n |-> size, block |-> lines, a |-> [i \in 0 .. size - 1 |-> i * i + 1], b |-> [i \in 0 .. size - 1 |-> 3 - i]]
GpuArgs == {[arr_len |-> size, hist_len |-> 6, arr |-> Values(size, seed)] : size \in {0, 1, 7}, seed \in 1 .. 3}
VectorImage(height, width) ==
  [h |-> height, w |-> width,
   pixels |-> [y \in 0 .. height - 1, x \in 0 .. width - 1 |-> (7 * y * y + 5 * x * x * x + 3 * x * y + 2) % 11]]
CurveCalls ==
  Of({"numbering"}, {[curve |-> order, ncx |-> sizes[1], ncy |-> sizes[2], ncz |-> sizes[3], TILE_SIZE |-> 2] :
       order \in {"ROW_MAJOR", "TILE", "MORTON", "MORTON_PRECALC", "HILBERT"},
       sizes \in {<<2, 2, 0>>, <<8, 8, 0>>, <<8, 4, 0>>, <<2, 8, 0>>, <<2, 2, 2>>, <<4, 4, 4>>, <<4, 2, 8>>}})
  \cup Of({"dilated"}, {[x |-> k] : k \in {0, 1, 51, 255, 256, 511, 777, 1023, 40000, 65535}})
AllCalls ==
  CurveCalls \cup PicCalls \cup MinipicCalls \cup PicForcesCalls \cup PicSingleCalls \cup CliftCalls \cup FlatCalls
  \cup Of(Mat!Versions, {Matrices(shape) : shape \in {<<4, 2, 2>>, <<4, 2, 1>>, <<4, 1, 2>>}})
  \cup Of(Rows!Versions, {RowArgs(width, size, chs) : width \in {0, 2, 3, 5}, size \in {1, 3}, chs \in 0 .. 5})
  \cup Of({"quicksort"}, {[size |-> size, cutoff |-> cut, data |-> Values(size, seed)] :
                            size \in {0, 1, 4, 8}, cut \in {0, 2, 8}, seed \in 0 .. 4})
  \cup Of({"floyd", "default_floyd", "floyd_exp"}, {Graph(size, seed) : size \in 1 .. 4, seed \in 1 .. 4})
  \cup Of({"blur_exp"}, {BlurArgs(width, height, lines) : width \in {8, 12, 16}, height \in 3 .. 6, lines \in {2, 3}})
  \cup Of({"vectvectmul0", "vectvectmul1", "vectvectmul2", "vv1", "vv2"},
          {Vectors(size, lines) : size \in {0, 4, 8}, lines \in {1, 2, 4}})
  \cup Of({"hist", "reduce", "vector_add"}, GpuArgs)
  \cup Of({"regrot_vec"}, {[image |-> VectorImage(height, width), TILE |-> 2] : height \in {5, 6, 9}, width \in {8, 16, 24}})

=============================================================================
