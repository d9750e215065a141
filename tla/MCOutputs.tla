----------------------------- MODULE MCOutputs -----------------------------
(***************************************************************************)
(* What the work of OptiTrust can be judged by: the transformations on     *)
(* sequences of calls, and the programs of the case studies: those it      *)
(* starts from, those it outputs, and the hand-written ones they are       *)
(* compared with.  A behaviour is about one of them; the state of the      *)
(* others stays at one of their initial states.                            *)
(***************************************************************************)
EXTENDS InstrMoves, MCTargetIter, PicOptimized, PicDemoBags, ChargeDensity, PicTiling, RowSum, RowSumStrided, HarrisStrips, MCGhosts, Kernels

VARIABLE program

Subjects == {"moves", "targets", "pic_demo_exp", "pic_demo", "density", "tiling", "row_sum", "row_sum_uint16", "harris", "ghosts", "kernels"}

vars == <<program, instrVars, iterVars, optVars, demoBagsVars, densityVars, tilingVars, rowVars, stridedVars, harrisVars, ghostVars, kernelVars>>

\* Functions on two cells x and y: those that read, write, or do both; and the
\* ghosts that exchange a read-only x for a view v of it, with a wand, and back.
Item(kind, cell, frac) == [kind |-> kind, cell |-> cell, frac |-> frac]
FullItem(cell) == <<Item("Cell", cell, "")>>
UninitItem(cell) == <<Item("Uninit", cell, "")>>
ReadsItem(cell) == <<Item("RO", cell, "f")>>
WandItem(cell) == <<Item("Wand", cell, "f")>>
Function(pre, post) == [pre |-> pre, post |-> post, ghost |-> FALSE]
Ghost(pre, post) == [pre |-> pre, post |-> post, ghost |-> TRUE]
MCContracts ==
  [read_x |-> Function(ReadsItem("x"), ReadsItem("x")),
   update_x |-> Function(FullItem("x"), FullItem("x")),
   set_x |-> Function(UninitItem("x"), FullItem("x")),
   set_y |-> Function(UninitItem("y"), FullItem("y")),
   copy_x_y |-> Function(ReadsItem("x") \o UninitItem("y"), ReadsItem("x") \o FullItem("y")),
   read_v |-> Function(ReadsItem("v"), ReadsItem("v")),
   focus |-> Ghost(ReadsItem("x"), WandItem("v") \o ReadsItem("v")),
   unfocus |-> Ghost(WandItem("v") \o ReadsItem("v"), ReadsItem("x")),
   forget_init_x |-> Ghost(FullItem("x"), UninitItem("x")),
   forget_init_y |-> Ghost(FullItem("y"), UninitItem("y")),
   forget_init_v |-> Ghost(FullItem("v"), UninitItem("v"))]
MCForgetInit == [x |-> "forget_init_x", y |-> "forget_init_y", v |-> "forget_init_v"]
MCViews == [v |-> "x"]
\* All programs of three calls, and those of four where x is exchanged.
MCPrograms ==
  LET Texts(size) == [1 .. size -> {"read_x", "update_x", "set_x", "set_y", "copy_x_y", "read_v", "focus", "unfocus"}]
  IN  Texts(1) \cup Texts(2) \cup Texts(3) \cup {text \in Texts(4) : \E i \in 1 .. 3 : text[i] = "focus"}

\* Particles that move along the X axis, by one cell into the private bag of a
\* neighbour, also across the end of the mesh, or by three into a shared bag.
MCInitialCells == <<{CellOf(0, 1, 1)}, {CellOf(4, 1, 1), CellOf(0, 1, 1)}, {CellOf(3, 1, 1)}>>
MCDisplacements == <<{<<1, 0, 0>>, <<3, 0, 0>>}, {<<0, 0, 0>>, <<-1, 0, 0>>}, {<<-3, 0, 0>>, <<0, 1, 0>>}>>

\* Particles that stay, that always move, and that do either.
MCMoves == <<{<<1, 0, 0>>}, {<<0, 0, 0>>, <<1, 0, 0>>}, {<<0, 0, 0>>}, {<<1, 0, 0>>}>>

\* Meshes with one cell on an axis, where the cells next to it are itself.
Mesh(sizes, threads, procs, async) ==
  [nc |-> sizes, num_threads |-> threads, mpi_world_size |-> procs, non_blocking |-> async]
MCMeshes ==
  {Mesh(<<x>>, t, p, FALSE) : x \in {1, 2, 5}, t \in {1, 3}, p \in {1, 2}}
  \cup {Mesh(v, 2, p, async) : v \in {<<1, 2>>, <<2, 2>>, <<4, 2>>}, p \in {1, 2, 3}, async \in BOOLEAN}
  \cup {Mesh(v, 1, p, async) : v \in {<<1, 2, 1>>, <<2, 2, 2>>}, p \in {1, 2}, async \in BOOLEAN}

\* Tilings: perfect ones, an odd number of tiles, a last tile that is cut, and
\* a tile larger than the mesh; with the colouring scheme the tiles are not read.
Tiling(sizes, tile, border, bags) ==
  [nc |-> sizes, tile_size |-> tile, border_size |-> border, nb_bags_per_cell |-> bags]
MCTilings ==
  {Tiling(v, tile, tile \div 2, 9) : v \in {<<16, 4, 1>>, <<4, 2, 4>>, <<1, 16, 2>>}, tile \in 2 .. 6}
  \cup {Tiling(<<32, 1, 1>>, tile, 1, 9) : tile \in 2 .. 17}
  \cup {Tiling(<<4, 2, 4>>, 2, 1, 2), Tiling(<<4, 2>>, 2, 1, 2)}
  \cup {Tiling(v, tile, tile \div 2, 5) : v \in {<<16, 4>>, <<8, 8>>, <<1, 16>>}, tile \in 2 .. 6}

\* Rows whose pixels all differ; the widths and numbers of channels go past those
\* that have a branch of their own.
Pixel8(i, ch) == (37 * i * i + 91 * ch + 5 * i + 200) % 256
Prefix(size, chs) ==
  LET upto[i \in 0 .. size] == [ch \in 0 .. chs - 1 |-> IF i = 0 THEN 0 ELSE upto[i - 1][ch] + Pixel8(i - 1, ch)]
  IN  upto
MCCalls ==
  {[w |-> width, n |-> size, cn |-> chs, prefix |-> Prefix(size + width - 1, chs)] :
     width \in 0 .. 6, size \in 1 .. 4, chs \in 0 .. 5}

\* The same on flat arrays, and one sum that does not fit in 16 bits.
Versions == {"before", "exp", "opencv"}
Row8(size) == [i \in 0 .. size - 1 |-> (37 * i * i + 91 * i + 200) % 256]
MCStridedCalls ==
  {[version |-> v, kn |-> width, n |-> size, cn |-> chs, src |-> Row8((size + width) * (chs + 1))] :
     v \in Versions, width \in {0, 2, 3, 5, 6}, size \in 1 .. 3, chs \in 0 .. 5}
  \cup {[version |-> v, kn |-> 300, n |-> 2, cn |-> 1, src |-> [i \in 0 .. 300 |-> 255]] : v \in Versions}

\* Images of one strip, of two strips, of exactly two, and of three.
MCImages ==
  {[h |-> height, w |-> width,
    pixels |-> [y \in 0 .. height - 1, x \in 0 .. width - 1 |-> (7 * y * y + 5 * x * x * x + 3 * x * y + 2) % 11]] :
     height \in {5, 8, 9, 10}, width \in {5, 7}}

KernelArguments == INSTANCE MCKernels
MCKernelCalls == KernelArguments!AllCalls

-----------------------------------------------------------------------------
\* A program that does not run is given one particular tuple of arguments.
If(subject, choices, choice) == IF program = subject THEN choices ELSE {choice}

EmptyCall == IterCallOf(FlatProgram, "delete", 0, "first", Target("at", {}, {}), FALSE)

Init ==
  /\ program \in Subjects
  /\ IF program = "moves" THEN InstrInit ELSE original = Sequence(<<"read_x">>) /\ instrs = original /\ steps = 0
  /\ IF program = "targets" THEN TargetInit
     ELSE iterCall = EmptyCall /\ ast = FlatProgram /\ occ = 0 /\ iterState = "iterating" /\ reached = <<>>
  /\ OptInit
  /\ DemoBagsInit
  /\ mesh \in If("density", Meshes, Mesh(<<1>>, 1, 1, FALSE)) /\ DensityInit
  /\ tiling \in If("tiling", Tilings, Tiling(<<4, 2, 4>>, 2, 1, 2)) /\ TilingInit
  /\ call \in If("row_sum", Calls, [w |-> 0, n |-> 1, cn |-> 0, prefix |-> Prefix(0, 0)]) /\ RowInit
  /\ args \in If("row_sum_uint16", StridedCalls, [version |-> "exp", kn |-> 0, n |-> 1, cn |-> 0, src |-> Row8(1)])
  /\ StridedInit
  /\ image \in If("harris", Images, CHOOSE i \in Images : i.h = 5 /\ i.w = 5) /\ HarrisInit
  /\ (program # "harris" => variant = "exp")
  /\ IF program = "ghosts" THEN GhostInit
     ELSE contract = group_intro_zero /\ calling = "before" /\ owned = contract.consumes
  /\ IF program = "kernels" THEN KernelInit
     ELSE kernelCall = [kernel |-> "reduce", args |-> [arr_len |-> 0]] /\ result = <<>>

Runs(p, Step) == program = p /\ UNCHANGED program /\ Step

Next ==
  \/ /\ Runs("moves", InstrNext)
     /\ UNCHANGED <<iterVars, optVars, demoBagsVars, densityVars, tilingVars, rowVars, stridedVars, harrisVars, ghostVars, kernelVars>>
  \/ /\ Runs("targets", TargetNext)
     /\ UNCHANGED <<instrVars, optVars, demoBagsVars, densityVars, tilingVars, rowVars, stridedVars, harrisVars, ghostVars, kernelVars>>
  \/ /\ Runs("pic_demo_exp", OptNext)
     /\ UNCHANGED <<instrVars, iterVars, demoBagsVars, densityVars, tilingVars, rowVars, stridedVars, harrisVars, ghostVars, kernelVars>>
  \/ /\ Runs("pic_demo", DemoBagsNext)
     /\ UNCHANGED <<instrVars, iterVars, optVars, densityVars, tilingVars, rowVars, stridedVars, harrisVars, ghostVars, kernelVars>>
  \/ /\ Runs("density", DensityNext)
     /\ UNCHANGED <<instrVars, iterVars, optVars, demoBagsVars, tilingVars, rowVars, stridedVars, harrisVars, ghostVars, kernelVars>>
  \/ /\ Runs("tiling", TilingNext)
     /\ UNCHANGED <<instrVars, iterVars, optVars, demoBagsVars, densityVars, rowVars, stridedVars, harrisVars, ghostVars, kernelVars>>
  \/ /\ Runs("row_sum", RowNext)
     /\ UNCHANGED <<instrVars, iterVars, optVars, demoBagsVars, densityVars, tilingVars, stridedVars, harrisVars, ghostVars, kernelVars>>
  \/ /\ Runs("row_sum_uint16", StridedNext)
     /\ UNCHANGED <<instrVars, iterVars, optVars, demoBagsVars, densityVars, tilingVars, rowVars, harrisVars, ghostVars, kernelVars>>
  \/ /\ Runs("harris", HarrisNext)
     /\ UNCHANGED <<instrVars, iterVars, optVars, demoBagsVars, densityVars, tilingVars, rowVars, stridedVars, ghostVars, kernelVars>>
  \/ /\ Runs("ghosts", GhostNext)
     /\ UNCHANGED <<instrVars, iterVars, optVars, demoBagsVars, densityVars, tilingVars, rowVars, stridedVars, harrisVars, kernelVars>>
  \/ /\ Runs("kernels", KernelNext)
     /\ UNCHANGED <<instrVars, iterVars, optVars, demoBagsVars, densityVars, tilingVars, rowVars, stridedVars, harrisVars, ghostVars>>

Spec == Init /\ [][Next]_vars

=============================================================================
