# A TLA+ verification of OptiTrust

OptiTrust is an OCaml program with which a programmer rewrites C code by writing a
*transformation script*: a sequence of calls to transformations, each of which replaces
the current program, some of which are justified by a resource (separation logic)
typechecker. While the script runs, the framework records a tree of *steps* in a global
mutable record, `the_trace`, which the user browses, and on which the claim "this
optimised program is correct" rests: a step is *valid* when it is justified, or composed of
valid steps.

What this work is worth can be seen on the *case studies* of the repository: programs with
threads, atomic operations, free lists and index arithmetic, each of which exists in a naive
form, in the form that OptiTrust outputs and sometimes in a hand-written form of the same speed.

This directory models both halves in TLA+, checks them with TLC, and proves part of them with
TLAPS: the *framework* (the trace, iteration over targets, the algebra of resources), and the
*case studies*, where the abstract specification is the naive program and the question is
whether the others implement it.
Line numbers are those of the sources at the commit modelled; `PROJECT.json` maps each
definition to its lines.

## 1. Inventory

| component | sources | state | operations | what makes it correct | here |
|---|---|---|---|---|---|
| Trace recording | `lib/framework/runtime/trace.ml` | `the_trace`: current AST, `cur_ast_typed`, stack of open steps, next id, saved original | open/close/finalize/discard a step, `justif`, `trustme`, `step_backtrack`, `step_backtrack_on_failure`, `failure_expected`, `show_step`, `apply`, retyping, dumping | contiguous ids; nesting; validity only by justification; undoing undoes; typed flag never stale; exceptions leave no step or flag behind | modelled, but for section 5 |
| Script driver | `lib/framework/runtime/run.ml` | the exception being handled | `script`, `stop`, preprocessing of contracts, finalize or finalize_on_error, exit | every exit either closes the trace or crashes with the cause | modelled, without the command line |
| Flags | `lib/framework/flags.ml` | about 90 global references | `with_flag`, `reset_flags_to_default` | scoped changes are undone on every exit; a batch starts each test from defaults | the flags the trace reads |
| Resource typechecker | `lib/framework/resources/` | annotations in the AST, a global table of used names | `recompute_all`, usage composition, subtraction, simplification of wands | usages compose soundly; simplification keeps what is owned | the algebra of usages, subtraction, wands, typing of a sequence |
| Resource queries | `lib/framework/resources.ml` | none of its own | `ensure_computed`, criteria for commuting, minimising, deleting | criteria imply that the usages do not interfere | `ensure_computed`, `collect_interferences`, shadowed effects |
| Targets, constraints, paths | `lib/framework/target/` | marks placed in the current AST, tables of string representations | resolve, iterate, apply at path | iteration visits each match once, whatever the transformation does | iteration, relative targets, spans; the steps it records |
| AST, marks, marked lists | `lib/ast/`, `marks_basic.ml` | immutable terms, fresh-mark counters | constructors, `Mlist` insertion, splitting, merging | marks between items stay between the same items | marked lists; the steps that change marks |
| Variable scopes | `scope_computation.ml`, `scope.ml` | scope contexts | inference of ids, checks, renaming | each use refers to the binder in scope | its failure is a typing failure; planned |
| Hidden sequences | `lib/framework/nobrace/` | a stack of ids | `enter`, `exit`, `remove_after_trm_op` | enter and exit match, exceptions included | hiding and flattening with one context |
| Display | `lib/framework/show.ml` | none | decorated copies of the AST, `Trace.show_step` | a show step can be extracted for its diff | `show_step` |
| Transformation library | `lib/transfo/` | none of its own | about 90 files of rewrites | index arithmetic, ghost pairs, usage criteria | moving and deleting instructions; what transformations of sequences do to marks |
| C and C++ front end | `tools/c_parser/`, `lib/framework/c/` | cache of parsed files | parse, encode, print | encode and decode are inverses | not modelled: tree translations without control |
| Trace server, browser view | `tools/trace_server/`, `tools/web_view/`, `trace_query.ml` | last trace read, by path and timestamp | load, query a step | the answer is from the trace that was asked for | planned |
| Editor bridge | `.vscode/*.sh`, `watcher.sh` | an action file and its output file | hand over, run, report | each action is run once and answered | planned |
| Tester | `tools/tester/`, `tests/` | batches, lists of expected results | batch, run, compare | tests in a batch do not influence one another | planned, with the flags |
| Simulation: naive | `case_studies/pic/demo/pic_demo.c`, `minipic` | a bag of particles by cell, the field | a step: deposit, field, push, swap of bags | particles are neither lost nor duplicated | modelled, but for the Poisson solver |
| Simulation: chunk bags | `case_studies/pic/src/` | chunks, bags, free lists of each thread, spare chunks | serial and concurrent push, append, iteration that frees | a chunk has one owner; a concurrent push loses nothing | allocation, pushes, iteration, tilings |
| Simulation: hand-written | `pic_barsamian*.c` | as above, and shared and private bags, charge of each thread | the step by threads, colours and tiles | it is the naive step; private bags are private | modelled, but for initialisation and reports |
| Simulation: OptiTrust's | `pic_demo*_exp.cpp`, `pic_optimized*.c` | as above | the step by threads, colours and blocks | the same | the same |
| Simulation: charge and fields | `rho.c`, `fields.c` | accumulators at corners | conversion, reduction, borders | the density is that of the deposits | modelled in integers |
| Simulation: numberings | `space_filling_curves.c`, `matrix_functions.c` | tables | encode, decode | a bijection onto the cells | modelled |
| Row sums | `case_studies/opencv/box_filter_rowsum*` | the window's sum | the naive program, outputs with and without models, OpenCV's | each output is the sum of its window; reads in range | modelled |
| Harris corners | `case_studies/harris/` | line buffers, reused modulo their number | strips of rows through four stages | a row is written before it is read and not overwritten in between | modelled |
| Other case studies | `case_studies/{matmul,clift,box_blur,sort,...}` | arguments | functions of the arguments | equal to the naive ones | most of them |
| Runtime headers | `include/` | none | ghost functions, copies of matrices | a ghost gives back the resources it takes, in another form | ghosts with a proof, copies |

**Interactions.** A script calls `!!` (`open_smallstep`) and `bigstep` between its lines;
transformations wrap their work in `Trace.step`, resolve targets (`target_resolve_step`,
`set_ast_for_target_iter`), replace the program (`Trace.apply`), ask for resources
(`Resources.ensure_computed`) and state justifications (`Trace.justif_correct`). Closing a
step calls back into the typechecker when `recompute_resources_between_steps` is set. All of
these share `the_trace` and the flags; nothing is passed explicitly.

In the simulations the threads of OpenMP share the bags, the free lists and the counters; they meet
at the barriers of parallel loops, and otherwise synchronise by atomic captures and a
busy wait on the size of a chunk.

**What is hard.** The framework is sequential. Its difficulty is *control*: any call may raise
at any point of any nesting of combinators, no combinator but two catches, some steps are
opened and closed implicitly by the next one, handlers close what others left open and may
themselves raise (retyping inside `close_step` does), and four pieces of state
(`cur_ast`, `cur_ast_typed`, the stack, the flags) are saved and restored separately. A unit
test reaches few of these combinations. Iteration over targets adds *places that move*: the paths
found at first are replaced by marks, looked up again after each transformation, which may have erased,
duplicated or moved them. The simulations are *parallel*, and correct only by a geometric argument
(tiles of one colour are far enough from one another for their private bags), by the protocol
of concurrent pushes, and by spare chunks that must suffice. The other outputs are *index arithmetic*:
tiles, strips, buffers used in turn, boundaries. The hazards are listed with their lines in
`PROJECT.json`.

## 2. Modules

| module | content |
|---|---|
| `TraceSteps` | the step tree, as operators on the record `the_trace`: `open_step`, `close_step`, `finalize_step`, `make_substeps_chained`, validity, retyping, filtering of kinds, reuse of ids |
| `Trace` | the state machine: a script is an arbitrary nesting of combinators, each call of which may raise; `Run.script` starts it, ends it, or reports its exception |
| `UndoScopes` | the abstract promise of the three undoing combinators: what an author of scripts may rely on |
| `TraceUndo` | the refinement mapping from `Trace` to `UndoScopes`; the module that the configurations instantiate |
| `TraceProofs` | lemmas on the step stack: what its operators do to well-formedness, to ids, to the steps below the current one, to the typing and to the program; type correctness, contiguity of ids, scopes of the flags. Then the steps the combinators hold, nesting, typing, neutrality of undone regions, handlers; the combinators implement `UndoScopes` |
| `MarkedSequences` | sequences with marks on items and between them (`Mlist`), hidden sequences, and what the transformations of sequences do to them |
| `TargetIter`, `MCTargetIter` | `Target.iteri`: marks put on every match, then for each of them lookup, transformation, removal; the programs, targets and transformations iterated |
| `ResourceUsages` | usages of a resource, their composition, interference, subtraction, fraction wands |
| `InstrMoves` | typing of a sequence of calls, `Instr.move` and `Instr.delete` with the resources they check |
| `ResourceUsagesProofs` | laws of composition and interference |
| `PicGrid` | the mesh: cells, neighbours, tiles, colours, borders |
| `PicDemo` | the naive simulation, bags as sets: the abstract specification of the others |
| `PicDemoBags` | the same down to the chunks of `bag.c`, read and freed while iterating |
| `DemoBagsProofs` | no chunk is shared, lost, or reached after it was freed; no particle is lost; the chunks implement bags of particles |
| `ChunkBags` | the concurrent chunk lists: allocation with free lists, serial and concurrent push, append, spare chunks |
| `PicBarsamian`, `MCPicBarsamian` | the hand-written parallel step, one action by atomic access of a thread |
| `BagsProofs` | colours, tiles and borders keep the threads of that step apart; no chunk is shared, lost, or written while it is free; the sizes of full chunks settle |
| `ParticlesProofs` | no particle of that step is lost, overwritten or moved twice; the program implements the naive one |
| `PicOptimized`, `MCPicOptimized` | the parallel step of `pic_demo_exp.cpp`, by blocks and colours |
| `OptimizedProofs` | that step implements the naive one, as long as no two threads push serially into one bag; when they do not |
| `PicTiling` | private bags of each colour and numbers of the spare chunks, in two and three dimensions |
| `TilingProofs` | two tiles never share a private bag; spare chunks are numbered without gap, in the order asked for |
| `ChargeDensity` | `rho.c` and `fields.c`: accumulators, processes, borders |
| `PicForces`, `PicSingle`, `BarsamianForces` | the simulations as numeric functions: forces, scaled units, single precision, counters of pushes |
| `SpaceFillingCurves` | numberings of cells, and their inverses |
| `RowSum` | the row sum as a state machine, with each specialised branch of the output |
| `RowSumProofs` | its partial correctness and its accesses |
| `RowSumStrided`, `RowSumVariants` | OpenCV's programs, and other outputs, as functions |
| `HarrisStrips`, `HarrisVectors` | the three optimised corner detections, by rows and buffers; the vectorised one |
| `MatMul`, `CliftForward`, `CliftKernels`, `MiniPic`, `SmallKernels` | other case studies, as functions |
| `Ghosts`, `MCGhosts` | ghost functions, denoted by the cells and fractions they own; the calls on which they are checked, and those that are accepted and wrong |
| `Kernels`, `MCKernels` | the pairs of a naive and an optimised function, and the arguments on which they are compared |
| `MCOutputs` | one specification for all the checks that need only a small graph each, by `subject` |

**State.** `the_trace` is the OCaml record of the same name. An AST is a version number (its
physical address: `==` is what the code compares), a program (`Codes`, abstract, some of
which do not type), and the state of its resource annotations. An open step keeps its
substeps in execution order, where the code keeps them reversed; a closed step is the
summary its parent and outputs read. Three of its fields are in no OCaml record: `granted` and
`grounded` say where validity came from, `last` is the last id of the subtree.
`flags` has the flags that `with_flag` saves and restores. `frames` is the control stack:
one frame per combinator whose body is running, with what its closure captured (depth of its
step, AST and typed flag on entry, old flags). `mode` is what the control is doing:
running, propagating an exception (`raise`), in a handler that closes steps (`closing`), in
`finalize_on_error` (`closing_all`), or stopped. `saved` is
`ast_just_before_first_call_to_restore_original`; `report` is the closed root.

**Actions.** One per operation, each with all it does: for instance `open_smallstep` closes the
previous small step (retyping, chaining and composing validity, possibly raising), checks
the exit line, reparses if asked and opens the next step, all in one action. A transition of
control that the OCaml runtime makes by itself (one frame unwound, one step closed by the loop of
a handler) is one action, so that exceptions inside handlers appear where they occur.
**Iteration over targets.** A state of `TargetIter` is the program (a tree of marked sequences), the
number of matches treated, and what each application was given. The marks are put at the start;
`ApplyToNext` looks one up, removes it and applies the transformation (`ApplyToOnly` needs no mark), `LoseMark` gives up when it is not
found exactly once, `IterationEnds` flattens the hidden sequences. A transformation is one of those of `sequence_basic.ml` and `instr_basic.ml`: insert, delete, copy, move,
group, wrap, ungroup, split. An instruction is its name, and a copied or inserted one is marked as new, so that `EachTargetOnce`
compares the instructions that each application was given with those that the match denoted at first.

**Simulations.** In `PicBarsamian` a thread is a program counter and its locals, and a step is one access to
shared memory that another thread can observe: the capture of a chunk's size, the
write of a particle, the publication of a new front chunk, the wait for it. Code between two such accesses is one action.
A bag is its front and back chunk, a chunk its size, items and successor, and a free list belongs to a thread. `PicOptimized` is
coarser (a serial push is two steps, so that two of them can race). `PicDemo` leaves open the order in which cells are treated, so
that a refinement compares bags of particles at the end of each step.

**Functions.** Where a program has no state worth interleaving, it is a function from its arguments to its result, in
recursive form, and the naive program is another. Each definition maps to the lines of the function it
translates; loops over tiles and tails keep their bounds.

Definitions whose comment says "Faulty" are not part of the specification: they are plausible
bugs that the properties were tested against (`PROJECT.json`, "mutants").

## 3. Runs and bounds

| run | question | properties |
|---|---|---|
| `scopes` | exceptions at every point of nested combinators, with a program that does not type, backtracking, `restore_original`, and the end of a failing script | `TypeOK` `IdsContiguous` `TypedSound` `FlagsScoped` `HandlesMatch` `BacktrackNeutral`, refinement `ImplementsUndo`, liveness `HandlersEnd` |
| `script` | scripts of big and small steps, with groups, targets, marks, shows, reparsing and a targeted line; handlers, where programs type and the check of validity is not suspended | `NestingOK` `ValidGrounded` `ExitAtScriptLevel` `OnFailureRestores` `InterruptedClosed` |
| `picstep` | two threads run steps of the hand-written simulation, in three builds of the bags | `TypeOK` `ChunkOwnedOnce` `ParticlesKept` `SerialPushExclusive` `SizesSettled` `SparesSuffice` `FreeChunksUntouched`, refinement `ImplementsDemo`, liveness `RunEnds` |
| `outputs` | iteration over targets, moves of instructions, ghosts, and the outputs of OptiTrust against naive programs | see below |

The runs of `Trace` finish in one to two minutes each (`scopes` has 380,000 states, `script` three million), `picstep` in about one
minute (36,000 states), `outputs` in about two (21,000 states, most of the time being the evaluation of functions). The
bounds of the former are constants of `Trace`: `MaxDepth` (open steps), `MaxFrames` (combinators inside one
another), `MaxId` and `MaxVer` (steps and ASTs made so far). They only guard the
*opening* of steps and *building* of ASTs: typing, change steps and everything a handler does
go beyond them. Why they are enough: the properties relate a step to its parent, its
substeps and at most one enclosing handler. Four combinators inside one another (`scopes`) are a handler, another one in it,
an interrupted step in that one, and a combinator that changes a flag; four or five steps and two or
three versions give a step a gap before, between and after its substeps. `script`, which has twice as many kinds of steps, has two
combinators inside one another: a handler and what it interrupts. Two or three programs
suffice: the original, a changed one, one that does not type. `Features` selects the
combinators of a run, so that each question gets depth where it needs it; between
them the passing runs execute every action and disjunct. Deadlock is checked there: the only
states without progress are those of `Stopped`. It is not checked in `picstep`, `picrace`, `outputs`, `spans` and `splits`, whose
programs end; that they end is `RunEnds` in `picstep`, and part of the properties of `outputs` ("at the end...").

**`picstep`.** 4 by 1 by 1 cells, tiles of 1 cell, so that each colour has a tile for each of the 2 threads; chunks of 2 particles (full with
the second, so that a third push must wait for a new front), 3 particles, at most 20 chunks. The three instances are the builds
that `scripts/compile.sh` makes: `SPARE_LOC_OPTIMIZED` and free lists, each with two steps, so that the chunks freed in the
first are reused in the second, and `STDCHUNKALLOC` with one.
Memory is finite in the model only: where the code calls `posix_memalign`, `MemoryFor` asks for a free address among the `MaxChunks`, and
`MemoryAssumption` for enough of them for the chunks made at the start. In none of the three instances is that guard ever false.
With tiles of one cell the borders of tiles are empty, which `PrivateBagsExclusive` in `outputs` makes up for, with all tile sizes. An
allocation from an empty free list does not occur at this size.

**`outputs`.** Each initial state is one subject and its arguments, and from there the run is nearly deterministic.

| properties | subject | arguments |
|---|---|---|
| `TypingKept` `ResultsKept` | `Instr.move` and `Instr.delete`: what their checks accept keeps the typing and what the program computes | all sequences of 1 to 3 calls over a small set of functions, and those of 4 with a focus among the first three |
| `EachTargetOnce` `MarksKeepPlace` | iteration over targets: each instruction denoted at first is treated once; a mark between instructions stays between the same ones | a flat and a nested program, all targets of up to three matches before, after or on instructions, all disjoint spans for deletion |
| `ChunksPartitioned` `ChunksImplementBags` | the iterators of `bag.c` that free chunks, against bags as sets | the naive simulation, 2 cells, 4 particles, chunks of 2 |
| `ImplementsDemo` | the step of `pic_demo_exp.cpp` against the naive one | mesh of 8 by 4 by 4, tile of 2, motion along one axis |
| `PrivateBagsExclusive` `SpareIdsOrdered` | no two tiles of one colour reach the same private bag; numbers of spare chunks do not overlap | tile sizes, borders, two and three dimensions |
| `ReportComplete` | the report at the end lists each particle once | the same |
| `DensityRight` `FieldsAgree` | charge and fields after reduction over processes and periodicity | meshes and processes, blocking and not |
| `RowSumRight` `AccessesInRange` `StridedRight` | row sums, by each branch | widths, lengths, channels |
| `HarrisRight` | rows of corners through line buffers: written once, from the right rows | images of one to three strips |
| `GhostsSound` | ghosts own the same cells before and after | the ranges, cuts, sizes and factors of `MCGhostCalls`; others that contracts accept are in `splits` |
| `KernelsRight` | the other case studies agree with the naive programs; three of the small particle simulations do for some arguments only, and it says for which | small arguments around the sizes of their tiles; whole and fractional factors, 0 to 3 steps |

One move or deletion suffices for the first subject: the sequence after a step is itself among the initial ones. The numeric
programs take arguments for which the quotients of floating-point numbers are exact, so that an equality of integers stands for one of
floating-point numbers up to rounding; a quotient that is only a factor (`pCharge / pMass`) need not be whole, since the model divides
what it multiplies. Where the code converts to `int`, the model truncates.

**Where `KernelsRight` says that programs differ.** Three programs of `minipic` are not what their script or text intends, and the
property has the exact condition on either side instead of leaving these arguments out.
`micropic_exp.cpp:168` keeps `deltaT * deltaT * pCharge / pMass` in an `int`, though `micropic.ml:34` builds a
factor of type `double`: the output agrees with `micropic.cpp` if and only if this factor is whole, or no step is made, for fields that are not all zero (`MicropicRight`).
`micropic_fixed_width_arrays.cpp:224` and `minipic.cpp:220` store a particle without its charge and mass, which makes both 0, and the next step
computes `0. / 0.`: the former agrees for one step and then moves every particle to a position that is not a number
(`FixedWidthRight`), and the latter, which computes a cell from that position, is undefined from its second step (`MinipicRight`).

**What differs from the code's own claims.** Eight runs check what a comment says, and find
a counterexample that the code can follow:

- `vacuous` (`ValidGrounded`, `trace.ml:996` against 954 and 886). A transformation that
  replaces the program directly, with no substep and no justification, is recorded as valid
  when retyping is off around it: `List.for_all` over no substep is true, and no change step is
  added to a step without substeps.
- `recoveryfails` (`OnFailureRestores`, `trace.ml:1220` against 1238). The handler of
  `step_backtrack_on_failure` closes interrupted steps while retyping is on: if the
  interrupted program does not type, the handler itself raises and nothing is restored.
- `interrupted` (`InterruptedClosed`, `trace.ml:1187` against 944). A step interrupted inside
  `without_substep_validity_checks` cannot be closed by an enclosing handler, the flag having been restored.
- `showdiff` (`ShowExtractable`, `trace.ml:1904` against 1781). A show of a decorated AST gets change steps
  beside its `Step_show`, which cannot be extracted any more.
- `untyped` (`StepsEndTyped`, `flags.ml:132` against `trace.ml:910`). A step that changes the program and
  then records a substep that does not is closed without retyping.
- `spans` (`EachTargetOnce`, `transfo/instr_basic.ml:61` against 20-24). When two spans of a target follow one another, the mark
  that begins the second is at the point where `Instr.move` splits the sequence after the first, and goes with it. The second
  span is then empty and silently not moved, or takes instructions of the first, or "disappears".
- `picrace` (`SerialPushExclusive`, `pic_demo_exp.cpp:904` against `pic_demo.ml:285` and `bag.c:431`). The script builds the conjunction of three disjunctions
  (`pic_demo.ml:296-301`); the printed program has lost the parentheses. A particle that is near along one axis
  but far along another is pushed without synchronisation into a private bag, which a thread of another block of the same
  colour fills too. The instance is a mesh of 2 by 8 by 2 with two particles. The same line is in three other outputs.

- `splits` (`GhostsSound`, `optitrust_common.h:673-674`). The requirement of `group_split` that the cut be in the range, which
  `ro_group_split` and `pure_group_split` have (688, 703), is commented out; what is left is that the first part is a subrange, and that is also all
  that `split_range_at` proves (`loop_core.ml:496`). A cut below the start, such as `split_range_at` makes of a negative `nb`, or between two
  indices, is accepted, and the second part owns cells that the range does not. The instance also has `group_focus` at an index of a range such as `range(1, 8, 2)`, where
  the test of the solver (`arith.ml:61-66`) ignores the start of the range; either alone violates the property.

The passing runs avoid precisely these: `script` and `scopes` check `ValidGrounded`, `HandlesMatch`, etc. with
combinators under which they hold; `OnFailureRestores` and `InterruptedClosed` hold in
`script`, where all programs type and no combinator suspends the check of validity, the hypotheses of their theorems; `GhostsSound` holds in `outputs`
of ranges that start at a multiple of their step and are cut at one of their indices; `EachTargetOnce` holds in `outputs` with moves of single instructions
and no spans for them; `ImplementsDemo` in `outputs` has particles that move along X only, where the test of the distance is right.

**Fairness.** Two properties need it. For `HandlersEnd`, `FairSpec` asks for weak fairness of `Unwind`, the
steps that unwind the stack and run handlers. It is written with `CanUnwind`, which is
`ENABLED <<Unwind>>_vars` in closed form, because TLC evaluates the `ENABLED` of so large an action
slowly. The program is sequential and no handler waits for anything, so the code justifies it.
Nothing is assumed of scripts: they may run for ever. A handler whose loop makes no progress disables
`Unwind`, so that `HandlersEnd` finds it stuck. For `RunEnds`, `PicBarsamian` asks for weak fairness of the step of each thread and of the main
program's: each OpenMP thread of a parallel region is an operating system thread that keeps running. It is needed because a push into
a full chunk spins until another thread has published the next one. Memory is taken in the order of the source, as on the
processors for which the code is written; a compiler or processor that reorders plain stores is outside of the model.

**Refinements.** `Trace` implements `UndoScopes`; `PicBarsamian`, `PicOptimized` and `PicDemoBags` implement `PicDemo`. In the last three
a particle changes bags when its item is written, whichever chunk or bag that is in, and the deposit of a cell is the sum over the
threads, with what they have pushed and not yet accumulated.

## 4. Proofs

`TraceProofs` proves, for every value of the constants that satisfies the assumptions of
`TraceSteps` and `Trace` (typable programs are programs; options are among the documented ones;
bounds are naturals), so for every nesting, set of programs and option:

- `TypeCorrect`: `Spec => []TypeOK`. In particular a close never meets an empty stack, and
  at most one AST is set aside.
- `IdsAlwaysContiguous`: `Spec => []IdsContiguous`. Ids are handed out without hole or duplicate,
  though steps that are discarded or filtered out give theirs back, change steps are numbered
  when their parent is closed, and exceptions leave steps open.

- `FlagsAlwaysScoped`: `Spec => []FlagsScoped`. However a combinator is left, by
  returning, by an exception, or by a handler that itself fails, the flags are what the
  combinators still running make them.
- `HandlesAlwaysMatch`: `Spec => []HandlesMatch`. When a body returns, the current step is
  the one opened for it: the assertion of `step_and_get_handle` never fails.
- `AlwaysNested`, `AlwaysTypedSound`, `BacktrackAlwaysNeutral`, `AlwaysExitAtScriptLevel`: the invariants `NestingOK`, `TypedSound`,
  `BacktrackNeutral` and `ExitAtScriptLevel`.
- `InterruptedAlwaysClosed`: `Spec => InterruptedClosed`, if `ValidityFixed`: the script does not check validity, or uses neither `trustme` nor
  `without_substep_validity_checks`, the two combinators that suspend the check. The run `interrupted` shows that this is needed: there, a step
  was opened under the other value of `check_validity` than the one under which it is closed.
- `HandlersAlwaysRestore`: `Spec => OnFailureRestores`, if `ValidityFixed` and `TypingSucceeds` (steps are not typed, or all programs type). The
  run `recoveryfails` shows a typing that fails in a handler. The lemma `HandlerRestores` needs neither: a handler that gets
  as far as the restoration restores.
- `UndoImplemented`: `Spec => ImplementsUndo`, the refinement of `UndoScopes`.

**Argument.** None of them is inductive alone. `IInv` is the conjunction of `TraceInv` (the record
is well formed: a non-empty stack whose every step has contiguous recorded substeps, whose next id
follows the last thing recorded; at the end of the script, the report closes the numbering),
`ControlInv` (each frame that owns a step has depth at least two, so that closing it never pops the root;
the frame of a `try` sits on the frame of its `step_backtrack`, so that an expected failure has
a step to return to; the mode `closing` has a frame that can be closing) and `RecordsInv`. The first part of `TraceProofs` has
one lemma per operator of `TraceSteps`: what `open_step`, `PutNew`, `LeafStep`, `close_step`, ... do to
well-formedness, the crux being `KeepStepWf` (folding a step into its parent with `Cardinality(gaps)` ids
for its change steps) and `DropStepWf` (giving an id back). Its second part has one lemma per action,
and then adds `FlagsInv`: the flags that each frame captured are those under which it was
called, namely the initial ones cleared by the frames below it, which is what makes a restoration right
whatever happened in between; and the end of a `step_backtrack` runs with typing off.
`IInv` was model-checked on all passing instances before it was proved.

The second half of `TraceProofs` adds `HInv`, also model-checked first, which relates the control stack to the stack of steps:

- `StepsInv`: steps nest as they should, every recorded region that was undone is neutral, and no open region
  is granted validity before it is closed (or the close would record a lie).
- `CallsInv`: each frame that owns a step has it at its depth, with the kind of that combinator and the AST that the frame captured; the depths
  of frames increase; between the steps of two frames there is no other step, and below the first only steps of the script (`StepFrameGood`, `FrameGood`).
  So no exception, handler or implicit closing can put another step in the place of one that a combinator holds.
- `RunInv`: while the script runs, the current step is that of the innermost frame that owns one (`Level`); under
  `preserves_resource_typing` the AST keeps what the typed flag of the frame promises (`Pinned`), without which putting that flag back would
  be unsound; and `cur_ast_typed` is true only of typed ASTs. The first two do not hold while an exception is handled, when steps are left open.
- `EndInv`: at the ends of the script no combinator runs.

The first part of `TraceProofs` also has what each operator of `TraceSteps` does to these (`Good`, `Neat`, `SameSteps`, `SameProgram`); the cruxes are `CloseStepGood`, which
says what closing a step leaves of the steps below, and on which hypotheses it cannot raise, and `UndoGood`, the whole end of a region.
Its last part maps each frame to a scope. A step of the handler that fails maps to `Abandon`, the restoration to `Undo` (by `HandlerRestores`),
a return from `step_backtrack_on_failure` to `Keep`, and steps that close what an exception left open stutter, for closing keeps the program.

`RowSumProofs` proves, for every width, length, number of channels and source that the contract allows:

- `RowSumCorrect`: `RowSpec => []RowSumRight`. Each value written is the sum of its window, and at the end all are, in each
  of the branches that the script specialises.
- `RowSumInRange`: `RowSpec => []AccessesInRange`.

The source is given by its prefix sums, so that a window is a difference. The inductive invariant `RowInv` says what each loop has done: the
cells written so far are right and are those before the position (`WrittenRight`, `CellsInv`), the
branch and channels are those of the call (`NestInv`), and the accumulators hold the partial sum of the first window
(`WindowInv`) or the window at the position (`SlideInv`). The contract's ghost code leaves several steps of the same argument admitted.

The first part of `BagsProofs`, on the threads, proves, for every mesh, number of threads, field, build of the bags and schedule of the threads:

- `SerialPushAlwaysExclusive`: `Spec => []SerialPushExclusive`, if `EvenTiling`: two threads are never both in a serial push into one bag.

`EvenTiling` says that on each axis the tiles go in pairs of two colours, or that there is at most one pair. The numbers of cells are powers
of two, so it holds of any tile size that is one: 4 by default (`pic_barsamian.c:101-102`), and 2 in `scripts/compile.sh:153`. The source asks
for nothing, and it is needed: with 8 cells and tiles of 3, the tiles that start at 0 and at 6 have the same colour, both may push into the
private bags of cells 7 and 0, and TLC finds them. The inductive invariant is `PInv`, model-checked on `picstep` first:

- `TilesInv`: each tile of the colour is left to one thread or visited by one, at most. It needs that the static blocks are disjoint (`BlocksApart`)
  and that tiles of one colour have different ranks (`TilesShared`), and is set up again at each barrier.
- `PushInv`: a thread that pushes works on a tile, and if it pushes without synchronisation the private region of the tile contains the cell.
  It has to hold through every access of the push, the spin included.
- `RegistersInv`: the registers of the threads have their fields.

The rest is geometry: tiles of one parity are two tile sizes apart, so that half a tile of border on each side does not meet, around
the end of the mesh included (`TilesApart`, `ReachesApart`, `RegionsApart`). `ShiftInMesh` shows that the masks bring every particle back into the mesh,
so `Destinations` leaves out none.

The rest of `BagsProofs`, on the chunks, proves, for the same and every size of chunks, if `EvenTiling`:

- `ChunksAlwaysOwnedOnce`: `Spec => []ChunkOwnedOnce`. Each chunk that was allocated is in one place, once: a bag that is read, a bag that is filled, a
  freelist, or the hands of the thread that extends a bag with it; and the lists of all bags end.
- `SizesAlwaysSettled`: `Spec => []SizesSettled`. A thread that finds a chunk full has already incremented its size, and puts it back later, perhaps
  when others have replaced the chunk. When the size is read, in the next step, all of these are undone.
- `FreeChunksNeverWritten`: `Spec => FreeChunksUntouched`. The late accesses of a push never reach a chunk that was freed.

The inductive invariant is `OwnInv`, next to `PInv`. As in `DemoBagsProofs` it holds an owner and a position for each chunk of a bag (`Chained`), which
are in no variable of the program. The chunks that are in bags are those allocated that no freelist holds and no thread has in hand (`Listed`). Its parts:

- `MemoryInv`, `FreesInv`, `HandsInv`: what memory, freelists and the registers hold; a chunk is in one freelist at most, once, and one in the
  hands of a thread in none, linked to the front of the bag that it will replace.
- `LoopInv` and `AppendInv`: a thread that iterates is on a cell of its tile which it has taken from its cells left to do; each thread appends
  the cells of its block in order. They say which lists have been visited, hence freed, and which were joined.
- `Heads`: which bags have a list in each phase, and that the back of a bag to fill ends its list, on which `bag_append` rests.
- `LateInv`, `BehindInv`, `ExtendersInv`: a size is past the end of a chunk only while a thread is about to undo it; in a bag that is filled only
  the front has room; and *exactly one* thread will extend a bag whose front is full, none otherwise. The last is the heart of the protocol: the thread that
  captured the last index extends, and the others spin. It is where `EvenTiling` is needed, through `SerialPushExclusive`: two serial pushes into
  one bag may both take the last index, and put two chunks in front of the same one, of which one is lost.
- `CreateInv`, `PushesInv`: the registers of a push name a chunk of the bag it pushes into, which may be far behind the front by then, but not freed.
- `SparesInv`: the sums of the lengths of the freelists, and the location from which each thread takes its spare chunks.

During the append phase the freelists still list the chunks that were handed out, so a chunk is in two places in memory, and `Handed` is
the difference. `SparesApart` shows that two bags never get the same chunk, whatever the freelists hold, and `SpareLocated` and `NextSpareLocation` that the optimised
search, which remembers a place in a freelist and moves on by two, finds the chunk that the numbering asks for. `update_free_list_sizes` then cuts the
freelists to what is left. Putting a chunk in front of a list, freeing its front and joining two lists are lemmas on `Chained` (`PrependKeeps`, `CutKeeps`, `JoinKeeps`);
every action is one of these or leaves the lists alone. `MemoryAssumption` is used once, for the chunks made at the start. The invariant was model-checked on
the three instances of `picstep` first.

`ParticlesProofs` goes down to the slots of these chunks, under the same hypothesis:

- `ParticlesAlwaysKept`: `Spec => []ParticlesKept`. Each particle created is in exactly one slot that the program will read, not only at the end
  of a time step, as the CHECKER build tests, but at any access of any thread: none is lost, overwritten, or moved twice.

The inductive invariant is `ParticlesInv`, next to `PInv` and `OwnInv`. A slot *holds* a particle (`Holds`) when it is in a chunk of a bag and below its size, its
reader has not passed it, and no push has captured its index without having written it yet. These slots depend on the registers of all threads, so a
particle goes from the slot that is read to the slot that is written in the one action that writes the item:

- `Numbered`: the particles created number the slots that hold one, one to one.
- `MoversInv`: a thread that pushes has in hand the particle of the slot it is at, which no other thread reads (`ChunkRead`, `SlotInHand`).
- `ClaimsInv`: two pushes that captured an index never write the same slot. Between atomic captures this is so because a size only grows, except in the write that
  undoes an increment past the end (it puts back CHUNK_SIZE), which `LateInv` keeps away from the slots; serial pushes are kept apart by `SerialPushExclusive`.

Then every action is one of four kinds: it moves a particle (`NumberedMove`, with `ItemWritten` for the slot written), it claims a slot above the size, it frees a
chunk whose slots were all passed (`ReaderGoesOn`), or it changes no slot that holds a particle (`NumberedSame`). `SlotsOfCells` relates these slots to those of the property,
which are those reached along the lists. The invariant was model-checked on the instances of `picstep` first.

- `ProgramAlwaysImplementsDemo`: `Spec => ImplementsDemo`, that is `Demo!Spec`. Seen through the slots, the parallel program has the bags, the charge and the
  field of a run of `PicDemo`, with the same particles, steps of time and possible moves: each of its steps is one step of the naive program, or a stutter.

A bag of the naive program is what is in the slots that hold a particle, in the chunks with the bag as owner (`BagsHold`), the shared and the private bag together; so it is
enough to know, of each step, which slot it changes (`ParticlesAlwaysKept`) and that no chunk which stays in a list changes owner (`OwnersStay`). Writing an item is then
`MoveParticle` (`WriteImplements`, which rests on `BagsMove`) and all the other accesses of a push are stutters (`PushImplements`); joining two lists in the append phase is one too
(`BagsAtAppend`), since the owner changes from a bag to fill to the current bag, which the mapping reads together until `EndStep` swaps them (`BagsSwapped`). `StepInv` holds
what remains to be known:

- `TimeInv`: the steps of time are not over while the threads work.
- `ReducedInv`: once a cell is appended its reduced charge is the sum over the threads, to which nobody adds any more.
- `EmptiedInv`: the two bags to fill of a cell that is appended have chunks of size 0, so that nothing is read twice at the next step.

The charge is the part that is counted. A thread writes the item before it deposits the charge, so the mapping adds the items written whose charge is not deposited yet (`NotYetDeposited`),
and `DepositWritten` and `DepositAdded` show that the sum changes when the item is written and not when the charge is. At the creation the first charge
is the number of items of the bags, which is read along the links: as the sums of `TilingProofs`, the sum along a list and the sum over the threads are recursive functions, treated by
`LeastNatural` (`SumsSettle`, `BagGrows`, `ChargeGrows`). The hypothesis is `EvenTiling` again.

`OptimizedProofs` does the same for the program that the script of the case study outputs, for every mesh, number of threads, particles and schedule:

- `ExclusivePushesImplementDemo`: `OptSpec /\ []SerialPushExclusive => ImplementsDemo`. As long as no two threads push serially into one bag, which the comment on
  `bag_push_serial` asks for, the bags, the charge and the field are those of a run of `PicDemo`. Nothing else can go wrong: not the colours, the shares
  of the threads, the two loops with their barriers, or the reduction of the charge. The hypothesis is not idle: the run `picrace` violates it.
- `SerialPushesExclusive`: `OptSpec => []SerialPushExclusive`, if `EvenBlocks` and `MovesAlongX`;
- `OutputImplementsDemo`: `OptSpec => ImplementsDemo`, under the same.

`EvenBlocks` asks of each axis a multiple of two blocks, or one pair of blocks at most; the blocks are of 2 cells, so every power of two is one.
`MovesAlongX` says that in one step a particle moves to a neighbour cell, in any direction, or else any distance along X, in a mesh of several blocks on the other
two axes. The condition is there because the parentheses are missing (`pic_demo_exp.cpp:904`): `InRange` on X alone
makes a push serial, wherever the particle goes along Y and Z. A far move along X is still tested along X: a particle that keeps its Y and Z stays in its block on these axes, hence is at the opposite edge of
the mesh on neither, which makes the other disjuncts false (`CellAround`). With the parentheses nothing would have to be asked of the moves.
The instances of `outputs` satisfy both; that of `picrace`, where a particle goes two cells along Y, does not satisfy `MovesAlongX`.

The inductive invariant is `OptInv`, model-checked first:

- `ColoursInv`, `PhasesInv`: the cells of the colours already visited are empty, so that at the end of the eight colours all are (`EveryCellColoured`), and in the append loop what
  is appended is emptied, what is not yet appended is not touched.
- `NumberedInv`: a particle is in one place, once: in a bag that is read, or in a bag to fill. The particle of a push that has been written is in both, until its charge is deposited.
- `PushInv`: a push moves the first particle of a cell of a block of its thread, and has read the size of the bag that it fills. The last is where `SerialPushExclusive` is needed.

No two threads read one cell, by the shares of the static schedule (`ReadersApart`, from `BlocksApart`) and because blocks of one colour have different ranks. Every action is
one of four kinds, the addition of a particle (`NumberedAdd`), the writing of an item (`NumberedWrite`), the removal of a particle already written (`NumberedLeave`), the
appending of the cells of a thread (`NumberedAppend`), or changes no bag. Writing is `MoveParticle` of `PicDemo` (`WriteImplements`); leaving and appending are stutters. The
charge is counted as in `ParticlesProofs`. For the second theorem `NearInv` adds that a push that is serial has passed the test; on an axis of an even number of blocks, the cells around two blocks of
one colour do not meet, around the end of the mesh included (`AroundApart`).

`TilingProofs` proves, for every mesh of two or three axes, tile size and border, perfect tilings or not:

- `PrivateBagsAlwaysExclusive`: `TilingSpec => []PrivateBagsExclusive`. Each private bag of a cell is given to one tile only, as the documentation
  of `init_all_chunks` says: "we can have only 8 private bags (in 3d) per cell, as long as we ensure that in each direction,
  2 * border_size <= tile_size". Its warning about the computation of the bags is never printed.
- `SpareIdsAlwaysOrdered`: `TilingSpec => []SpareIdsOrdered`. The numbers of the spare chunks are the bijection that its
  comment asks for, in the order it asks for (lines 868-877), for every mesh.

The hypothesis is `TilingAssumption`: the sizes are positive, the borders pass the test of lines 780-790, and the number of bags is the one documented.
On one axis a tile and its borders visit no cell twice, even when they go around the mesh (`SpanOnce`), and the spans of two tiles of one parity share
no cell (`SpansApart`); when the tiling is not perfect this rests on the borders that are left out at both ends, at the cell 0 and at the last even tile
(`LastEvenTile`). Hence two tiles with the same bag share no cell (`PrivateRegionsApart`). The inductive invariant `TilingInv` adds that a cell holds a
private bag only for a tile that was visited and reaches it (`GivenByTile`), so that a visit finds every bag it wants free. `NumbersInv` says what the
sums and the numbers are; the sums are a recursive function, treated by `LeastNatural`: a non-empty set of naturals has a least element, which follows from
the well-foundedness of strict inclusion among finite sets. Both invariants were model-checked first, on the meshes of `outputs` and others.

`DemoBagsProofs` proves, for every mesh, size of chunks, number of steps and of particles, and displacement:

- `ChunksAlwaysPartitioned`: `DemoBagsSpec => []ChunksPartitioned`. `step()` frees the chunks of a bag while it reads it, and fills other bags that may
  get them back at once; yet each chunk that is allocated is in one bag, or is still to be visited, and `main` leaves none.
- `ReportAlwaysComplete`: `DemoBagsSpec => []ReportComplete`. The report at the end lists every particle once, which is what the checker compares.
- `ChunksAlwaysImplementBags`: `DemoBagsSpec => ChunksImplementBags`, that is `NaiveDemo!Spec`. Seen through the chunks that are still to be read, the bags
  are the sets of particles of `PicDemo`, and every step is one of its steps or a stutter.

The hypothesis is `DemoBagsAssumption`: the sizes are those of a mesh, and memory holds at least the first chunk of each bag. When there is no
memory left `chunk_alloc` exits, so the model stops there. The inductive invariant `DemoInv` holds an *owner* and a *position* for each chunk, which are in no
variable of the program: `Chained` says that the chunks of one owner have different positions, that the link of a chunk leads to the
next lower position of the same owner, and that each bag starts at its highest. With it, putting a chunk in front of a list, cutting the front of a list off
and exchanging all the bags are three lemmas (`PrependKeeps`, `CutKeeps`, `SwapKeeps`), independent of the program. What the links lead to is
a recursive function, again treated by `LeastNatural` (`ChainAt`); lists end because there are no more chunks than addresses (`ChainEnds`).
`RoomInv` says that the front of a bag that is not being read has room, so that a push writes into the chunk: the code extends a bag as soon as its front is full.
`ContentsInv` says that what is stored are particles, which is what a push reads from a chunk that is about to be freed.
`IterInv` keeps the iterator on the bag of the current cell, with the size of its chunk, which a push never changes because it goes into a next bag.

`ParticlesInv` adds where the particles are. A *slot* is a place of a chunk that is in use and that the iterator has not passed (`Unread`); `ItemsInv` says that
the particles created number those slots one to one while the steps go on (`Numbered`), and then that those not reported yet number the slots of the chunks
that the report has still to go through (`Ahead`). A move takes the number of the slot that is read (`NextPassesOne`) and gives it to the slot that is written
(`SlotsAfterPush`); an empty chunk that is skipped, and freed, has no slot. `EmptyInv` says that the bags to fill are empty when a step or the report begins,
without which the report, which reads one bag of the two of each cell, would miss some.

For the refinement `BagsInv` adds `VisitedInv`: a particle that the iterator has passed is in no slot of the bag any more. The model takes the visited ones out of the
bag by name, and a particle may come back to its own cell, into the other bag. So a bag of `PicDemo` is what is in the slots of the list of a bag
(`BagsOfSlots`), and it remains to follow two slots: `AddParticleBags` and `MoveNextBags` say which bags gain and lose a particle, `SwapBagsBags` that
what was read has become empty, and that the other steps change none (`BagsSame`, `BagsAtRest`). The three invariants were
model-checked too, with 3 particles and chunks of 2.

`ResourceUsagesProofs` proves laws of the table that composes usages, for all resources:

- `GroupingNeutral`: composing three groups of instructions does not depend on how they are grouped, where both ways succeed;
- `SwapNeutral`: two groups between which no interference is collected, and that choose no ghost value, have the same composite usage in both orders;
- `PartsCovered`: a check of interference on a composite usage covers its parts, for the resources that are still in it.

**Only model-checked.** Liveness (`HandlersEnd`, `RunEnds`), which stays with TLC;
`ValidGrounded`, which holds only of scripts without the combinators of the run `vacuous`; of the properties of `picstep`, `TypeOK` and
`SparesSuffice`, which are candidates for later proofs (section 6); and the properties of `outputs` other than those of row sums, tilings and `PicDemoBags`.
Many of these are about recursive functions of data (`EachTargetOnce`, `GhostsSound`, `KernelsRight`, ...). The library's induction theorems take
an operator as a parameter and cannot be used; `LeastNatural`, of `TilingProofs`, `BagsProofs`, `DemoBagsProofs` and `OptimizedProofs`, replaces them where a set of counterexamples can be named.

## 5. Simplifications and omissions

- A `TraceFailure` (a check on the trace itself fails) ends the run in mode `failed`; what
  `finalize_on_error` saves after it is not modelled.
- Script steps (`!!`, `bigstep`) and `Run.stop` occur only outside of combinators. The code does
  not prevent other uses; the documentation knows none.
- A failure to infer variable ids counts as a failure of typing: both happen inside
  `recompute_resources` and raise.
- Scripts that set a flag by assignment in their middle are not modelled; flags change through
  `with_flag` only, and the initial values are constants.
- `reparse_between_steps` is not modelled; `reparse` as an option of a script step is.
- `restore_original` is left out of the `script` run: `finalize` puts the saved AST back
  (a "temporary hack", 1974-1987) in a step that has no justification, which is valid
  vacuously, as in the run `vacuous`.
- `TypedSound` stops at the end of the script, for the same lines put an AST back without its typed flag.
- `ExitAtScriptLevel` is checked with programs that all type, and with retyping on.
- `target_resolve_step` is one action. An exception inside it (`trace.ml:1265-1277`), which would leave its step open, is not modelled;
  a handler would close that step like any other that was interrupted.
- The contents of dumps, logs, timings, and the styles of display are left out.

**Targets and sequences.**

- The constraints of targets (names, types, strings, occurrences) are reduced to the names matched; one target at a time.
- `Nobrace` has one context. The stack of contexts, and an exception between `enter` and `exit`, are not modelled.
- `Sequence.split` asks `Internal.is_decl_body p` (`sequence_basic.ml:134`) of a path that ends in `Dir_before`, for which it is always false:
  splitting the body of a function leaves a hidden sequence. Calls in the model split inner blocks only.
- `MarksKeepPlace` leaves out `intro_at`, which takes the marks after the grouped items to the point before the group, and `move`.
  `elim_on` and `split` drop the marks of the sequence itself. A copy in nested matches duplicates marks, which is one of the cases in which the
  iteration gives up.

**Resources and ghosts.**

- Formulas are names of cells; unification, pure facts, loops, functions and inference of contracts are left out.
  `collect_interferences` ignores the usage `ArbitrarilyChosen` (`resources.ml:595-596`), which is why `SwapNeutral` excludes it.
- The solver's `in_range` and `is_subrange` (`arith.ml:61-66`) ignore where a range with a step starts, and
  `group_split` only requires `is_subrange`: the run `splits` shows both, and `outputs` has aligned ranges and cuts.
  `group_collapse` does not require sizes to be natural (two negative ones make a group out of nothing),
  `group_scale` only requires a factor other than zero and `ro_group_scale` nothing; `ro_fork_group` of an empty range divides by zero.
  These four are not evaluated with such arguments (quotients by zero or by a negative number): the runs show nothing of them there. `loop_basic.ml:1014` closes with `ghost_ro_group_scale` where the inverse is expected.
- `assume`, `to_prove` and `rewrite_float_linear`, whose proof is left to the user, are not modelled.

**Simulations.**

- Schedules are static. The order in which cells of a tile are treated is left open, more than in the code.
- The field decides where particles go; in `picstep` and `PicOptimized` the displacement is chosen, and the charge of a cell is a count.
  `PicForces`, `PicSingle` and `BarsamianForces` have the exact functions, the corners included, with an arbitrary Poisson solver.
- `malloc` returns the lowest free address; when no address of the model is left the step that needs one is not taken, where the code exits with a message. Chunks of 256 never fill in `PicOptimized`. `PicDemoBags` has empty chunks at the front only.
- In `PicForces` a mask by a power of two is a remainder, and numbers are such that quotients are exact. `int_of_double` of a negative whole number gives
  one cell too low, with a relative position of 1.0: the cell differs from the naive program's, position and deposit do not.
- `PicSingle` rounds to multiples of a grain. Rounding can bring a relative position to 1.0, and the first deposit uses positions that are not rounded.
- Counters of pushes are collected but not printed: `contrib_report(..., CONTRIB_NONATOMIC_PUSH)` prints the keys below it. `contrib` holds 40 threads, which
  nothing checks; `pic_optimized_stable.c` sets 4 threads instead of asking OpenMP.
- `PicTiling` has the two axes tiled in 2d3v (5 bags); the rest of 2d3v, which is the same code with other fields, is not modelled.
- `DRIFT_VELOCITIES_3D` makes `kmode` zero, by which `BarsamianForces`' source divides; it is not modelled.
- In `SpaceFillingCurves` the test `#if (I_CELL_2D_TYPE == ROW_MAJOR)` compares enumerators, which the preprocessor replaces by 0, so that row-major is always
  chosen; the others are modelled as their text says. A mesh of a single cell has `curveOrder` 0, with which the Hilbert functions do not end; orders are at least 1.
  Tables are modelled by the permutation of bits that they hold. Tile orders need tiles that divide the sizes.

**Other programs.**

- Floating-point numbers are integers, or polynomials modulo 251 in `CliftForward`; the block size of `quantize` divides its length and maxima are multiples
  of 127, for which it is exact (a group of zeros divides by zero).
- Harris: the weights are factored out, and what an uninitialised buffer holds is one number, 977. The epilogue of `harris_regrot_vec` is wrong as
  its FIXME says: the last four columns are left out of the comparison.
- `CliftKernels`: `rope` needs an even number of columns, which no contract says, and an admitted ghost.
- Floyd's words have 16 bits and do not overflow. The sizes 256 and 32 of the sort, and of strips, are parameters.
- Micro-simulations: a field of a particle that is not a number is not followed further than its position and speed; `minipic` has cells on one axis.

**Not modelled, and why.** The C and C++ front end is tree translation over clang's AST, without state. The Poisson solver is numerical
analysis. The aos variants, the GPU sketches (`.cu`), annotated copies (`matmul_annot.c`, `pic_demo_annot.c`), `fixed_tmp_micropic.cpp`,
`exp_wc.cpp` and notes such as `opencv/all.cpp` are the same programs again or do not compile
(`CUSTOM_BAG_CHUNK_ALLOC` in `bag.c` does not either). Initial distributions, diagnostics, the reader of parameters and the viewers
are input and output. The stack of Nobrace contexts, the reset of flags with the tester, the trace server and the editor bridge have control worth modelling, and are in the plan.

## 6. Plan

In this order:

1. `ScopedState`: the stack of `Nobrace` with exceptions between `enter` and `exit`, resets of flags and batches of tests in one process.
2. `restore_original` with `finalize`, and `Run.stop` inside combinators: the two hazards of the trace that no property covers.
3. `Watcher`, `TraceServer`: the editor's action file and the server's cache, with lost and reordered actions.
4. More of the transformation library on `MarkedSequences`: loops (`fission`, `fusion`, `tile`) as rewrites of index ranges, with the criteria of
   `resources.ml` for parallel loops.
5. Proofs: `TypeOK` and `SparesSuffice` of `picstep`; recursive functions of data (`DensityRight`, `StridedRight`) along `LeastNatural`.
