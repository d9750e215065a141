---------------------------- MODULE PicBarsamian ----------------------------
(***************************************************************************)
(* The parallel simulation written by hand, simulations/pic_barsamian.c:   *)
(* at each time step the threads visit the tiles of one colour after the   *)
(* other, moving the particles of their tiles into the bags of the next    *)
(* step, then append the bags and reduce the charge, cell by cell.         *)
(*                                                                         *)
(* A particle moves by some displacement: the field that decides it is not *)
(* modelled, what it is computed from is (the charge deposited by cell).   *)
(***************************************************************************)
EXTENDS ChunkBags

CONSTANTS
  InitialCells,     \* per particle: the cells where the creation may put it
  Displacements,    \* per particle: how far, in cells, it may move in one step
  Configurations    \* allocation scheme and number of iterations of the runs

ASSUME ConfigurationAssumption == Configurations \subseteq [build : Builds, num_iteration : Nat]

VARIABLES
  num_iteration,
  phase,            \* "create", "move", "single", "append" or "done"
  nbCreated,
  i_time,
  i_color,
  tiles,            \* per thread: the tiles of the colour it has still to visit
  loop,             \* per thread: its tile, the cells left in it, chunk and index
  charge_accu,      \* per thread and cell
  appendNext,       \* per thread: next cell of its block of the append loop
  reduced_charge_accu,
  rho_3d

simVars == <<num_iteration, phase, nbCreated, i_time, i_color, tiles, loop, charge_accu,
             appendNext, reduced_charge_accu, rho_3d>>
vars == <<bagVars, simVars>>

NoCharge == [j \in Cells |-> 0]
NoTile == [tile |-> <<0, 0, 0>>, j |-> 0, todo |-> {}, my_chunk |-> NULL, i |-> 0]
Working(t) == loop[t].my_chunk # NULL
CellBlock(t) == StaticBlock(t, NbThreads, NumCells)
FirstCells == [t \in Threads |-> Min(CellBlock(t) \cup {NumCells})]

\* The loop on the tiles is collapsed, and shared out statically: what the
\* compilers do of an "omp for" without a schedule clause.
FirstCellOf(tile) == CellOf(tile[1], tile[2], tile[3])
TileRank(tile, color) ==
  Cardinality({other \in TilesOfColor(color) : FirstCellOf(other) < FirstCellOf(tile)})
TileBlocks(color) ==
  [t \in Threads |->
     LET block == StaticBlock(t, NbThreads, Cardinality(TilesOfColor(color)))
     IN  {tile \in TilesOfColor(color) : TileRank(tile, color) \in block}]
NoTiles == [t \in Threads |-> {}]

\* The chunks of the list that starts at c.  A list that reaches its end has no
\* chunk twice.
ChunksFrom(c) ==
  LET from[k \in 0 .. MaxChunks] ==
        [a \in 0 .. MaxChunks |-> IF a = NULL \/ k = 0 THEN {} ELSE {a} \cup from[k - 1][chunk[a].next]]
  IN  from[MaxChunks][c]
ListEnds(c) == c = NULL \/ \E a \in ChunksFrom(c) : chunk[a].next = NULL

-----------------------------------------------------------------------------
Init ==
  /\ \E cfg \in Configurations : build = cfg.build /\ num_iteration = cfg.num_iteration
  /\ InitBags
  /\ cumulative = [t \in Threads |-> 0] /\ lastSpare = 0
  /\ spareLocation = [t \in Threads |-> NoLocation]
  /\ push = [t \in Threads |-> NoPush]
  /\ failed = FALSE
  /\ phase = "create" /\ nbCreated = 0 /\ i_time = 0 /\ i_color = 0 /\ tiles = NoTiles
  /\ loop = [t \in Threads |-> NoTile]
  /\ charge_accu = [t \in Threads |-> NoCharge]
  /\ appendNext = FirstCells
  /\ reduced_charge_accu = NoCharge /\ rho_3d = NoCharge

\* create_particle_array_3d, or read_particle_array_3d: one particle.
CreateParticle(j) ==
  /\ phase = "create" /\ ~failed /\ nbCreated < nbParticles
  /\ j \in InitialCells[nbCreated + 1]
  /\ nbCreated' = nbCreated + 1
  /\ PushInitial(j, nbCreated + 1)
  /\ UNCHANGED <<build, num_iteration, spareVars, particlesNext, push, phase, i_time, i_color, tiles,
                 loop, charge_accu, appendNext, reduced_charge_accu, rho_3d>>

\* End of the creation, charge and field at the initial time, leap-frog.
SizeOfBag(bag) ==
  LET size[k \in 0 .. MaxChunks] ==
        [a \in 0 .. MaxChunks |-> IF a = NULL \/ k = 0 THEN 0 ELSE chunk[a].size + size[k - 1][chunk[a].next]]
  IN  size[MaxChunks][bag.front]

\* Faulty: charge_accu is not reset at the beginning of the step.
StartLoopKeepingCharge(time) ==
  /\ UNCHANGED charge_accu
  /\ IF time < num_iteration THEN phase' = "move" /\ i_color' = 0 /\ tiles' = TileBlocks(0)
     ELSE phase' = "done" /\ UNCHANGED <<i_color, tiles>>

StartLoop(time) ==
  IF time < num_iteration
  THEN /\ phase' = "move" /\ i_color' = 0 /\ tiles' = TileBlocks(0)
       /\ charge_accu' = [t \in Threads |-> NoCharge]
  ELSE /\ phase' = "done" /\ UNCHANGED <<i_color, tiles, charge_accu>>

StartSimulation ==
  /\ phase = "create" /\ ~failed /\ nbCreated = nbParticles
  /\ IF build = "STDCHUNKALLOC" THEN UNCHANGED freeChunks ELSE init_freelists
  /\ reduced_charge_accu' = [j \in Cells |-> SizeOfBag(particles[j])]
  /\ rho_3d' = reduced_charge_accu'
  /\ StartLoop(0)
  /\ UNCHANGED <<build, num_iteration, chunk, allocated, spareVars, particles, particlesNext, push, failed,
                 nbCreated, i_time, loop, appendNext>>

-----------------------------------------------------------------------------
\* The particle loop.

TakeTile(t) ==
  /\ phase = "move" /\ ~Working(t)
  /\ \E tile \in tiles[t] :
       LET first == FirstCellOf(tile) IN
       /\ \A other \in tiles[t] : first <= FirstCellOf(other)
       /\ tiles' = [tiles EXCEPT ![t] = @ \ {tile}]
       /\ loop' = [loop EXCEPT ![t] = [tile |-> tile, j |-> first, todo |-> CellsOfTile(tile) \ {first},
                                       my_chunk |-> particles[first].front, i |-> 0]]
  /\ UNCHANGED <<bagVars, num_iteration, phase, nbCreated, i_time, i_color, charge_accu, appendNext,
                 reduced_charge_accu, rho_3d>>

\* The cells where a particle of cell j may arrive.
Destinations(p, j) == {i_cell \in Cells : \E d \in Displacements[p] : i_cell = Shift(j, d)}

\* New position of the next particle of the chunk, and start of its push.
MoveParticle(t) ==
  /\ phase = "move" /\ Working(t) /\ Idle(t)
  /\ loop[t].i < chunk[loop[t].my_chunk].size
  /\ LET p == chunk[loop[t].my_chunk].item[loop[t].i]
     IN  \E i_cell \in Destinations(p, loop[t].j) :
           StartPush(t, IF InPrivateRegion(loop[t].tile, i_cell) THEN ID_PRIVATE_BAG ELSE ID_SHARED_BAG, i_cell, p)
  /\ UNCHANGED <<build, memoryVars, spareVars, particles, particlesNext, failed, simVars>>

\* Faulty: the charge is deposited where the particle comes from.
DepositAtOldCell(t) ==
  /\ phase = "move" /\ push[t].pc = "returned"
  /\ charge_accu' = [charge_accu EXCEPT ![t][loop[t].j] = @ + 1]
  /\ loop' = [loop EXCEPT ![t].i = @ + 1]
  /\ push' = [push EXCEPT ![t] = NoPush]
  /\ UNCHANGED <<build, num_iteration, memoryVars, spareVars, particles, particlesNext, failed, phase, nbCreated,
                 i_time, i_color, tiles, appendNext, reduced_charge_accu, rho_3d>>

\* The push has returned: the charge is deposited, and the thread goes on.
DepositCharge(t) ==
  /\ phase = "move" /\ push[t].pc = "returned"
  /\ charge_accu' = [charge_accu EXCEPT ![t][push[t].cell] = @ + 1]
  /\ loop' = [loop EXCEPT ![t].i = @ + 1]
  /\ push' = [push EXCEPT ![t] = NoPush]
  /\ UNCHANGED <<build, num_iteration, memoryVars, spareVars, particles, particlesNext, failed, phase, nbCreated,
                 i_time, i_color, tiles, appendNext, reduced_charge_accu, rho_3d>>

\* End of a chunk: it is freed, and the thread goes to the next one of the
\* bag, or to the next cell of the tile, or is done with the tile.
NextChunk(t) ==
  /\ phase = "move" /\ Working(t) /\ Idle(t)
  /\ LET c == loop[t].my_chunk
         next == chunk[c].next
         j == Min(loop[t].todo)
     IN  /\ loop[t].i >= chunk[c].size
         /\ chunk_free(c, t)
         /\ loop' = [loop EXCEPT ![t] =
              IF next # NULL THEN [@ EXCEPT !.my_chunk = next, !.i = 0]
              ELSE IF loop[t].todo = {} THEN NoTile
              ELSE [@ EXCEPT !.j = j, !.todo = loop[t].todo \ {j}, !.my_chunk = particles[j].front, !.i = 0]]
  /\ UNCHANGED <<build, num_iteration, chunk, spareVars, particles, particlesNext, push, failed, phase, nbCreated,
                 i_time, i_color, tiles, charge_accu, appendNext, reduced_charge_accu, rho_3d>>

PushParticle(t) == phase = "move" /\ PushStep(t) /\ UNCHANGED simVars

\* Implicit barrier at the end of the tiles of a colour.
ColorDone == phase = "move" /\ tiles = NoTiles /\ \A t \in Threads : ~Working(t)
NextColor ==
  /\ ColorDone
  /\ IF i_color < Max(Colors)
     THEN i_color' = i_color + 1 /\ tiles' = TileBlocks(i_color + 1) /\ UNCHANGED phase
     ELSE phase' = "single" /\ UNCHANGED <<i_color, tiles>>
  /\ UNCHANGED <<bagVars, num_iteration, nbCreated, i_time, loop, charge_accu, appendNext, reduced_charge_accu, rho_3d>>

-----------------------------------------------------------------------------
\* After the particle loop.

\* The single region, with the barrier at its end.
Single ==
  /\ phase = "single"
  /\ compute_cumulative_free_list_sizes
  /\ phase' = "append"
  /\ appendNext' = FirstCells
  /\ UNCHANGED <<build, num_iteration, particles, particlesNext, push, failed, nbCreated, i_time, i_color, tiles,
                 loop, charge_accu, reduced_charge_accu, rho_3d>>

ReducedCharge(j) ==
  LET sum[t \in Threads] == charge_accu[t][j] + (IF t = 0 THEN 0 ELSE sum[t - 1])
  IN  sum[NbThreads - 1]

\* One iteration of the append loop: bags, then reduction of the charge.
AppendAndReduce(t) ==
  /\ phase = "append" /\ ~failed
  /\ LET j == appendNext[t] IN
     /\ j \in CellBlock(t)
     /\ AppendCell(t, j)
     /\ reduced_charge_accu' = [reduced_charge_accu EXCEPT ![j] =
                                  ReducedCharge(j)]
     /\ appendNext' = [appendNext EXCEPT ![t] = j + 1]
  /\ UNCHANGED <<build, num_iteration, push, phase, nbCreated, i_time, i_color, tiles, loop, charge_accu, rho_3d>>

\* After the parallel region: freelists, charge density and field, next step.
EndStep ==
  /\ phase = "append" /\ ~failed
  /\ \A t \in Threads : appendNext[t] \notin CellBlock(t)
  /\ update_free_list_sizes
  /\ rho_3d' = reduced_charge_accu
  /\ i_time' = i_time + 1
  /\ StartLoop(i_time + 1)
  /\ UNCHANGED <<build, num_iteration, chunk, allocated, spareVars, particles, particlesNext, push, failed,
                 nbCreated, loop, appendNext, reduced_charge_accu>>

ThreadStep(t) ==
  TakeTile(t) \/ MoveParticle(t) \/ PushParticle(t) \/ DepositCharge(t) \/ NextChunk(t) \/ AppendAndReduce(t)
MainStep == (\E j \in Cells : CreateParticle(j)) \/ StartSimulation \/ NextColor \/ Single \/ EndStep

Next == MainStep \/ \E t \in Threads : ThreadStep(t)

\* Every thread of the team keeps running: each is a thread of the system.
Spec == Init /\ [][Next]_vars /\ WF_vars(MainStep) /\ \A t \in Threads : WF_vars(ThreadStep(t))

-----------------------------------------------------------------------------
\* What the state means: which chunks a list holds, which particles a slot.

Pending(j) ==
  \/ ColorOfCell[j] > i_color
  \/ \E t \in Threads : TileOfCell[j] \in tiles[t] \/ j \in loop[t].todo
Appended(j) == \E t \in Threads : j \in CellBlock(t) /\ j < appendNext[t]

\* First chunk of the current bag of cell j that a thread has not freed yet.
Visitors(j) == {t \in Threads : Working(t) /\ loop[t].j = j}
CurrentFront(j) ==
  CASE phase = "move" /\ ~Pending(j) -> IF Visitors(j) = {} THEN NULL ELSE loop[Min(Visitors(j))].my_chunk
    [] phase = "single" \/ (phase = "append" /\ ~Appended(j)) -> NULL
    [] OTHER -> particles[j].front
NextFront(kind, j) == particlesNext[kind][j].front
CurrentChunks(j) == ChunksFrom(CurrentFront(j))
NextChunks(kind, j) == ChunksFrom(NextFront(kind, j))

Written(t) == push[t].pc \in {"extend", "publish", "returned"}
InHand(t) == IF push[t].pc = "publish" THEN {push[t].c} ELSE {}
Elements(s) == {s[i] : i \in DOMAIN s}

\* Slots of chunk c that hold a particle that is still to be moved ...
SlotsToMove(c) ==
  {i \in Slots : /\ i < chunk[c].size
                 /\ \A t \in Threads : loop[t].my_chunk = c =>
                      i > loop[t].i \/ (i = loop[t].i /\ ~Written(t))}
\* ... and that hold a particle that has been: taken, and written.
SlotsWritten(c) ==
  {i \in Slots : /\ i < chunk[c].size
                 /\ ~\E t \in Threads : push[t].pc = "write" /\ push[t].c = c /\ push[t].index = i}

SlotsToMoveAt(j) == {s \in CurrentChunks(j) \X Slots : s[2] \in SlotsToMove(s[1])}
SlotsWrittenAt(j) ==
  {s \in (UNION {NextChunks(kind, j) : kind \in BagKinds}) \X Slots : s[2] \in SlotsWritten(s[1])}
ItemsAt(slots) == {chunk[s[1]].item[s[2]] : s \in slots}

-----------------------------------------------------------------------------
PushPC == {"idle", "serial_take", "serial_write", "read_front", "capture", "write", "undo", "spin",
           "extend", "publish", "returned"}
Bag == [front : 0 .. MaxChunks, back : 0 .. MaxChunks]

TypeOK ==
  /\ [build |-> build, num_iteration |-> num_iteration] \in Configurations
  /\ chunk \in [Addresses -> [size : 0 .. CHUNK_SIZE + NbThreads, next : 0 .. MaxChunks,
                              item : [Slots -> 0 .. nbParticles]]]
  /\ allocated \subseteq Addresses
  /\ DOMAIN freeChunks = Threads
  /\ \A t \in Threads : Elements(freeChunks[t]) \subseteq Addresses
  /\ cumulative \in [Threads -> Nat] /\ lastSpare \in Threads
  /\ spareLocation \in [Threads -> [thread : Threads, offset : Nat, maxOffset : Nat]]
  /\ particles \in [Cells -> Bag]
  /\ particlesNext \in [BagKinds -> [Cells -> Bag]]
  /\ push \in [Threads -> [pc : PushPC, kind : BagKinds, cell : Cells, p : 0 .. nbParticles,
                           c : 0 .. MaxChunks, index : 0 .. CHUNK_SIZE + NbThreads]]
  /\ failed \in BOOLEAN
  /\ phase \in {"create", "move", "single", "append", "done"}
  /\ nbCreated \in 0 .. nbParticles /\ i_time \in 0 .. num_iteration /\ i_color \in Colors
  /\ \A t \in Threads : /\ tiles[t] \subseteq TilesOfColor(i_color)
                         /\ loop[t].todo \subseteq Cells /\ loop[t].i \in 0 .. CHUNK_SIZE
  /\ charge_accu \in [Threads -> [Cells -> 0 .. nbParticles]]
  /\ reduced_charge_accu \in [Cells -> 0 .. nbParticles] /\ rho_3d \in [Cells -> 0 .. nbParticles]
  /\ appendNext \in [Threads -> 0 .. NumCells]

\* Every chunk in memory is in exactly one list: a current bag, a bag of the
\* next step, a freelist, or the hands of the thread that extends a bag with
\* it.  (During the append phase the freelists still list the spare chunks
\* that bag_init has handed out, until update_free_list_sizes.)
Lists == {<<"current", j, 0>> : j \in Cells} \cup ({"next"} \X Cells \X BagKinds)
           \cup ({"free", "hand"} \X Threads \X {0})
ChunksIn(l) ==
  CASE l[1] = "current" -> CurrentChunks(l[2])
    [] l[1] = "next" -> NextChunks(l[3], l[2])
    [] l[1] = "free" -> Elements(freeChunks[l[2]])
    [] l[1] = "hand" -> InHand(l[2])

ChunkOwnedOnce ==
  phase # "append" =>
    LET owners == UNION {ChunksIn(l) \X {l} : l \in Lists}
    IN  /\ {o[1] : o \in owners} = allocated
        /\ \A o, other \in owners : o[1] = other[1] => o = other
        /\ \A j \in Cells : ListEnds(CurrentFront(j)) /\ \A kind \in BagKinds : ListEnds(NextFront(kind, j))
        /\ \A t \in Threads : \A i, k \in DOMAIN freeChunks[t] : freeChunks[t][i] = freeChunks[t][k] => i = k

\* The "particles lost" test of the CHECKER build, at every step: each particle
\* created is in exactly one slot that the program will read, despite the two
\* pushes of one index, the undone increments and the reused chunks.
ParticlesKept ==
  phase \in {"create", "move", "done"} =>
    LET slots == UNION {SlotsToMoveAt(j) \cup SlotsWrittenAt(j) : j \in Cells}
    IN  Cardinality(slots) = nbCreated /\ ItemsAt(slots) = 1 .. nbCreated

\* "This function is not thread-safe" (bag_push_serial): the colours, the tiles
\* and their borders keep two threads from pushing serially into one bag.
InSerialPush(t) == push[t].kind = ID_PRIVATE_BAG /\ ~Idle(t) /\ push[t].pc # "returned"
SerialPushExclusive ==
  \A t, u \in Threads :
    t # u /\ InSerialPush(t) /\ InSerialPush(u) => push[t].cell # push[u].cell

\* At the time the program reads the size of a chunk to iterate on it, no late
\* increment of a push into the full chunk is left in it.
SizesSettled ==
  \A j \in Cells : \A c \in CurrentChunks(j) : chunk[c].size <= CHUNK_SIZE

\* "We are never too careful": the chunks made at the start are enough for the
\* creation, and at each step the freelists hold a chunk for every bag, at the
\* place where the append phase looks for it, so that it never has to allocate.
SparesSuffice ==
  /\ ~failed
  /\ phase = "single" /\ build # "STDCHUNKALLOC" => Missing = 0

\* A chunk that is free, in a freelist or given back to malloc, is not written:
\* no push that is late in a chunk outlives the time step of the chunk.
FreeChunksUntouched ==
  [][phase = "move" =>
       \A c \in Addresses : chunk'[c] # chunk[c] =>
         /\ c \in allocated \cup allocated'
         /\ ~\E t \in Threads : c \in Elements(freeChunks[t]) /\ c \in Elements(freeChunks'[t])]_vars

\* Every run reaches its last step: no thread spins for ever on the front of a
\* bag, nor waits at a barrier for a thread that does.
RunEnds == <>(phase = "done")

\* What the state is for the naive program.  A particle changes bags when its
\* item is written, and its charge, deposited after that, counts at once; once
\* a cell is appended its particles are in the current bag, but the naive
\* program swaps the bags only at the end of the step.
NotYetDeposited(j) == Cardinality({t \in Threads : Written(t) /\ push[t].cell = j})
BagCur(j) == IF phase \in {"single", "append"} THEN {} ELSE ItemsAt(SlotsToMoveAt(j))
BagNext(j) ==
  IF phase = "append" /\ Appended(j)
  THEN ItemsAt({s \in CurrentChunks(j) \X Slots : s[2] < chunk[s[1]].size})
  ELSE ItemsAt(SlotsWrittenAt(j))
DepositAt(j) ==
  CASE phase = "create" -> SizeOfBag(particles[j])
    [] phase = "done" -> 0
    [] OTHER -> ReducedCharge(j) + NotYetDeposited(j)
BagsCur == [j \in Cells |-> BagCur(j)]
BagsNext == [j \in Cells |-> BagNext(j)]
Deposits == [j \in Cells |-> DepositAt(j)]

\* The parallel program computes what the naive one does; bags are swapped and
\* the field updated in the code that follows the parallel region.
Demo == INSTANCE PicDemo WITH
  nbSteps <- num_iteration, started <- phase # "create", idStep <- i_time,
  bagsCur <- BagsCur, bagsNext <- BagsNext, deposit <- Deposits, field <- rho_3d
ImplementsDemo == Demo!Spec

=============================================================================
