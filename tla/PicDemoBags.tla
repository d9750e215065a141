---------------------------- MODULE PicDemoBags ----------------------------
(***************************************************************************)
(* The naive simulation down to the memory of its bags: the loops of       *)
(* simulations/pic_demo.c over the linked chunks of src/bag.c, with the    *)
(* allocation by malloc (the part of bag.c under CUSTOM_BAG_CHUNK_ALLOC    *)
(* does not compile) and the report of the checker.                        *)
(*                                                                         *)
(* step() frees the chunks of a bag while it reads it, and pushes at the   *)
(* same time into other bags, which may receive the chunks just freed.     *)
(***************************************************************************)
EXTENDS Integers, Sequences, FiniteSets, FiniteSetsExt

CONSTANTS
  gridX, gridY, gridZ,
  ChunkSize,
  NbParticles,
  NbSteps,
  Moves,           \* per particle: how far, in cells, it may move in one step
  HeapSize         \* bound of the model on the addresses that malloc returns

ASSUME DemoBagsAssumption ==
  /\ gridX \in Nat \ {0} /\ gridY \in Nat \ {0} /\ gridZ \in Nat \ {0}
  /\ ChunkSize \in Nat \ {0} /\ NbParticles \in Nat /\ NbSteps \in Nat
  /\ Moves \in [1 .. NbParticles -> SUBSET (Int \X Int \X Int)]
  /\ HeapSize \in Nat /\ 2 * gridX * gridY * gridZ <= HeapSize

VARIABLES
  main,            \* where main() is: "create", "step", "report" or "returned"
  created,
  stepsDone,
  idCell,          \* the cell whose bag is visited
  it,              \* the bag_iter, and what it has returned last
  heap,            \* the chunks: fields size, next and items, by address
  live,            \* the addresses that are allocated
  cur,             \* bagsCur
  nxt,             \* bagsNext
  charge,          \* deposit
  electric,        \* field, abstracted to the deposit it is computed from
  reported         \* the particles that the report of the checker lists

demoBagsVars == <<main, created, stepsDone, idCell, it, heap, live, cur, nxt, charge, electric, reported>>

Geometry == INSTANCE PicGrid WITH ncx <- gridX, ncy <- gridY, ncz <- gridZ, OMP_TILE_SIZE <- 1
nbCells == gridX * gridY * gridZ
CellIds == 0 .. nbCells - 1
BagIds == {"cur", "nxt"} \X CellIds
NULL == 0
NoDeposit == [j \in CellIds |-> 0]

-----------------------------------------------------------------------------
\* Chunks and bags.  Malloc returns some address that is not in use: the lowest
\* one, which is soon one that has just been freed.
MallocIn(used) == Min((1 .. HeapSize) \ used)

\* chunk_alloc exits when there is no memory left.
MemoryLeft == live # 1 .. HeapSize
Stored(c) == heap[c].size
BagOf(c) == [front |-> c, back |-> c]

\* The addresses that the links lead to from chunk c, and NULL at the end.
ChainIn(memory, c) ==
  LET nth[i \in 0 .. HeapSize] == IF i = 0 THEN c ELSE IF nth[i - 1] = NULL THEN NULL ELSE memory[nth[i - 1]].next
  IN  nth
Chain(c) == ChainIn(heap, c)
ChunksFrom(c) == {Chain(c)[i] : i \in 0 .. HeapSize} \ {NULL}

\* Faulty: the new chunk is not linked to the others.
AddFrontUnlinked(memory, c) ==
  [heap |-> [memory EXCEPT ![MallocIn(live)].size = 0, ![MallocIn(live)].next = NULL],
   live |-> live \cup {MallocIn(live)}, front |-> MallocIn(live)]

\* bag_add_front_chunk_serial: a new empty chunk before chunk c.
AddFront(memory, c) ==
  [heap |-> [memory EXCEPT ![MallocIn(live)].size = 0, ![MallocIn(live)].next = c],
   live |-> live \cup {MallocIn(live)}, front |-> MallocIn(live)]

\* bag_push_serial, which extends the bag as soon as its front chunk is full.
Push(b, p) ==
  LET c == b.front
      written == [heap EXCEPT ![c].size = Stored(c) + 1, ![c].items[Stored(c)] = p]
  IN  IF Stored(c) < ChunkSize - 1 THEN [heap |-> written, live |-> live, front |-> c]
      ELSE AddFront(written, c)

CanPush(b) == Stored(b.front) < ChunkSize - 1 \/ MemoryLeft

\* The iterator.  bag_iter_get skips empty chunks; a destructive iterator frees
\* the chunks that it leaves.
NoIter == [at |-> "nowhere", chunk |-> NULL, size |-> 0, index |-> 0]
Ended == [NoIter EXCEPT !.at = "NULL"]
Load(c) == [at |-> "particle", chunk |-> c, size |-> Stored(c), index |-> 0]

FirstFull(c) == Min({i \in 0 .. HeapSize : Chain(c)[i] = NULL \/ Stored(Chain(c)[i]) # 0})
Skipped(c) == {Chain(c)[i] : i \in 0 .. FirstFull(c) - 1}

\* Faulty: an empty chunk is taken for the end of the bag.
StopAtEmpty(c) == IF c = NULL \/ Stored(c) = 0 THEN Ended ELSE Load(c)

Get(c) == IF Chain(c)[FirstFull(c)] = NULL THEN Ended ELSE Load(Chain(c)[FirstFull(c)])

InChunk == it.index + 1 < it.size
Advanced == IF InChunk THEN [it EXCEPT !.index = @ + 1]
            ELSE IF heap[it.chunk].next = NULL THEN Ended
            ELSE Get(heap[it.chunk].next)

\* Faulty: the last chunk of the bag is not freed.
KeepLast == IF InChunk \/ heap[it.chunk].next = NULL THEN {}
            ELSE {it.chunk} \cup Skipped(heap[it.chunk].next)

\* The chunks that bag_iter_next frees when it is destructive.
Left == IF InChunk THEN {}
        ELSE {it.chunk} \cup (IF heap[it.chunk].next = NULL THEN {} ELSE Skipped(heap[it.chunk].next))

Current == heap[it.chunk].items[it.index]

-----------------------------------------------------------------------------
\* allocateStructures and resetDeposit: two bags per cell, of one empty chunk.
DemoBagsInit ==
  /\ main = "create" /\ created = 0 /\ stepsDone = 0 /\ idCell = 0 /\ it = NoIter
  /\ heap = [a \in 1 .. HeapSize |-> [size |-> 0, next |-> NULL, items |-> [i \in 0 .. ChunkSize - 1 |-> NULL]]]
  /\ live = 1 .. 2 * nbCells
  /\ cur = [j \in CellIds |-> BagOf(2 * j + 1)]
  /\ nxt = [j \in CellIds |-> BagOf(2 * j + 2)]
  /\ charge = NoDeposit /\ electric = NoDeposit
  /\ reported = <<>>

AddParticle ==
  /\ main = "create" /\ created < NbParticles
  /\ created' = created + 1
  /\ \E j \in CellIds :
       LET pushed == Push(cur[j], created') IN
       /\ CanPush(cur[j])
       /\ heap' = pushed.heap /\ live' = pushed.live
       /\ cur' = [cur EXCEPT ![j].front = pushed.front]
       /\ charge' = [charge EXCEPT ![j] = @ + 1]
  /\ UNCHANGED <<main, stepsDone, idCell, it, nxt, electric, reported>>

UpdateField == electric' = charge /\ charge' = NoDeposit
NextStep(done) == main' = IF done < NbSteps THEN "step" ELSE "report"

\* The leap-frog only changes the speeds of the particles.
StepLeapFrog ==
  /\ main = "create" /\ created = NbParticles
  /\ UpdateField
  /\ NextStep(0)
  /\ UNCHANGED <<created, stepsDone, idCell, it, heap, live, cur, nxt, reported>>

\* bag_iter_begin or bag_iter_destructive_begin on the bag of the next cell.
BeginBag ==
  /\ main \in {"step", "report"} /\ idCell < nbCells /\ it = NoIter
  /\ LET c == cur[idCell].front IN
     /\ it' = Get(c)
     /\ live' = IF main = "step" THEN live \ Skipped(c) ELSE live
  /\ UNCHANGED <<main, created, stepsDone, idCell, heap, cur, nxt, charge, electric, reported>>

\* The body of the loop of step(), and bag_iter_next.
MoveNext ==
  /\ main = "step" /\ it.at = "particle"
  /\ \E d \in Moves[Current] :
       LET idCell2 == Geometry!Shift(idCell, d)
           pushed == Push(nxt[idCell2], Current)
       IN  /\ CanPush(nxt[idCell2])
           /\ heap' = pushed.heap
           /\ nxt' = [nxt EXCEPT ![idCell2].front = pushed.front]
           /\ charge' = [charge EXCEPT ![idCell2] = @ + 1]
           /\ it' = Advanced
           /\ live' = pushed.live \ Left
  /\ UNCHANGED <<main, created, stepsDone, idCell, cur, electric, reported>>

\* The same of reportParticlesState.
ReportNext ==
  /\ main = "report" /\ it.at = "particle"
  /\ reported' = Append(reported, Current)
  /\ it' = Advanced
  /\ UNCHANGED <<main, created, stepsDone, idCell, heap, live, cur, nxt, charge, electric>>

\* After the loop on the bag: step() initialises it again.
EndBag ==
  /\ it.at = "NULL" /\ (main = "step" => MemoryLeft)
  /\ idCell' = idCell + 1 /\ it' = NoIter
  /\ IF main = "report" THEN UNCHANGED <<heap, live, cur>>
     ELSE LET c == MallocIn(live) IN
          /\ heap' = [heap EXCEPT ![c].size = 0, ![c].next = NULL]
          /\ live' = live \cup {c}
          /\ cur' = [cur EXCEPT ![idCell] = BagOf(c)]
  /\ UNCHANGED <<main, created, stepsDone, nxt, charge, electric, reported>>

\* After the loop on the cells: bag_swap on each cell, and the new field.
SwapBags ==
  /\ main = "step" /\ idCell = nbCells
  /\ cur' = nxt /\ nxt' = cur
  /\ UpdateField
  /\ stepsDone' = stepsDone + 1 /\ idCell' = 0
  /\ NextStep(stepsDone')
  /\ UNCHANGED <<created, it, heap, live, reported>>

\* deallocateStructures, with a bag_free for each bag.
Deallocate ==
  /\ main = "report" /\ idCell = nbCells
  /\ live' = live \ UNION {ChunksFrom(cur[j].front) \cup ChunksFrom(nxt[j].front) : j \in CellIds}
  /\ main' = "returned"
  /\ UNCHANGED <<created, stepsDone, idCell, it, heap, cur, nxt, charge, electric, reported>>

DemoBagsNext ==
  AddParticle \/ StepLeapFrog \/ BeginBag \/ MoveNext \/ ReportNext \/ EndBag \/ SwapBags \/ Deallocate
DemoBagsSpec == DemoBagsInit /\ [][DemoBagsNext]_demoBagsVars

-----------------------------------------------------------------------------
\* What a bag holds of the current step: a bag that is being read destructively
\* is only what the iterator has still to visit.
Reading(j) == main = "step" /\ it # NoIter /\ j = idCell
ChunksOf(j) == IF ~Reading(j) THEN ChunksFrom(cur[j].front)
               ELSE IF it.at = "NULL" THEN {} ELSE ChunksFrom(it.chunk)
Slots(chunks) == {t \in chunks \X (0 .. ChunkSize - 1) : t[2] < Stored(t[1])}
Holds(chunks) == {heap[t[1]].items[t[2]] : t \in Slots(chunks)}
Visited(j) == IF Reading(j) /\ it.at = "particle" THEN {heap[it.chunk].items[i] : i \in 0 .. it.index - 1} ELSE {}

\* "beware that c = c->next would be illegal here, because c was freed": every
\* chunk that a bag or the iterator leads to is allocated, belongs to that bag
\* only, and no chunk is lost, until main() has freed them all.
ChunksPartitioned ==
  LET parts == [bag \in BagIds |-> IF bag[1] = "cur" THEN ChunksOf(bag[2]) ELSE ChunksFrom(nxt[bag[2]].front)]
  IN  IF main = "returned" THEN live = {}
      ELSE /\ live = UNION {parts[bag] : bag \in BagIds}
           /\ \A bag1, bag2 \in BagIds : bag1 # bag2 => parts[bag1] \cap parts[bag2] = {}

\* "particles were lost": the report at the end lists every particle once.
ReportComplete ==
  main = "returned" =>
    Len(reported) = NbParticles /\ {reported[i] : i \in DOMAIN reported} = 1 .. NbParticles

\* The chunks implement the bags of the naive simulation as sets of particles,
\* although chunks are freed and reused while bags are read and filled.
NaiveDemo == INSTANCE PicDemo WITH
  ncx <- gridX, ncy <- gridY, ncz <- gridZ, OMP_TILE_SIZE <- 1,
  nbParticles <- NbParticles, Displacements <- Moves,
  nbSteps <- NbSteps, nbCreated <- created, started <- main # "create",
  bagsCur <- [j \in CellIds |-> Holds(ChunksOf(j)) \ Visited(j)],
  bagsNext <- [j \in CellIds |-> Holds(ChunksFrom(nxt[j].front))],
  deposit <- charge, field <- electric, idStep <- stepsDone
ChunksImplementBags == NaiveDemo!Spec

=============================================================================
