----------------------------- MODULE ChunkBags -----------------------------
(***************************************************************************)
(* Bags of particles as linked lists of fixed-size chunks, filled by       *)
(* several threads, with one list of free chunks per thread:               *)
(* src/particle_type_concurrent_chunkbags_of_soa_3d.c of case_studies/pic. *)
(*                                                                         *)
(* A push takes several steps of its thread, one per access to memory that *)
(* another thread may touch.  The memory is the one of the processors the  *)
(* code is written for: a thread's writes become visible in their order    *)
(* (the comment of add_front_chunk says that it needs that).               *)
(***************************************************************************)
EXTENDS PicGrid, Sequences

CONSTANTS
  NbThreads,
  CHUNK_SIZE,
  nbParticles,
  MaxChunks        \* bound of the model on the addresses malloc may return

ASSUME ChunkAssumption ==
  /\ NbThreads \in Nat \ {0} /\ CHUNK_SIZE \in Nat \ {0} /\ MaxChunks \in Nat
  /\ nbParticles \in Nat

Threads == 0 .. NbThreads - 1
Particles == 1 .. nbParticles
NoParticle == 0
NULL == 0
Addresses == 1 .. MaxChunks
Slots == 0 .. CHUNK_SIZE - 1
ID_PRIVATE_BAG == 0
ID_SHARED_BAG == 1
BagKinds == {ID_PRIVATE_BAG, ID_SHARED_BAG}

VARIABLES
  build,            \* which of the three allocation schemes is compiled in
  chunk,            \* memory: fields size, next and the particles, per address
  allocated,        \* addresses that malloc returned and nobody freed
  freeChunks,       \* free_chunks: one freelist per thread, its length is FREE_INDEX
  cumulative,       \* cumulative_free_indexes
  lastSpare,        \* bag_last_spare_chunk_to_be_used
  spareLocation,    \* spare_chunk_location, per thread
  particles,        \* bags of the current time step, by cell
  particlesNext,    \* bags of the next time step, by kind and cell
  push,             \* registers of the push each thread is executing
  failed            \* a function has called exit(EXIT_FAILURE)

memoryVars == <<chunk, allocated, freeChunks>>
spareVars == <<cumulative, lastSpare, spareLocation>>
bagVars == <<build, chunk, allocated, freeChunks, cumulative, lastSpare,
             spareLocation, particles, particlesNext, push, failed>>

Builds == {"freelists", "SPARE_LOC_OPTIMIZED", "STDCHUNKALLOC"}
FREE_INDEX(t) == Len(freeChunks[t])

\* init_all_chunks, two bags per cell: one spare chunk for each bag, numbered
\* by cell and, within a cell, the shared bag first.
number_of_spare_chunks == 2 * NumCells
SpareChunkId(kind, cell) == 2 * cell + (IF kind = ID_SHARED_BAG THEN 0 ELSE 1)
FREELIST_SIZE == 2 * number_of_spare_chunks
CeilingDiv(a, b) == (a + b - 1) \div b
\* Faulty: forgets the chunks that the particles themselves fill.
OnlySpareChunks == 2 * number_of_spare_chunks

total_nb_chunks == CeilingDiv(nbParticles, CHUNK_SIZE) + 2 * number_of_spare_chunks
ASSUME MemoryAssumption == total_nb_chunks <= MaxChunks

\* posix_memalign: some address that is not in use.  The program exits when there
\* is none: the bound of the model leaves that out.
Malloc(inUse) == Min(Addresses \ inUse)
MemoryFor(n) == Cardinality(Addresses \ allocated) >= n

NoPush == [pc |-> "idle", kind |-> ID_PRIVATE_BAG, cell |-> 0, p |-> NoParticle, c |-> NULL, index |-> 0]
Idle(t) == push[t].pc = "idle"
Target(t) == particlesNext[push[t].kind][push[t].cell]

-----------------------------------------------------------------------------
\* Creation of the particles, by the main thread alone.  The chunks are all in
\* one list (all_free_chunks), which the code counts in FREE_INDEX(0).

EmptyBag(c) == [front |-> c, back |-> c]

\* init_all_chunks takes one chunk for each bag of the next step, cell by cell,
\* then create_particle_array_3d takes one for each bag of the current step.
InitBags ==
  LET total == IF build = "STDCHUNKALLOC" THEN 3 * NumCells ELSE total_nb_chunks
      taken(n) == total + 1 - n
  IN  /\ particlesNext = [kind \in BagKinds |-> [j \in Cells |-> EmptyBag(taken(2 * j + kind + 1))]]
      /\ particles = [j \in Cells |-> EmptyBag(taken(2 * NumCells + j + 1))]
      /\ allocated = 1 .. total
      /\ freeChunks = [t \in Threads |-> IF t = 0 THEN [i \in 1 .. total - 3 * NumCells |-> i] ELSE <<>>]
      /\ chunk = [a \in Addresses |->
           [size |-> IF a \in taken(3 * NumCells) .. total THEN 0 ELSE CHUNK_SIZE,
            next |-> NULL, item |-> [i \in Slots |-> NoParticle]]]

\* bag_push_initial, with the new front chunk of add_front_chunk_initial.
PushInitial(j, p) ==
  LET c == particles[j].front
      index == chunk[c].size
      full == index = CHUNK_SIZE - 1
      exits == full /\ build # "STDCHUNKALLOC" /\ FREE_INDEX(0) < 1
      new == IF build = "STDCHUNKALLOC" THEN Malloc(allocated) ELSE freeChunks[0][FREE_INDEX(0)]
      written == [chunk EXCEPT ![c].size = index + 1, ![c].item[index] = p]
  IN  IF exits THEN chunk' = written /\ failed' = TRUE /\ UNCHANGED <<allocated, freeChunks, particles>>
      ELSE IF ~full THEN chunk' = written /\ UNCHANGED <<allocated, freeChunks, particles, failed>>
      ELSE /\ build = "STDCHUNKALLOC" => MemoryFor(1)
           /\ chunk' = [written EXCEPT ![new].size = 0, ![new].next = c]
           /\ particles' = [particles EXCEPT ![j].front = new]
           /\ allocated' = allocated \cup {new}
           /\ freeChunks' = [freeChunks EXCEPT ![0] =
                              IF build = "STDCHUNKALLOC" THEN @ ELSE SubSeq(@, 1, Len(@) - 1)]
           /\ UNCHANGED failed

\* init_freelists deals the remaining chunks out, one thread after the other.
init_freelists ==
  freeChunks' = [t \in Threads |->
    [i \in 1 .. (FREE_INDEX(0) - t + NbThreads - 1) \div NbThreads |->
       freeChunks[0][(i - 1) * NbThreads + t + 1]]]

-----------------------------------------------------------------------------
\* Allocation and release of a chunk by thread t during the particle loop.

\* The address chunk_alloc returns, and its effect on the memory manager.
UsesFreelist(t) == build # "STDCHUNKALLOC" /\ FREE_INDEX(t) > 0
ChunkAllocated(t) == IF UsesFreelist(t) THEN freeChunks[t][FREE_INDEX(t)] ELSE Malloc(allocated)
\* Faulty: the chunk is handed out and stays in the freelist.
AllocWithoutPop(t) ==
  IF UsesFreelist(t) THEN UNCHANGED <<allocated, freeChunks>>
  ELSE allocated' = allocated \cup {ChunkAllocated(t)} /\ UNCHANGED freeChunks

chunk_alloc(t) ==
  IF UsesFreelist(t)
  THEN /\ freeChunks' = [freeChunks EXCEPT ![t] = SubSeq(@, 1, Len(@) - 1)]
       /\ UNCHANGED allocated
  ELSE /\ allocated' = allocated \cup {ChunkAllocated(t)}
       /\ UNCHANGED freeChunks

chunk_free(c, t) ==
  IF build # "STDCHUNKALLOC" /\ FREE_INDEX(t) < FREELIST_SIZE
  THEN /\ freeChunks' = [freeChunks EXCEPT ![t] = Append(@, c)]
       /\ UNCHANGED allocated
  ELSE /\ allocated' = allocated \ {c}
       /\ UNCHANGED freeChunks

-----------------------------------------------------------------------------
\* Pushing a particle: a thread starts one of the two procedures, whose steps
\* follow, and push[t].pc is "returned" when the procedure has returned.

Goto(t, pc) == push' = [push EXCEPT ![t].pc = pc]
StartPush(t, kind, cell, p) ==
  push' = [push EXCEPT ![t] = [NoPush EXCEPT !.kind = kind, !.cell = cell, !.p = p,
             !.pc = IF kind = ID_PRIVATE_BAG THEN "serial_take" ELSE "read_front"]]
AfterWrite(index) == IF index = CHUNK_SIZE - 1 THEN "extend" ELSE "returned"

\* bag_push_serial: reads the front and the size ...
SerialTake(t) ==
  /\ push[t].pc = "serial_take"
  /\ LET c == Target(t).front IN
     push' = [push EXCEPT ![t].c = c, ![t].index = chunk[c].size, ![t].pc = "serial_write"]
  /\ UNCHANGED <<memoryVars, particlesNext>>

\* ... and writes the incremented size and the particle.
SerialWrite(t) ==
  /\ push[t].pc = "serial_write"
  /\ LET c == push[t].c  index == push[t].index IN
     /\ chunk' = [chunk EXCEPT ![c].size = index + 1, ![c].item[index] = push[t].p]
     /\ Goto(t, AfterWrite(index))
  /\ UNCHANGED <<allocated, freeChunks, particlesNext>>

\* bag_push_concurrent: c = b->front
ReadFront(t) ==
  /\ push[t].pc = "read_front"
  /\ push' = [push EXCEPT ![t].c = Target(t).front, ![t].pc = "capture"]
  /\ UNCHANGED <<memoryVars, particlesNext>>

\* atomic capture: index = c->size++
Capture(t) ==
  /\ push[t].pc = "capture"
  /\ LET c == push[t].c IN
     /\ chunk' = [chunk EXCEPT ![c].size = @ + 1]
     /\ push' = [push EXCEPT ![t].index = chunk[c].size,
                             ![t].pc = IF chunk[c].size < CHUNK_SIZE THEN "write" ELSE "undo"]
  /\ UNCHANGED <<allocated, freeChunks, particlesNext>>

WriteItem(t) ==
  /\ push[t].pc = "write"
  /\ chunk' = [chunk EXCEPT ![push[t].c].item[push[t].index] = push[t].p]
  /\ Goto(t, AfterWrite(push[t].index))
  /\ UNCHANGED <<allocated, freeChunks, particlesNext>>

\* Faulty: the increment of the full chunk is not undone.
NoUndo(t) == push[t].pc = "undo" /\ Goto(t, "spin") /\ UNCHANGED <<memoryVars, particlesNext>>

\* The chunk was full: plain write of its size ...
UndoCapture(t) ==
  /\ push[t].pc = "undo"
  /\ chunk' = [chunk EXCEPT ![push[t].c].size = CHUNK_SIZE]
  /\ Goto(t, "spin")
  /\ UNCHANGED <<allocated, freeChunks, particlesNext>>

\* Faulty: tries the same chunk again, without reading the front of the bag.
RetrySameChunk(t) ==
  /\ push[t].pc = "spin"
  /\ Target(t).front # push[t].c
  /\ Goto(t, "capture")
  /\ UNCHANGED <<memoryVars, particlesNext>>

\* ... and a loop of atomic reads until the front of the bag has changed.
LeaveSpin(t) ==
  /\ push[t].pc = "spin"
  /\ Target(t).front # push[t].c
  /\ Goto(t, "read_front")
  /\ UNCHANGED <<memoryVars, particlesNext>>

\* add_front_chunk: a chunk with size 0 in front of the current one ...
ExtendBag(t) ==
  /\ push[t].pc = "extend"
  /\ UsesFreelist(t) \/ MemoryFor(1)
  /\ chunk_alloc(t)
  /\ LET c == ChunkAllocated(t) IN
     /\ chunk' = [chunk EXCEPT ![c].size = 0, ![c].next = Target(t).front]
     /\ push' = [push EXCEPT ![t].c = c, ![t].pc = "publish"]
  /\ UNCHANGED particlesNext

\* ... that the atomic write of b->front shows to the other threads.
Publish(t) ==
  /\ push[t].pc = "publish"
  /\ particlesNext' = [particlesNext EXCEPT ![push[t].kind][push[t].cell].front = push[t].c]
  /\ Goto(t, "returned")
  /\ UNCHANGED memoryVars

PushStep(t) ==
  /\ \/ SerialTake(t) \/ SerialWrite(t)
     \/ ReadFront(t) \/ Capture(t) \/ WriteItem(t) \/ UndoCapture(t) \/ LeaveSpin(t)
     \/ ExtendBag(t) \/ Publish(t)
  /\ UNCHANGED <<build, spareVars, particles, failed>>

-----------------------------------------------------------------------------
\* The spare chunks: where the append phase finds an empty chunk for each bag.

SumTo(k, free) ==
  LET sum[j \in 0 .. NbThreads] == IF j = 0 THEN 0 ELSE sum[j - 1] + Len(free[j - 1])
  IN  sum[k]

\* compute_cumulative_free_list_sizes: the missing chunks, if any, are
\* allocated into the list of thread 0 before the sums are taken.
Refill(n) ==
  LET used[k \in 0 .. n] == IF k = 0 THEN allocated ELSE used[k - 1] \cup {Malloc(used[k - 1])}
  IN  [k \in 1 .. n |-> Malloc(used[k - 1])]

Missing ==
  LET free == SumTo(NbThreads, freeChunks)
  IN  IF free < number_of_spare_chunks THEN number_of_spare_chunks - free ELSE 0

NoLocation == [thread |-> 0, offset |-> 0, maxOffset |-> 0]
compute_cumulative_free_list_sizes ==
  IF build = "STDCHUNKALLOC" THEN UNCHANGED <<memoryVars, spareVars>>
  ELSE LET new == Refill(Missing)
           free == [freeChunks EXCEPT ![0] = @ \o new]
           cumul == [k \in Threads |-> SumTo(k, free)]
       IN  /\ MemoryFor(Missing)
           /\ freeChunks' = free
           /\ allocated' = allocated \cup {new[i] : i \in DOMAIN new}
           /\ cumulative' = cumul
           /\ lastSpare' = Max({k \in Threads : cumul[k] <= number_of_spare_chunks})
           /\ spareLocation' = [t \in Threads |-> NoLocation]
           /\ UNCHANGED chunk

\* Faulty: the list that is used in part keeps one chunk too many.
KeepOneTooMany ==
  IF build = "STDCHUNKALLOC" THEN UNCHANGED freeChunks
  ELSE freeChunks' = [t \in Threads |->
         CASE t < lastSpare -> <<>>
           [] t = lastSpare -> SubSeq(freeChunks[t], 1,
                                 FREE_INDEX(t) - (number_of_spare_chunks - cumulative[t]) + 1)
           [] t > lastSpare -> freeChunks[t]]

\* update_free_list_sizes: the chunks given to the bags leave the lists.
update_free_list_sizes ==
  IF build = "STDCHUNKALLOC" THEN UNCHANGED freeChunks
  ELSE freeChunks' = [t \in Threads |->
         CASE t < lastSpare -> <<>>
           [] t = lastSpare -> SubSeq(freeChunks[t], 1,
                                 FREE_INDEX(t) - (number_of_spare_chunks - cumulative[t]))
           [] t > lastSpare -> freeChunks[t]]

\* The freelist that holds the spare chunk of a number, and its position there.
ListOfSpare(id) == Max({k \in Threads : cumulative[k] <= id})
SpareMissing(id) == id - cumulative[ListOfSpare(id)] >= FREE_INDEX(ListOfSpare(id))

locate_spare_chunk(id) ==
  LET k == ListOfSpare(id)
      index == id - cumulative[k]
  IN  [thread |-> k,
       offset |-> IF k = lastSpare
                  THEN index + FREE_INDEX(k) - (number_of_spare_chunks - cumulative[k])
                  ELSE index,
       maxOffset |-> FREE_INDEX(k)]

\* Location of the chunk that bag_init takes, from the location loc the thread
\* used last: with SPARE_LOC_OPTIMIZED the next one of the same list, until its end.
MustLocate(loc) == build = "SPARE_LOC_OPTIMIZED" => loc.offset >= loc.maxOffset
SpareLocationOf(loc, kind, cell) ==
  LET id == SpareChunkId(kind, cell) IN
  IF ~MustLocate(loc) THEN loc
  ELSE IF build = "SPARE_LOC_OPTIMIZED" THEN locate_spare_chunk(id)
  ELSE LET k == ListOfSpare(id)
       IN  [thread |-> k, offset |-> FREE_INDEX(k) - 1 - (id - cumulative[k]), maxOffset |-> FREE_INDEX(k)]
SpareChunk(loc) == freeChunks[loc.thread][loc.offset + 1]
NextLocation(loc) == IF build = "SPARE_LOC_OPTIMIZED" THEN [loc EXCEPT !.offset = @ + 1] ELSE NoLocation

\* bag_append links the last chunk a of a bag to the first one of another.
\* Faulty: links it to the last one.
LinkedToBack(a, other) == [chunk[a] EXCEPT !.next = other.back]
Linked(a, other) == [chunk[a] EXCEPT !.next = other.front]

\* Body of the append loop for a cell: the shared bag becomes the current bag
\* and restarts from a spare chunk (bag_init), then the private bag is added
\* behind it and restarts from the next spare chunk (bag_append).
AppendCell(t, j) ==
  LET shared == particlesNext[ID_SHARED_BAG][j]
      private == particlesNext[ID_PRIVATE_BAG][j]
      loc1 == SpareLocationOf(spareLocation[t], ID_SHARED_BAG, j)
      loc2 == SpareLocationOf(NextLocation(loc1), ID_PRIVATE_BAG, j)
      exits == /\ build # "STDCHUNKALLOC"
               /\ \/ MustLocate(spareLocation[t]) /\ SpareMissing(SpareChunkId(ID_SHARED_BAG, j))
                  \/ MustLocate(NextLocation(loc1)) /\ SpareMissing(SpareChunkId(ID_PRIVATE_BAG, j))
      c1 == IF build = "STDCHUNKALLOC" THEN Malloc(allocated) ELSE SpareChunk(loc1)
      c2 == IF build = "STDCHUNKALLOC" THEN Malloc(allocated \cup {c1}) ELSE SpareChunk(loc2)
  IN  IF exits
      THEN failed' = TRUE /\ UNCHANGED <<memoryVars, spareVars, particles, particlesNext>>
      ELSE /\ build = "STDCHUNKALLOC" => MemoryFor(2)
           /\ chunk' = [a \in Addresses |->
                CASE a = shared.back -> Linked(a, private)
                  [] a \in {c1, c2} -> [chunk[a] EXCEPT !.size = 0, !.next = NULL]
                  [] OTHER -> chunk[a]]
           /\ particles' = [particles EXCEPT ![j] = [front |-> shared.front, back |-> private.back]]
           /\ particlesNext' = [particlesNext EXCEPT
                ![ID_SHARED_BAG][j] = [front |-> c1, back |-> c1],
                ![ID_PRIVATE_BAG][j] = [front |-> c2, back |-> c2]]
           /\ allocated' = allocated \cup {c1, c2}
           /\ spareLocation' = IF build = "SPARE_LOC_OPTIMIZED"
                               THEN [spareLocation EXCEPT ![t] = NextLocation(loc2)] ELSE spareLocation
           /\ UNCHANGED <<freeChunks, cumulative, lastSpare, failed>>

=============================================================================
