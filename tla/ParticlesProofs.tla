--------------------------- MODULE ParticlesProofs ---------------------------
(***************************************************************************)
(* The particles of the parallel simulation: each is in one slot that the   *)
(* program will read, whatever the threads do, and the program computes     *)
(* what the naive one does, for every number of threads, every mesh, every  *)
(* size of chunks and every schedule.                                       *)
(***************************************************************************)
EXTENDS BagsProofs

-----------------------------------------------------------------------------
(* The inductive invariant.                                                 *)

\* A slot of a chunk that its thread has moved the particle of, and a slot that
\* a push has captured and not written.
Passed(c, i) ==
  \E t \in Threads : loop[t].my_chunk = c /\ (i < loop[t].i \/ (i = loop[t].i /\ Written(t)))
Claimed(c, i) == \E t \in Threads : push[t].pc = "write" /\ push[t].c = c /\ push[t].index = i

\* Slot i of chunk c holds a particle that the program will read.
Holds(c, i) == c \in Listed /\ i \in Slots /\ i < chunk[c].size /\ ~Passed(c, i) /\ ~Claimed(c, i)
Item(c, i) == chunk[c].item[i]

\* The particles created number those slots.
Numbered ==
  /\ nbCreated \in Nat /\ nbCreated <= nbParticles
  /\ \A c \in Addresses, i \in Slots : Holds(c, i) => Item(c, i) \in 1 .. nbCreated
  /\ \A c, d \in Addresses, i, k \in Slots :
       Holds(c, i) /\ Holds(d, k) /\ Item(c, i) = Item(d, k) => c = d /\ i = k
  /\ \A p \in 1 .. nbCreated : \E c \in Addresses, i \in Slots : Holds(c, i) /\ Item(c, i) = p

\* A thread that pushes has in hand the particle of the slot it is at.
MoversInv ==
  \A t \in Threads :
    /\ Working(t) => loop[t].i \in Nat
    /\ ~Idle(t) => /\ loop[t].i < chunk[loop[t].my_chunk].size
                   /\ push[t].p = Item(loop[t].my_chunk, loop[t].i)
                   /\ push[t].cell \in Destinations(push[t].p, loop[t].j)

\* Two threads never write one slot.
ClaimsInv ==
  \A t, u \in Threads :
    t # u /\ push[t].pc = "write" /\ push[u].pc = "write" /\ push[t].c = push[u].c => push[t].index # push[u].index

ParticlesInv == Numbered /\ MoversInv /\ ClaimsInv

-----------------------------------------------------------------------------
(* Who is at which chunk.                                                   *)

\* The chunk that a thread reads is in a bag of the current step, and read by no
\* other thread.
LEMMA ChunkRead ==
  ASSUME PInv, OwnInv, NEW owner, NEW pos, ListsInv(owner, pos), NEW t \in Threads, Working(t)
  PROVE  /\ loop[t].my_chunk \in Listed /\ owner[loop[t].my_chunk] = CurrentId(loop[t].j)
         /\ phase = "move" /\ loop[t].j \in Cells
         /\ \A u \in Threads : loop[u].my_chunk = loop[t].my_chunk => u = t
<1>1. LoopInv
  BY DEF OwnInv
<1>2. /\ phase = "move" /\ loop[t].j \in Cells /\ Visitors(loop[t].j) = {t}
      /\ CurrentFront(loop[t].j) = loop[t].my_chunk
  BY <1>1, VisitedCell
<1>3. CurrentId(loop[t].j) \in ListIds /\ Fronts[CurrentId(loop[t].j)] = loop[t].my_chunk
  BY <1>2, Ids, FrontOf
<1>4. loop[t].my_chunk \in Listed /\ owner[loop[t].my_chunk] = CurrentId(loop[t].j)
  BY <1>3 DEF ListsInv, Chained, Working
<1>5. ASSUME NEW u \in Threads, loop[u].my_chunk = loop[t].my_chunk
      PROVE  u = t
  <2>1. Working(u)
    BY <1>5 DEF Working
  <2>2. /\ loop[u].j \in Cells /\ Visitors(loop[u].j) = {u}
        /\ CurrentFront(loop[u].j) = loop[u].my_chunk
    BY <1>1, <2>1, VisitedCell
  <2>3. CurrentId(loop[u].j) \in ListIds /\ Fronts[CurrentId(loop[u].j)] = loop[u].my_chunk
    BY <2>2, Ids, FrontOf
  <2>4. owner[loop[u].my_chunk] = CurrentId(loop[u].j)
    BY <2>1, <2>3 DEF ListsInv, Chained, Working
  <2>5. loop[u].j = loop[t].j
    BY <1>4, <1>5, <2>4, Ids
  <2> QED BY <1>2, <2>2, <2>5
<1> QED BY <1>2, <1>4, <1>5

\* The chunk of a push is in a bag of the next step, so that no thread reads it.
LEMMA ChunkPushed ==
  ASSUME PInv, OwnInv, NEW owner, NEW pos, ListsInv(owner, pos), NEW t \in Threads,
         push[t].pc \in {"serial_write", "capture", "write", "undo", "spin"}
  PROVE  /\ push[t].c \in Listed /\ owner[push[t].c] = NextId(push[t].kind, push[t].cell)
         /\ push[t].kind \in BagKinds /\ push[t].cell \in Cells /\ phase = "move" /\ Working(t) /\ ~Idle(t)
         /\ \A u \in Threads : loop[u].my_chunk # push[t].c
<1>1. ~Idle(t)
  BY DEF Idle
<1>2. push[t].cell \in Cells /\ Working(t)
  BY <1>1 DEF PInv, PushInv
<1>3. push[t].kind \in BagKinds /\ push[t].c \in Listed /\ owner[push[t].c] = NextId(push[t].kind, push[t].cell)
  BY DEF ListsInv, PushesInv, PushAt
<1>4. ASSUME NEW u \in Threads, loop[u].my_chunk = push[t].c
      PROVE  FALSE
  <2>1. Working(u)
    BY <1>3, <1>4, ListedIsMemory, NotNull DEF OwnInv, Working
  <2>2. owner[push[t].c] = CurrentId(loop[u].j)
    BY <1>4, <2>1, ChunkRead
  <2>3. CurrentId(loop[u].j) # NextId(push[t].kind, push[t].cell)
    BY Ids
  <2> QED BY <1>3, <2>2, <2>3
<1> QED BY <1>1, <1>2, <1>3, <1>4, PushingInMove

\* Sizes, and the types of the registers.
LEMMA SlotNumbers ==
  /\ CHUNK_SIZE \in Nat /\ CHUNK_SIZE > 0 /\ Slots \subseteq Nat
  /\ \A i : i \in Slots <=> i \in Nat /\ i < CHUNK_SIZE
BY ChunkAssumption DEF Slots

-----------------------------------------------------------------------------
(* Numberings.                                                              *)

\* A step that leaves the particles in their slots, ...
SlotsStay ==
  \A c \in Addresses, i \in Slots :
    (Holds(c, i)' <=> Holds(c, i)) /\ (Holds(c, i) => Item(c, i)' = Item(c, i))

\* ... one that writes a particle in a new slot, the slot it was in being passed, ...
SlotMoves(c, i, d, k) ==
  /\ c \in Addresses /\ i \in Slots /\ Holds(c, i)
  /\ d \in Addresses /\ k \in Slots /\ ~Holds(d, k) /\ Item(d, k)' = Item(c, i)
  /\ \A a \in Addresses, m \in Slots :
       Holds(a, m)' <=> (Holds(a, m) /\ ~(a = c /\ m = i)) \/ (a = d /\ m = k)
  /\ \A a \in Addresses, m \in Slots : Holds(a, m) => Item(a, m)' = Item(a, m)

\* ... and one that creates a particle.
SlotFilled(d, k, p) ==
  /\ d \in Addresses /\ k \in Slots /\ ~Holds(d, k) /\ Item(d, k)' = p
  /\ \A a \in Addresses, m \in Slots : Holds(a, m)' <=> Holds(a, m) \/ (a = d /\ m = k)
  /\ \A a \in Addresses, m \in Slots : Holds(a, m) => Item(a, m)' = Item(a, m)

LEMMA NumberedSame ==
  ASSUME Numbered, nbCreated' = nbCreated, SlotsStay
  PROVE  Numbered'
BY DEF Numbered, SlotsStay

LEMMA NumberedMove ==
  ASSUME Numbered, nbCreated' = nbCreated, NEW c, NEW i, NEW d, NEW k, SlotMoves(c, i, d, k)
  PROVE  Numbered'
BY DEF Numbered, SlotMoves

LEMMA NumberedMore ==
  ASSUME Numbered, nbCreated < nbParticles, nbCreated' = nbCreated + 1,
         NEW d, NEW k, SlotFilled(d, k, nbCreated + 1)
  PROVE  Numbered'
BY ChunkAssumption DEF Numbered, SlotFilled

-----------------------------------------------------------------------------
(* The steps of a push.                                                     *)

\* Thread t goes on with its push.
PushGoes(t) ==
  /\ phase = "move" /\ phase' = "move" /\ UNCHANGED <<loop, nbCreated>>
  /\ ~Idle(t) /\ push'[t].pc # "idle" /\ push'[t].p = push[t].p /\ push'[t].cell = push[t].cell
  /\ \A u \in Threads : u # t => push'[u] = push[u]

LEMMA PushGoesFrom ==
  ASSUME PInv, OwnInv, NEW t \in Threads, ~Idle(t), UNCHANGED <<phase, loop, nbCreated>>,
         NEW r, push' = [push EXCEPT ![t] = r], r.pc # "idle", r.p = push[t].p, r.cell = push[t].cell
  PROVE  PushGoes(t) /\ push'[t] = r
<1>1. push'[t] = r /\ \A u \in Threads : u # t => push'[u] = push[u]
  BY Registers
<1>2. phase = "move"
  BY PushingInMove
<1> QED BY <1>1, <1>2 DEF PushGoes

LEMMA ListedSame ==
  ASSUME phase # "append", phase' # "append", UNCHANGED <<allocated, freeChunks>>,
         \A u \in Threads : InHand(u)' = InHand(u)
  PROVE  Listed' = Listed
<1>1. \A a : OutOfLists(a)' <=> OutOfLists(a)
  <2>1. \A a : OutOfLists(a) <=> \E u \in Threads : a \in Elements(freeChunks[u]) \/ a \in InHand(u)
    BY DEF OutOfLists, InHand
  <2>2. \A a : OutOfLists(a)' <=> \E u \in Threads : a \in Elements(freeChunks[u])' \/ a \in InHand(u)'
    BY DEF OutOfLists, InHand
  <2>3. \A u \in Threads : Elements(freeChunks[u])' = Elements(freeChunks[u])
    BY DEF Elements
  <2> QED BY <2>1, <2>2, <2>3
<1>2. Listed = {a \in allocated : ~OutOfLists(a)}
  BY ListedOutsideAppend DEF ListedNow
<1>3. Listed' = {a \in allocated' : ~OutOfLists(a)'}
  BY ListedOutsideAppendNext DEF ListedNow
<1> QED BY <1>1, <1>2, <1>3

\* A step of a push that writes no item.
LEMMA NoItemWritten ==
  ASSUME PInv, OwnInv, ParticlesInv, NEW t \in Threads, PushGoes(t),
         \A a \in Addresses : a \in Listed' <=> a \in Listed,
         Written(t)' <=> Written(t), push[t].pc # "write", push'[t].pc # "write",
         \A u \in Threads : Working(u) => chunk'[loop[u].my_chunk] = chunk[loop[u].my_chunk],
         \A a \in Addresses : a \in Listed => chunk'[a].item = chunk[a].item,
         \A a \in Addresses, i \in Slots : a \in Listed => (i < chunk'[a].size <=> i < chunk[a].size)
  PROVE  ParticlesInv' /\ SlotsStay
<1>1. \A u \in Threads : Written(u)' <=> Written(u)
  BY DEF PushGoes, Written
<1>2. \A a, i : Passed(a, i)' <=> Passed(a, i)
  BY <1>1 DEF Passed, PushGoes
<1>3. \A a, i : Claimed(a, i)' <=> Claimed(a, i)
  BY DEF Claimed, PushGoes
<1>4. \A a \in Addresses, i \in Slots : Holds(a, i)' <=> Holds(a, i)
  BY <1>2, <1>3 DEF Holds
<1>5. \A a \in Addresses, i \in Slots : Holds(a, i) => Item(a, i)' = Item(a, i)
  BY DEF Holds, Item
<1>6. SlotsStay /\ Numbered'
  <2>1. SlotsStay
    BY <1>4, <1>5 DEF SlotsStay
  <2> QED BY <2>1, NumberedSame DEF ParticlesInv, PushGoes
<1>7. MoversInv'
  <2>1. \A u \in Threads : Idle(u)' <=> Idle(u)
    BY DEF PushGoes, Idle
  <2>2. \A u \in Threads : Working(u)' <=> Working(u)
    BY DEF PushGoes, Working
  <2>3. \A u \in Threads : ~Idle(u) => Working(u)
    BY DEF PInv, PushInv
  <2>4. \A p, j : Destinations(p, j)' = Destinations(p, j)
    BY DEF Destinations
  <2> QED BY <2>1, <2>2, <2>3, <2>4 DEF MoversInv, ParticlesInv, PushGoes, Item
<1>8. ClaimsInv'
  BY DEF ClaimsInv, ParticlesInv, PushGoes
<1> QED BY <1>6, <1>7, <1>8 DEF ParticlesInv

\* What a step of a push does to its registers.
PushRegisters(t, pc, c, index) ==
  /\ push'[t].pc = pc /\ push'[t].c = c /\ push'[t].index = index
  /\ push'[t].kind = push[t].kind /\ push'[t].cell = push[t].cell /\ push'[t].p = push[t].p
  /\ \A u \in Threads : u # t => push'[u] = push[u]

LEMMA RegistersAfter ==
  ASSUME PInv, NEW t \in Threads
  PROVE  /\ SerialTake(t) => PushRegisters(t, "serial_write", Target(t).front, chunk[Target(t).front].size)
         /\ SerialWrite(t) => PushRegisters(t, AfterWrite(push[t].index), push[t].c, push[t].index)
         /\ ReadFront(t) => PushRegisters(t, "capture", Target(t).front, push[t].index)
         /\ Capture(t) => PushRegisters(t, IF chunk[push[t].c].size < CHUNK_SIZE THEN "write" ELSE "undo",
                                        push[t].c, chunk[push[t].c].size)
         /\ WriteItem(t) => PushRegisters(t, AfterWrite(push[t].index), push[t].c, push[t].index)
         /\ UndoCapture(t) => PushRegisters(t, "spin", push[t].c, push[t].index)
         /\ LeaveSpin(t) => PushRegisters(t, "read_front", push[t].c, push[t].index)
         /\ ExtendBag(t) => PushRegisters(t, "publish", ChunkAllocated(t), push[t].index)
         /\ Publish(t) => PushRegisters(t, "returned", push[t].c, push[t].index)
<1>1. push = [u \in Threads |-> push[u]] /\ PushShape(push[t])
  BY DEF PInv, RegistersInv
<1>2. ASSUME NEW r, push' = [push EXCEPT ![t] = r]
      PROVE  push'[t] = r /\ \A u \in Threads : u # t => push'[u] = push[u]
  <2>1. push' = [u \in Threads |-> IF u = t THEN r ELSE push[u]]
    BY <1>1, <1>2
  <2> QED BY <2>1
<1> DEFINE y == push[t]
<1>3. \A pc, c, index : /\ [y EXCEPT !.pc = pc].pc = pc
                        /\ [y EXCEPT !.pc = pc].c = y.c /\ [y EXCEPT !.pc = pc].index = y.index
                        /\ [y EXCEPT !.pc = pc].kind = y.kind /\ [y EXCEPT !.pc = pc].cell = y.cell
                        /\ [y EXCEPT !.pc = pc].p = y.p
  <2> HIDE DEF y
  <2>1. y = [field \in PushFields |-> y[field]]
    BY <1>1 DEF PushShape, y
  <2> QED BY <2>1 DEF PushFields
<1>4. \A pc : push' = [push EXCEPT ![t].pc = pc] => PushRegisters(t, pc, y.c, y.index)
  <2> SUFFICES ASSUME NEW pc, push' = [push EXCEPT ![t].pc = pc] PROVE PushRegisters(t, pc, y.c, y.index)
    OBVIOUS
  <2> DEFINE r == [y EXCEPT !.pc = pc]
  <2>1. push' = [push EXCEPT ![t] = r]
    OBVIOUS
  <2> HIDE DEF r
  <2>2. push'[t] = r /\ \A u \in Threads : u # t => push'[u] = push[u]
    BY <1>2, <2>1
  <2>3. /\ r.pc = pc /\ r.c = y.c /\ r.index = y.index /\ r.kind = y.kind /\ r.cell = y.cell /\ r.p = y.p
    BY <1>3 DEF r
  <2> QED BY <2>2, <2>3 DEF PushRegisters
<1>5. ASSUME NEW pc, NEW c, NEW index, NEW r, push' = [push EXCEPT ![t] = r],
             \/ r = [y EXCEPT !.c = c, !.index = index, !.pc = pc]
             \/ index = y.index /\ r = [y EXCEPT !.c = c, !.pc = pc]
             \/ c = y.c /\ r = [y EXCEPT !.index = index, !.pc = pc]
      PROVE  PushRegisters(t, pc, c, index)
  <2>1. push'[t] = r /\ \A u \in Threads : u # t => push'[u] = push[u]
    BY <1>2, <1>5
  <2> HIDE DEF y
  <2>2. y = [field \in PushFields |-> y[field]]
    BY <1>1 DEF PushShape, y
  <2>3. r.pc = pc /\ r.c = c /\ r.index = index /\ r.kind = y.kind /\ r.cell = y.cell /\ r.p = y.p
    BY <1>5, <2>2 DEF PushFields
  <2> QED BY <2>1, <2>3 DEF PushRegisters, y
<1>6. ASSUME SerialTake(t)
      PROVE  PushRegisters(t, "serial_write", Target(t).front, chunk[Target(t).front].size)
  <2> DEFINE c == Target(t).front  pc == "serial_write"
             index == chunk[c].size  r == [y EXCEPT !.c = c, !.index = index, !.pc = pc]
  <2>1. push' = [push EXCEPT ![t] = r]
    BY <1>6 DEF SerialTake
  <2>2. r = [y EXCEPT !.c = c, !.index = index, !.pc = pc]
    OBVIOUS
  <2> HIDE DEF r, c, pc, index, y
  <2>3. PushRegisters(t, pc, c, index)
    BY <1>5, <2>1, <2>2
  <2> QED BY <2>3 DEF c, pc, index
<1>7. ASSUME ReadFront(t)
      PROVE  PushRegisters(t, "capture", Target(t).front, push[t].index)
  <2> DEFINE c == Target(t).front  pc == "capture"
             index == push[t].index  r == [y EXCEPT !.c = c, !.pc = pc]
  <2>1. push' = [push EXCEPT ![t] = r]
    BY <1>7 DEF ReadFront
  <2>2. r = [y EXCEPT !.c = c, !.pc = pc]
    OBVIOUS
  <2> HIDE DEF r, c, pc, index, y
  <2>3. PushRegisters(t, pc, c, index)
    BY <1>5, <2>1, <2>2 DEF index, y
  <2> QED BY <2>3 DEF c, pc, index
<1>8. ASSUME Capture(t)
      PROVE  PushRegisters(t, IF chunk[push[t].c].size < CHUNK_SIZE THEN "write" ELSE "undo",
                           push[t].c, chunk[push[t].c].size)
  <2> DEFINE c == push[t].c  pc == IF chunk[push[t].c].size < CHUNK_SIZE THEN "write" ELSE "undo"
             index == chunk[c].size  r == [y EXCEPT !.index = index, !.pc = pc]
  <2>1. push' = [push EXCEPT ![t] = r]
    BY <1>8 DEF Capture
  <2>2. r = [y EXCEPT !.index = index, !.pc = pc]
    OBVIOUS
  <2> HIDE DEF r, c, pc, index, y
  <2>3. PushRegisters(t, pc, c, index)
    BY <1>5, <2>1, <2>2 DEF c, y
  <2> QED BY <2>3 DEF c, pc, index
<1>9. ASSUME ExtendBag(t)
      PROVE  PushRegisters(t, "publish", ChunkAllocated(t), push[t].index)
  <2> DEFINE c == ChunkAllocated(t)  pc == "publish"
             index == push[t].index  r == [y EXCEPT !.c = c, !.pc = pc]
  <2>1. push' = [push EXCEPT ![t] = r]
    BY <1>9 DEF ExtendBag
  <2>2. r = [y EXCEPT !.c = c, !.pc = pc]
    OBVIOUS
  <2> HIDE DEF r, c, pc, index, y
  <2>3. PushRegisters(t, pc, c, index)
    BY <1>5, <2>1, <2>2 DEF index, y
  <2> QED BY <2>3 DEF c, pc, index
<1>10. /\ SerialWrite(t) => PushRegisters(t, AfterWrite(push[t].index), push[t].c, push[t].index)
       /\ WriteItem(t) => PushRegisters(t, AfterWrite(push[t].index), push[t].c, push[t].index)
       /\ UndoCapture(t) => PushRegisters(t, "spin", push[t].c, push[t].index)
       /\ LeaveSpin(t) => PushRegisters(t, "read_front", push[t].c, push[t].index)
       /\ Publish(t) => PushRegisters(t, "returned", push[t].c, push[t].index)
  BY <1>4 DEF SerialWrite, WriteItem, UndoCapture, LeaveSpin, Publish, Goto
<1> QED BY <1>6, <1>7, <1>8, <1>9, <1>10

\* What a step of a push writes in memory: the chunk of the push, or a new one.
LEMMA MemoryAfter ==
  ASSUME PInv, OwnInv, NEW owner, NEW pos, ListsInv(owner, pos), NEW t \in Threads, PushParticle(t)
  PROVE  /\ SerialTake(t) \/ ReadFront(t) \/ LeaveSpin(t) \/ Publish(t) =>
              UNCHANGED <<chunk, allocated, freeChunks>>
         /\ SerialWrite(t) => /\ UNCHANGED <<allocated, freeChunks>>
                              /\ chunk' = [chunk EXCEPT ![push[t].c] =
                                             WithItem(chunk[push[t].c], push[t].index + 1, push[t].index, push[t].p)]
         /\ WriteItem(t) => /\ UNCHANGED <<allocated, freeChunks>>
                            /\ chunk' = [chunk EXCEPT ![push[t].c] =
                                           WithItem(chunk[push[t].c], chunk[push[t].c].size, push[t].index, push[t].p)]
         /\ Capture(t) => /\ UNCHANGED <<allocated, freeChunks>>
                          /\ chunk' = [chunk EXCEPT ![push[t].c] =
                               [size |-> chunk[push[t].c].size + 1, next |-> chunk[push[t].c].next,
                                item |-> chunk[push[t].c].item]]
         /\ UndoCapture(t) => /\ UNCHANGED <<allocated, freeChunks>>
                              /\ chunk' = [chunk EXCEPT ![push[t].c] =
                                   [size |-> CHUNK_SIZE, next |-> chunk[push[t].c].next, item |-> chunk[push[t].c].item]]
<1>1. /\ chunk = [a \in Addresses |-> chunk[a]] /\ \A a \in Addresses : ChunkShape(chunk[a])
      /\ Listed \subseteq Addresses
  BY ListedIsMemory DEF OwnInv, MemoryInv
<1>2. push[t].pc \in {"serial_write", "capture", "write", "undo"} => push[t].c \in Addresses
  BY <1>1, ChunkPushed
<1> DEFINE w == push[t].c  index == push[t].index  p == push[t].p
<1>3. ASSUME SerialWrite(t)
      PROVE  chunk' = [chunk EXCEPT ![w] = WithItem(chunk[w], index + 1, index, p)]
  <2>1. WritesItem(chunk', chunk, w, index + 1, index, p)
    BY <1>3, Zenon DEF SerialWrite, WritesItem
  <2>2. w \in Addresses
    BY <1>2, <1>3 DEF SerialWrite
  <2> HIDE DEF w, index, p
  <2> QED BY <1>1, <2>1, <2>2, SizeAndItem
<1>4. ASSUME WriteItem(t)
      PROVE  chunk' = [chunk EXCEPT ![w] = WithItem(chunk[w], chunk[w].size, index, p)]
  <2>1. WritesOneItem(chunk', chunk, w, index, p)
    BY <1>4, Zenon DEF WriteItem, WritesOneItem
  <2>2. w \in Addresses
    BY <1>2, <1>4 DEF WriteItem
  <2> HIDE DEF w, index, p
  <2> QED BY <1>1, <2>1, <2>2, ItemOnly
<1>5. ASSUME Capture(t)
      PROVE  chunk' = [chunk EXCEPT ![w] = [size |-> chunk[w].size + 1, next |-> chunk[w].next, item |-> chunk[w].item]]
  <2>1. SetsSize(chunk', chunk, w, chunk[w].size + 1)
    BY <1>5, Zenon DEF Capture, SetsSize
  <2>2. w \in Addresses
    BY <1>2, <1>5 DEF Capture
  <2> HIDE DEF w
  <2> QED BY <1>1, <2>1, <2>2, SizeWritten
<1>6. ASSUME UndoCapture(t)
      PROVE  chunk' = [chunk EXCEPT ![w] = [size |-> CHUNK_SIZE, next |-> chunk[w].next, item |-> chunk[w].item]]
  <2>1. SetsSize(chunk', chunk, w, CHUNK_SIZE)
    BY <1>6, Zenon DEF UndoCapture, SetsSize
  <2>2. w \in Addresses
    BY <1>2, <1>6 DEF UndoCapture
  <2> HIDE DEF w
  <2> QED BY <1>1, <2>1, <2>2, SizeWritten
<1>7. /\ SerialTake(t) \/ ReadFront(t) \/ LeaveSpin(t) \/ Publish(t) => UNCHANGED <<chunk, allocated, freeChunks>>
      /\ SerialWrite(t) \/ WriteItem(t) \/ Capture(t) \/ UndoCapture(t) => UNCHANGED <<allocated, freeChunks>>
  BY DEF SerialTake, ReadFront, LeaveSpin, Publish, SerialWrite, WriteItem, Capture, UndoCapture, memoryVars
<1> QED BY <1>3, <1>4, <1>5, <1>6, <1>7

\* The fields of a chunk in which an item is written.
LEMMA WithItemFields ==
  ASSUME NEW r, ChunkShape(r), NEW size, NEW k \in Slots, NEW p
  PROVE  /\ WithItem(r, size, k, p).size = size
         /\ WithItem(r, size, k, p).item[k] = p
         /\ \A m \in Slots : m # k => WithItem(r, size, k, p).item[m] = r.item[m]
<1>1. r.item = [i \in Slots |-> r.item[i]]
  BY DEF ChunkShape
<1> DEFINE it == r.item  it2 == [it EXCEPT ![k] = p]
<1>2. WithItem(r, size, k, p).size = size /\ WithItem(r, size, k, p).item = it2
  BY DEF WithItem
<1>3. it2[k] = p /\ \A m \in Slots : m # k => it2[m] = it[m]
  <2>1. it = [i \in Slots |-> it[i]]
    BY <1>1
  <2> HIDE DEF it
  <2> QED BY <2>1
<1> QED BY <1>2, <1>3

\* The chunk that a thread reads is not the one that a push writes.
LEMMA ReadUnwritten ==
  ASSUME PInv, OwnInv, NEW owner, NEW pos, ListsInv(owner, pos), NEW t \in Threads,
         push[t].pc \in {"serial_write", "capture", "write", "undo", "spin"},
         NEW x, chunk' = [chunk EXCEPT ![push[t].c] = x]
  PROVE  /\ \A a \in Addresses : a # push[t].c => chunk'[a] = chunk[a]
         /\ chunk'[push[t].c] = x /\ push[t].c \in Addresses /\ ChunkShape(chunk[push[t].c])
         /\ \A u \in Threads : Working(u) => chunk'[loop[u].my_chunk] = chunk[loop[u].my_chunk]
<1>1. chunk = [a \in Addresses |-> chunk[a]] /\ Listed \subseteq Addresses /\ \A a \in Addresses : ChunkShape(chunk[a])
  BY ListedIsMemory DEF OwnInv, MemoryInv
<1>2. push[t].c \in Listed /\ \A u \in Threads : loop[u].my_chunk # push[t].c
  BY ChunkPushed
<1>3. push[t].c \in Addresses
  BY <1>1, <1>2
<1>4. chunk' = [a \in Addresses |-> IF a = push[t].c THEN x ELSE chunk[a]]
  BY <1>1, <1>3
<1>5. \A a \in Addresses : a # push[t].c => chunk'[a] = chunk[a]
  BY <1>4
<1>6. chunk'[push[t].c] = x
  BY <1>3, <1>4
<1>7. ASSUME NEW u \in Threads, Working(u)
      PROVE  chunk'[loop[u].my_chunk] = chunk[loop[u].my_chunk]
  <2>1. loop[u].my_chunk \in Addresses
    BY <1>1, <1>7, ChunkRead
  <2> QED BY <1>2, <1>5, <2>1
<1> QED BY <1>1, <1>3, <1>5, <1>6, <1>7

LEMMA PushGoesOnFrom ==
  ASSUME PInv, OwnInv, NEW t \in Threads, PushParticle(t), NEW pc, NEW c, NEW index,
         PushRegisters(t, pc, c, index), pc # "idle", push[t].pc # "idle"
  PROVE  PushGoes(t)
<1>1. phase = "move" /\ UNCHANGED <<phase, loop, nbCreated>>
  BY DEF PushParticle, simVars
<1> QED BY <1>1 DEF PushGoes, PushRegisters, Idle

LEMMA InHandSame ==
  ASSUME NEW t \in Threads, PushGoes(t), push[t].pc # "publish", push'[t].pc # "publish"
  PROVE  \A u \in Threads : InHand(u)' = InHand(u)
BY DEF PushGoes, InHand

\* Steps that read the front of a bag or leave the spin.
LEMMA ReadsKeepParticles ==
  ASSUME PInv, OwnInv, ParticlesInv, NEW t \in Threads, PushParticle(t),
         SerialTake(t) \/ ReadFront(t) \/ LeaveSpin(t)
  PROVE  ParticlesInv' /\ SlotsStay
<1>1. PICK owner, pos : ListsInv(owner, pos)
  BY DEF OwnInv
<1>2. UNCHANGED <<chunk, allocated, freeChunks>>
  BY <1>1, MemoryAfter
<1>3. /\ push[t].pc \in {"serial_take", "read_front", "spin"}
      /\ push'[t].pc \in {"serial_write", "capture", "read_front"}
      /\ \E c, index : PushRegisters(t, push'[t].pc, c, index)
  BY RegistersAfter DEF SerialTake, ReadFront, LeaveSpin, PushRegisters
<1>4. PushGoes(t)
  <2>1. push'[t].pc # "idle" /\ push[t].pc # "idle"
    BY <1>3
  <2> QED BY <1>3, <2>1, PushGoesOnFrom
<1>5. Listed' = Listed
  <2>1. \A u \in Threads : InHand(u)' = InHand(u)
    BY <1>3, <1>4, InHandSame
  <2> QED BY <1>2, <1>4, <2>1, ListedSame DEF PushGoes
<1>6. ~Written(t) /\ ~Written(t)'
  BY <1>3 DEF Written
<1> QED BY <1>2, <1>3, <1>4, <1>5, <1>6, NoItemWritten

\* An increment of a full chunk is undone.
LEMMA UndoKeepsParticles ==
  ASSUME PInv, OwnInv, ParticlesInv, NEW t \in Threads, PushParticle(t), UndoCapture(t)
  PROVE  ParticlesInv' /\ SlotsStay
<1>1. PICK owner, pos : ListsInv(owner, pos)
  BY DEF OwnInv
<1> DEFINE w == push[t].c  x == [size |-> CHUNK_SIZE, next |-> chunk[w].next, item |-> chunk[w].item]
<1>2. UNCHANGED <<allocated, freeChunks>> /\ chunk' = [chunk EXCEPT ![w] = x]
  BY <1>1, MemoryAfter
<1>3. push[t].pc = "undo" /\ PushRegisters(t, "spin", push[t].c, push[t].index)
  BY RegistersAfter DEF UndoCapture
<1>4. PushGoes(t) /\ push'[t].pc = "spin"
  BY <1>3, PushGoesOnFrom DEF PushRegisters
<1>5. Listed' = Listed
  <2>1. \A u \in Threads : InHand(u)' = InHand(u)
    BY <1>3, <1>4, InHandSame
  <2> QED BY <1>2, <1>4, <2>1, ListedSame DEF PushGoes
<1>6. ~Written(t) /\ ~Written(t)'
  BY <1>3, <1>4 DEF Written
<1>7. Full(w)
  BY <1>1, <1>3 DEF ListsInv, PushesInv, PushAt
<1>8. x.size = CHUNK_SIZE /\ x.item = chunk[w].item
  OBVIOUS
<1>9. /\ \A a \in Addresses : a # w => chunk'[a] = chunk[a]
      /\ chunk'[w] = x /\ w \in Addresses /\ ChunkShape(chunk[w])
      /\ \A u \in Threads : Working(u) => chunk'[loop[u].my_chunk] = chunk[loop[u].my_chunk]
  <2> HIDE DEF x
  <2> QED BY <1>1, <1>2, <1>3, ReadUnwritten
<1> HIDE DEF x
<1>10. \A a \in Addresses : chunk'[a].item = chunk[a].item
  BY <1>8, <1>9
<1>11. \A a \in Addresses, i \in Slots : i < chunk'[a].size <=> i < chunk[a].size
  <2>1. chunk[w].size \in Nat /\ chunk[w].size >= CHUNK_SIZE
    BY <1>7, <1>9 DEF ChunkShape, Full
  <2>2. \A i \in Slots : i < CHUNK_SIZE /\ i < chunk[w].size
    BY <2>1, SlotNumbers
  <2> QED BY <1>8, <1>9, <2>2
<1> QED BY <1>3, <1>4, <1>5, <1>6, <1>9, <1>10, <1>11, NoItemWritten

\* A new chunk is taken; it is not in a list yet.
LEMMA ExtendKeepsParticles ==
  ASSUME PInv, OwnInv, ParticlesInv, NEW t \in Threads, PushParticle(t), ExtendBag(t)
  PROVE  ParticlesInv' /\ SlotsStay
<1>1. PICK owner, pos : ListsInv(owner, pos)
  BY DEF OwnInv
<1> DEFINE c == ChunkAllocated(t)
<1>2. push[t].pc = "extend" /\ PushRegisters(t, "publish", c, push[t].index)
  BY RegistersAfter DEF ExtendBag
<1>3. PushGoes(t) /\ push'[t].pc = "publish" /\ push'[t].c = c
  BY <1>2, PushGoesOnFrom DEF PushRegisters
<1>4. MemoryInv /\ FreesInv /\ HandsInv /\ chunk = [a \in Addresses |-> chunk[a]]
  BY DEF OwnInv, MemoryInv
<1>5. phase = "move" /\ phase' = "move"
  BY <1>3 DEF PushGoes
<1>6. /\ c \in Addresses /\ c \notin {a \in allocated : ~OutOfLists(a)}
      /\ allocated' = allocated \cup {c}
      /\ \A u \in Threads : Elements(freeChunks'[u]) = Elements(freeChunks[u]) \ {c}
      /\ \A u \in Threads : push[u].pc = "publish" => push[u].c # c
  <2>1. phase # "create" /\ phase' = phase /\ (UsesFreelist(t) \/ MemoryFor(1)) /\ chunk_alloc(t)
    BY <1>5 DEF ExtendBag
  <2> QED BY <1>4, <2>1, AllocatedChunk
<1>7. chunk' = [chunk EXCEPT ![c].size = 0, ![c].next = Target(t).front]
  BY DEF ExtendBag
<1> HIDE DEF c
<1>8. \A a \in Addresses : a # c => chunk'[a] = chunk[a]
  BY <1>4, <1>7
<1>9. Listed = {a \in allocated : ~OutOfLists(a)} /\ Listed' = {a \in allocated' : ~OutOfLists(a)'}
  BY <1>5, ListedOutsideAppend, ListedOutsideAppendNext DEF ListedNow
<1>10. \A a : a # c => (OutOfLists(a)' <=> OutOfLists(a))
  <2>1. \A a : OutOfLists(a)' <=> \E u \in Threads :
               a \in Elements(freeChunks'[u]) \/ (push'[u].pc = "publish" /\ push'[u].c = a)
    BY DEF OutOfLists, Elements
  <2> QED BY <1>2, <1>3, <1>6, <2>1 DEF OutOfLists, PushGoes
<1>11. \A a : a = c => OutOfLists(a)'
  BY <1>3 DEF OutOfLists
<1>12. \A a : a \in Listed' <=> a \in Listed
  <2>1. \A a : a # c => (a \in Listed' <=> a \in Listed)
    BY <1>6, <1>9, <1>10
  <2>2. c \notin Listed /\ c \notin Listed'
    BY <1>6, <1>9, <1>11
  <2> QED BY <2>1, <2>2
<1>13. \A a \in Addresses : a \in Listed => chunk'[a] = chunk[a]
  BY <1>6, <1>8, <1>9
<1>14. \A u \in Threads : Working(u) => chunk'[loop[u].my_chunk] = chunk[loop[u].my_chunk]
  BY <1>1, <1>4, <1>13, ChunkRead, ListedIsMemory
<1>15. Written(t) /\ Written(t)'
  BY <1>2, <1>3 DEF Written
<1> QED BY <1>2, <1>3, <1>12, <1>13, <1>14, <1>15, NoItemWritten

\* The chunk is put in front of the bag; it is empty.
LEMMA PublishKeepsParticles ==
  ASSUME PInv, OwnInv, ParticlesInv, NEW t \in Threads, PushParticle(t), Publish(t)
  PROVE  ParticlesInv' /\ SlotsStay
<1>1. PICK owner, pos : ListsInv(owner, pos)
  BY DEF OwnInv
<1> DEFINE c == push[t].c
<1>2. push[t].pc = "publish" /\ PushRegisters(t, "returned", c, push[t].index)
  BY RegistersAfter DEF Publish
<1>3. PushGoes(t) /\ push'[t].pc = "returned"
  BY <1>2, PushGoesOnFrom DEF PushRegisters
<1>4. UNCHANGED <<chunk, allocated, freeChunks>>
  BY <1>1, MemoryAfter
<1>5. phase = "move" /\ phase' = "move"
  BY <1>3 DEF PushGoes
<1>6. chunk[c].size = 0
  BY <1>2 DEF OwnInv, HandsInv
<1>7. Listed = {a \in allocated : ~OutOfLists(a)} /\ Listed' = {a \in allocated' : ~OutOfLists(a)'}
  BY <1>5, ListedOutsideAppend, ListedOutsideAppendNext DEF ListedNow
<1>8. \A a : a # c => (OutOfLists(a)' <=> OutOfLists(a))
  <2>1. \A a : OutOfLists(a)' <=> \E u \in Threads :
               a \in Elements(freeChunks'[u]) \/ (push'[u].pc = "publish" /\ push'[u].c = a)
    BY DEF OutOfLists, Elements
  <2> QED BY <1>2, <1>3, <1>4, <2>1 DEF OutOfLists, PushGoes
<1>9. \A a : a # c => (a \in Listed' <=> a \in Listed)
  BY <1>4, <1>7, <1>8
<1>10. \A u \in Threads : Written(u)' <=> Written(u)
  BY <1>2, <1>3 DEF Written, PushGoes
<1>11. \A a, i : Passed(a, i)' <=> Passed(a, i)
  BY <1>3, <1>10 DEF Passed, PushGoes
<1>12. \A a, i : Claimed(a, i)' <=> Claimed(a, i)
  BY <1>2, <1>3 DEF Claimed, PushGoes
<1>13. \A a \in Addresses, i \in Slots : Holds(a, i)' <=> Holds(a, i)
  <2>1. \A i \in Slots : ~(i < chunk[c].size)
    BY <1>6, SlotNumbers
  <2> QED BY <1>4, <1>9, <1>11, <1>12, <2>1 DEF Holds
<1>14. SlotsStay /\ Numbered'
  <2>1. SlotsStay
    BY <1>3, <1>4, <1>13 DEF SlotsStay, Item
  <2> QED BY <1>3, <2>1, NumberedSame DEF ParticlesInv, PushGoes
<1>15. MoversInv'
  <2>1. \A u \in Threads : Idle(u)' <=> Idle(u)
    BY <1>3 DEF PushGoes, Idle
  <2>2. \A u \in Threads : Working(u)' <=> Working(u)
    BY <1>3 DEF PushGoes, Working
  <2>3. \A p, j : Destinations(p, j)' = Destinations(p, j)
    BY DEF Destinations
  <2> QED BY <1>3, <1>4, <2>1, <2>2, <2>3 DEF MoversInv, ParticlesInv, PushGoes, Item
<1>16. ClaimsInv'
  BY <1>2, <1>3 DEF ClaimsInv, ParticlesInv, PushGoes
<1> QED BY <1>14, <1>15, <1>16 DEF ParticlesInv

\* A slot is captured, or a full chunk gets an increment to undo.
LEMMA CaptureKeepsParticles ==
  ASSUME PInv, OwnInv, ParticlesInv, NEW t \in Threads, PushParticle(t), Capture(t)
  PROVE  ParticlesInv' /\ SlotsStay
<1>1. PICK owner, pos : ListsInv(owner, pos)
  BY DEF OwnInv
<1> DEFINE w == push[t].c  n == chunk[w].size
           x == [size |-> n + 1, next |-> chunk[w].next, item |-> chunk[w].item]
<1>2. UNCHANGED <<allocated, freeChunks>> /\ chunk' = [chunk EXCEPT ![w] = x]
  BY <1>1, MemoryAfter
<1>3. push[t].pc = "capture" /\ PushRegisters(t, IF n < CHUNK_SIZE THEN "write" ELSE "undo", w, n)
  BY RegistersAfter DEF Capture
<1>4. PushGoes(t) /\ push'[t].pc = (IF n < CHUNK_SIZE THEN "write" ELSE "undo") /\ push'[t].c = w /\ push'[t].index = n
  BY <1>3, PushGoesOnFrom DEF PushRegisters
<1>5. Listed' = Listed
  <2>1. \A u \in Threads : InHand(u)' = InHand(u)
    BY <1>3, <1>4, InHandSame
  <2> QED BY <1>2, <1>4, <2>1, ListedSame DEF PushGoes
<1>6. x.size = n + 1 /\ x.item = chunk[w].item
  OBVIOUS
<1>7. /\ \A a \in Addresses : a # w => chunk'[a] = chunk[a]
      /\ chunk'[w] = x /\ w \in Addresses /\ ChunkShape(chunk[w])
      /\ \A u \in Threads : Working(u) => chunk'[loop[u].my_chunk] = chunk[loop[u].my_chunk]
  <2> HIDE DEF x
  <2> QED BY <1>1, <1>2, <1>3, ReadUnwritten
<1>8. n \in Nat
  BY <1>7 DEF ChunkShape
<1> HIDE DEF x
<1>9. \A u \in Threads : Written(u)' <=> Written(u)
  BY <1>3, <1>4 DEF Written, PushGoes
<1>10. \A a, i : Passed(a, i)' <=> Passed(a, i)
  BY <1>4, <1>9 DEF Passed, PushGoes
<1>11. \A a \in Addresses, i \in Slots : Claimed(a, i)' <=> Claimed(a, i) \/ (a = w /\ i = n)
  <2>1. \A i \in Slots : i < CHUNK_SIZE
    BY SlotNumbers
  <2> QED BY <1>3, <1>4, <2>1 DEF Claimed, PushGoes
<1>12. \A a \in Addresses, i \in Slots : Holds(a, i)' <=> Holds(a, i)
  <2>1. \A i \in Slots : i < n + 1 <=> i < n \/ i = n
    BY <1>8, SlotNumbers
  <2>2. \A a \in Addresses, i \in Slots : i < chunk'[a].size <=> i < chunk[a].size \/ (a = w /\ i = n)
    BY <1>6, <1>7, <2>1
  <2>3. ~(n < n)
    BY <1>8
  <2> QED BY <1>5, <1>10, <1>11, <2>2, <2>3 DEF Holds
<1>13. \A a \in Addresses : chunk'[a].item = chunk[a].item
  BY <1>6, <1>7
<1>14. SlotsStay /\ Numbered'
  <2>1. SlotsStay
    BY <1>4, <1>12, <1>13 DEF SlotsStay, Item
  <2> QED BY <1>4, <2>1, NumberedSame DEF ParticlesInv, PushGoes
<1>15. MoversInv'
  <2>1. \A u \in Threads : Idle(u)' <=> Idle(u)
    BY <1>4 DEF PushGoes, Idle
  <2>2. \A u \in Threads : Working(u)' <=> Working(u)
    BY <1>4 DEF PushGoes, Working
  <2>3. \A u \in Threads : ~Idle(u) => Working(u)
    BY DEF PInv, PushInv
  <2>4. \A p, j : Destinations(p, j)' = Destinations(p, j)
    BY DEF Destinations
  <2> QED BY <1>4, <1>7, <2>1, <2>2, <2>3, <2>4 DEF MoversInv, ParticlesInv, PushGoes, Item
<1>16. ClaimsInv'
  <2>1. \A u \in Threads : push[u].pc = "write" => push[u].index \in Slots /\ push[u].index < chunk[push[u].c].size
    BY <1>1 DEF ListsInv, PushesInv, PushAt
  <2>2. \A u \in Threads : push[u].pc = "write" /\ push[u].c = w => push[u].index # n
    BY <1>8, <2>1
  <2> QED BY <1>3, <1>4, <2>2 DEF ClaimsInv, ParticlesInv, PushGoes
<1> QED BY <1>14, <1>15, <1>16 DEF ParticlesInv

\* The slot that a thread reads while it pushes is still counted, until it is written.
LEMMA SlotInHand ==
  ASSUME PInv, OwnInv, ParticlesInv, NEW owner, NEW pos, ListsInv(owner, pos), NEW t \in Threads,
         ~Idle(t), ~Written(t)
  PROVE  LET c == loop[t].my_chunk  i == loop[t].i
         IN  c \in Addresses /\ i \in Slots /\ Holds(c, i) /\ Item(c, i) = push[t].p
<1> DEFINE c == loop[t].my_chunk  i == loop[t].i
<1>1. Working(t)
  BY DEF PInv, PushInv
<1>2. c \in Listed /\ \A u \in Threads : loop[u].my_chunk = c => u = t
  BY <1>1, ChunkRead
<1>3. c \in Addresses /\ ChunkShape(chunk[c])
  BY <1>2, ListedIsMemory DEF OwnInv, MemoryInv
<1>4. i \in Nat /\ i < chunk[c].size /\ push[t].p = Item(c, i)
  BY <1>1 DEF ParticlesInv, MoversInv
<1>5. chunk[c].size <= CHUNK_SIZE
  <2> SUFFICES ASSUME ~(chunk[c].size <= CHUNK_SIZE) PROVE FALSE
    OBVIOUS
  <2>1. chunk[c].size \in Nat /\ chunk[c].size > CHUNK_SIZE
    BY <1>3, SlotNumbers DEF ChunkShape
  <2>2. PICK u \in Threads : push[u].pc = "undo" /\ push[u].c = c
    BY <1>3, <2>1 DEF ListsInv, LateInv
  <2> QED BY <2>2, ChunkPushed
<1>6. i \in Slots
  BY <1>3, <1>4, <1>5, SlotNumbers DEF ChunkShape
<1>7. ~Passed(c, i)
  BY <1>2, <1>4 DEF Passed
<1>8. ~Claimed(c, i)
  <2> SUFFICES ASSUME NEW u \in Threads, push[u].pc = "write", push[u].c = c PROVE FALSE
    BY DEF Claimed
  <2> QED BY ChunkPushed
<1> QED BY <1>2, <1>3, <1>4, <1>6, <1>7, <1>8 DEF Holds

\* The item of a push is written in a slot of its own: the particle leaves the
\* slot it was read from.
ItemMoves(t) ==
  \E c, i, d, k : c = loop[t].my_chunk /\ i = loop[t].i /\ d = push[t].c /\ SlotMoves(c, i, d, k)

LEMMA ItemWritten ==
  ASSUME PInv, OwnInv, ParticlesInv, NEW owner, NEW pos, ListsInv(owner, pos), NEW t \in Threads,
         PushGoes(t), push[t].pc \in {"write", "serial_write"}, push'[t].pc \in {"extend", "returned"},
         NEW d, d = push[t].c, NEW k \in Slots, k = push[t].index, ~Holds(d, k),
         \A u \in Threads : u # t /\ push[u].pc = "write" /\ push[u].c = d => push[u].index # k,
         UNCHANGED <<allocated, freeChunks>>,
         NEW size, chunk' = [chunk EXCEPT ![d] = WithItem(chunk[d], size, k, push[t].p)],
         \A m \in Slots : m < size <=> m < chunk[d].size \/ m = k
  PROVE  ParticlesInv' /\ ItemMoves(t)
<1> DEFINE c == loop[t].my_chunk  i == loop[t].i
<1>1. ~Idle(t) /\ ~Written(t) /\ Working(t)
  BY DEF Written, Idle, PInv, PushInv
<1>2. c \in Addresses /\ i \in Slots /\ Holds(c, i) /\ Item(c, i) = push[t].p
  BY <1>1, SlotInHand
<1>3. \A u \in Threads : loop[u].my_chunk = c => u = t
  BY <1>1, ChunkRead
<1>4. /\ \A a \in Addresses : a # d => chunk'[a] = chunk[a]
      /\ chunk'[d] = WithItem(chunk[d], size, k, push[t].p) /\ d \in Addresses /\ ChunkShape(chunk[d])
      /\ \A u \in Threads : Working(u) => chunk'[loop[u].my_chunk] = chunk[loop[u].my_chunk]
  <2> DEFINE x == WithItem(chunk[d], size, k, push[t].p)
  <2>1. chunk' = [chunk EXCEPT ![push[t].c] = x]
    OBVIOUS
  <2>2. push[t].pc \in {"serial_write", "capture", "write", "undo", "spin"}
    OBVIOUS
  <2> HIDE DEF x
  <2>3. /\ \A a \in Addresses : a # push[t].c => chunk'[a] = chunk[a]
        /\ chunk'[push[t].c] = x /\ push[t].c \in Addresses /\ ChunkShape(chunk[push[t].c])
        /\ \A u \in Threads : Working(u) => chunk'[loop[u].my_chunk] = chunk[loop[u].my_chunk]
    BY <2>1, <2>2, ReadUnwritten
  <2> QED BY <2>3 DEF x
<1>5. d \in Listed /\ \A u \in Threads : loop[u].my_chunk # d
  BY ChunkPushed
<1>6. chunk'[d].size = size /\ Item(d, k)' = push[t].p /\ \A m \in Slots : m # k => Item(d, m)' = Item(d, m)
  BY <1>4, WithItemFields DEF Item
<1>7. Listed' = Listed
  <2>1. \A u \in Threads : InHand(u)' = InHand(u)
    BY InHandSame
  <2> QED BY <2>1, ListedSame DEF PushGoes
<1>8. Written(t)' /\ \A u \in Threads : u # t => (Written(u)' <=> Written(u))
  BY DEF Written, PushGoes
<1>9. \A a \in Addresses, m \in Slots : Passed(a, m)' <=> Passed(a, m) \/ (a = c /\ m = i)
  <2>1. loop' = loop
    BY DEF PushGoes
  <2> QED BY <1>1, <1>3, <1>8, <2>1 DEF Passed
<1>10. \A a \in Addresses, m \in Slots : ~(a = d /\ m = k) => (Claimed(a, m)' <=> Claimed(a, m))
  BY DEF Claimed, PushGoes
<1>11. ~Claimed(d, k)'
  BY DEF Claimed, PushGoes
<1>12. ~Passed(d, k)
  BY <1>5 DEF Passed
<1>13. c # d
  BY <1>5
<1>14. ASSUME NEW a \in Addresses, NEW m \in Slots
       PROVE  Holds(a, m)' <=> (Holds(a, m) /\ ~(a = c /\ m = i)) \/ (a = d /\ m = k)
  <2>1. CASE a = d /\ m = k
    BY <1>4, <1>5, <1>6, <1>7, <1>9, <1>11, <1>12, <1>13, <2>1 DEF Holds
  <2>2. CASE ~(a = d /\ m = k)
    <3>1. m < chunk'[a].size <=> m < chunk[a].size
      BY <1>4, <1>6, <2>2
    <3> QED BY <1>7, <1>9, <1>10, <2>2, <3>1 DEF Holds
  <2> QED BY <2>1, <2>2
<1>15. ASSUME NEW a \in Addresses, NEW m \in Slots, Holds(a, m)
       PROVE  Item(a, m)' = Item(a, m)
  <2>1. ~(a = d /\ m = k)
    BY <1>15
  <2>2. CASE a = d
    BY <1>6, <2>1, <2>2
  <2>3. CASE a # d
    BY <1>4, <2>3 DEF Item
  <2> QED BY <2>2, <2>3
<1>16. Item(d, k)' = Item(c, i)
  BY <1>2, <1>6
<1>17. nbCreated' = nbCreated
  BY DEF PushGoes
<1>18. ItemMoves(t) /\ Numbered'
  <2>1. SlotMoves(c, i, d, k)
    BY <1>2, <1>4, <1>14, <1>15, <1>16 DEF SlotMoves
  <2>2. ItemMoves(t)
    BY <2>1 DEF ItemMoves
  <2> HIDE DEF c, i
  <2>3. Numbered'
    BY <1>17, <2>1, NumberedMove DEF ParticlesInv
  <2> QED BY <2>2, <2>3
<1>19. MoversInv'
  <2>1. \A u \in Threads : Idle(u)' <=> Idle(u)
    BY DEF PushGoes, Idle
  <2>2. \A u \in Threads : Working(u)' <=> Working(u)
    BY DEF PushGoes, Working
  <2>3. \A u \in Threads : ~Idle(u) => Working(u)
    BY DEF PInv, PushInv
  <2>4. \A p, j : Destinations(p, j)' = Destinations(p, j)
    BY DEF Destinations
  <2> QED BY <1>4, <2>1, <2>2, <2>3, <2>4 DEF MoversInv, ParticlesInv, PushGoes, Item
<1>20. ClaimsInv'
  BY DEF ClaimsInv, ParticlesInv, PushGoes
<1> QED BY <1>18, <1>19, <1>20 DEF ParticlesInv

LEMMA WriteItemKeepsParticles ==
  ASSUME PInv, OwnInv, ParticlesInv, NEW t \in Threads, PushParticle(t), WriteItem(t)
  PROVE  ParticlesInv' /\ ItemMoves(t)
<1>1. PICK owner, pos : ListsInv(owner, pos)
  BY DEF OwnInv
<1> DEFINE d == push[t].c  k == push[t].index  size == chunk[d].size
<1>2. push[t].pc = "write" /\ PushRegisters(t, AfterWrite(k), d, k)
  BY RegistersAfter DEF WriteItem
<1>3. PushGoes(t) /\ push'[t].pc \in {"extend", "returned"}
  BY <1>2, PushGoesOnFrom DEF PushRegisters, AfterWrite
<1>4. k \in Slots /\ k < size
  BY <1>1, <1>2 DEF ListsInv, PushesInv, PushAt
<1>5. ~Holds(d, k)
  BY <1>2 DEF Holds, Claimed
<1>6. \A u \in Threads : u # t /\ push[u].pc = "write" /\ push[u].c = d => push[u].index # k
  BY <1>2 DEF ParticlesInv, ClaimsInv
<1>7. UNCHANGED <<allocated, freeChunks>> /\ chunk' = [chunk EXCEPT ![d] = WithItem(chunk[d], size, k, push[t].p)]
  BY <1>1, MemoryAfter
<1>8. \A m \in Slots : m < size <=> m < chunk[d].size \/ m = k
  BY <1>4
<1> HIDE DEF d, k, size
<1> QED BY <1>1, <1>2, <1>3, <1>4, <1>5, <1>6, <1>7, <1>8, ItemWritten DEF d, k

LEMMA SerialWriteKeepsParticles ==
  ASSUME PInv, OwnInv, SerialPushExclusive, ParticlesInv, NEW t \in Threads, PushParticle(t), SerialWrite(t)
  PROVE  ParticlesInv' /\ ItemMoves(t)
<1>1. PICK owner, pos : ListsInv(owner, pos)
  BY DEF OwnInv
<1> DEFINE d == push[t].c  k == push[t].index  size == k + 1
<1>2. push[t].pc = "serial_write" /\ PushRegisters(t, AfterWrite(k), d, k)
  BY RegistersAfter DEF SerialWrite
<1>3. PushGoes(t) /\ push'[t].pc \in {"extend", "returned"}
  BY <1>2, PushGoesOnFrom DEF PushRegisters, AfterWrite
<1>4. d = Target(t).front /\ k = chunk[d].size /\ push[t].kind = ID_PRIVATE_BAG
  BY <1>1, <1>2 DEF ListsInv, PushesInv, PushAt
<1>5. k \in Slots /\ k \in Nat
  <2>1. ~Full(d)
    BY <1>1, <1>2, <1>4, SerialRoom
  <2>2. d \in Listed /\ owner[d] = NextId(push[t].kind, push[t].cell)
    BY <1>1, <1>2, ChunkPushed
  <2>3. k \in Nat
    BY <1>4, <2>2, ListedIsMemory DEF OwnInv, MemoryInv, ChunkShape
  <2> QED BY <1>4, <2>1, <2>3, SlotNumbers DEF Full
<1>6. ~Holds(d, k)
  BY <1>4, <1>5 DEF Holds
<1>7. ASSUME NEW u \in Threads, push[u].pc = "write", push[u].c = d PROVE FALSE
  <2>1. push[u].kind = ID_SHARED_BAG
    BY <1>1, <1>7 DEF ListsInv, PushesInv, PushAt
  <2>2. owner[d] = NextId(push[u].kind, push[u].cell) /\ owner[d] = NextId(push[t].kind, push[t].cell)
    BY <1>1, <1>2, <1>7, ChunkPushed
  <2>3. push[u].kind = push[t].kind
    BY <2>2 DEF NextId
  <2> QED BY <1>4, <2>1, <2>3 DEF ID_SHARED_BAG, ID_PRIVATE_BAG
<1>8. UNCHANGED <<allocated, freeChunks>> /\ chunk' = [chunk EXCEPT ![d] = WithItem(chunk[d], size, k, push[t].p)]
  BY <1>1, MemoryAfter
<1>9. \A m \in Slots : m < size <=> m < chunk[d].size \/ m = k
  BY <1>4, <1>5, SlotNumbers
<1> HIDE DEF d, k, size
<1> QED BY <1>1, <1>2, <1>3, <1>5, <1>6, <1>7, <1>8, <1>9, ItemWritten DEF d, k

-----------------------------------------------------------------------------
(* The particle loop.                                                       *)

\* A thread starts the push of the next particle of its chunk.
LEMMA MoveKeepsParticles ==
  ASSUME PInv, OwnInv, ParticlesInv, NEW t \in Threads, MoveParticle(t)
  PROVE  ParticlesInv' /\ SlotsStay
<1>1. /\ phase = "move" /\ push[t].pc = "idle" /\ Working(t) /\ loop[t].i < chunk[loop[t].my_chunk].size
      /\ UNCHANGED <<chunk, allocated, freeChunks, loop, phase, nbCreated>>
  BY DEF MoveParticle, Idle, memoryVars, simVars
<1> DEFINE p == Item(loop[t].my_chunk, loop[t].i)
<1>2. PICK i_cell \in Destinations(p, loop[t].j), kind \in BagKinds : StartPush(t, kind, i_cell, p)
  <2>1. PICK i_cell \in Destinations(p, loop[t].j) :
          StartPush(t, IF InPrivateRegion(loop[t].tile, i_cell) THEN ID_PRIVATE_BAG ELSE ID_SHARED_BAG, i_cell, p)
    BY DEF MoveParticle, Item
  <2> QED BY <2>1 DEF BagKinds
<1> HIDE DEF p
<1> DEFINE r == [NoPush EXCEPT !.kind = kind, !.cell = i_cell, !.p = p,
                   !.pc = IF kind = ID_PRIVATE_BAG THEN "serial_take" ELSE "read_front"]
<1>3. push' = [push EXCEPT ![t] = r]
  BY <1>2 DEF StartPush
<1>4. r.p = p /\ r.cell = i_cell /\ r.pc \in {"serial_take", "read_front"}
  BY DEF NoPush
<1> HIDE DEF r
<1>5. push'[t] = r /\ \A u \in Threads : u # t => push'[u] = push[u]
  BY <1>3, Registers
<1>6. Listed' = Listed
  <2>1. \A u \in Threads : InHand(u)' = InHand(u)
    BY <1>1, <1>4, <1>5 DEF InHand
  <2> QED BY <1>1, <2>1, ListedSame
<1>7. \A u \in Threads : Written(u)' <=> Written(u)
  BY <1>1, <1>4, <1>5 DEF Written
<1>8. \A a, m : (Passed(a, m)' <=> Passed(a, m)) /\ (Claimed(a, m)' <=> Claimed(a, m))
  BY <1>1, <1>4, <1>5, <1>7 DEF Passed, Claimed
<1>9. SlotsStay /\ Numbered'
  <2>1. SlotsStay
    BY <1>1, <1>6, <1>8 DEF SlotsStay, Holds, Item
  <2> QED BY <1>1, <2>1, NumberedSame DEF ParticlesInv
<1>10. MoversInv'
  <2>1. \A u \in Threads : Working(u)' <=> Working(u)
    BY <1>1 DEF Working
  <2>2. \A q, j : Destinations(q, j)' = Destinations(q, j)
    BY DEF Destinations
  <2>3. \A c, m : Item(c, m)' = Item(c, m)
    BY <1>1 DEF Item
  <2>4. ASSUME NEW u \in Threads
        PROVE  /\ Working(u)' => loop'[u].i \in Nat
               /\ ~Idle(u)' => /\ loop'[u].i < chunk'[loop'[u].my_chunk].size
                              /\ push'[u].p = Item(loop[u].my_chunk, loop[u].i)'
                              /\ push'[u].cell \in Destinations(push[u].p, loop[u].j)'
    <3>1. CASE u = t
      BY <1>1, <1>2, <1>4, <1>5, <2>1, <3>1 DEF MoversInv, ParticlesInv, p, Item, Destinations
    <3>2. CASE u # t
      BY <1>1, <1>5, <2>1, <2>2, <2>3, <3>2 DEF MoversInv, ParticlesInv, Idle
    <3> QED BY <3>1, <3>2
  <2> QED BY <2>4 DEF MoversInv
<1>11. ClaimsInv'
  BY <1>1, <1>4, <1>5 DEF ClaimsInv, ParticlesInv
<1> QED BY <1>9, <1>10, <1>11 DEF ParticlesInv

\* The push is over: the thread goes to the next slot.
LEMMA DepositKeepsParticles ==
  ASSUME PInv, OwnInv, ParticlesInv, NEW t \in Threads, DepositCharge(t)
  PROVE  ParticlesInv' /\ SlotsStay
<1>1. /\ phase = "move" /\ push[t].pc = "returned" /\ push' = [push EXCEPT ![t] = NoPush]
      /\ UNCHANGED <<chunk, allocated, freeChunks, phase, nbCreated>>
  BY DEF DepositCharge, memoryVars
<1>2. push'[t] = NoPush /\ \A u \in Threads : u # t => push'[u] = push[u]
  BY <1>1, Registers
<1>3. /\ \A u \in Threads : u # t => loop'[u] = loop[u]
      /\ loop'[t].i = loop[t].i + 1 /\ loop'[t].my_chunk = loop[t].my_chunk
  <2> DEFINE l == [loop[t] EXCEPT !.i = @ + 1]
  <2>1. l.my_chunk = loop[t].my_chunk /\ l.i = loop[t].i + 1
    BY DEF PInv, RegistersInv, LoopShape, LoopFields
  <2>2. loop' = [loop EXCEPT ![t] = l]
    BY DEF DepositCharge
  <2>3. loop = [u \in Threads |-> loop[u]]
    BY DEF PInv, RegistersInv
  <2> HIDE DEF l
  <2> QED BY <2>1, <2>2, <2>3
<1>4. Working(t) /\ ~Idle(t) /\ loop[t].i \in Nat
  BY <1>1 DEF PInv, PushInv, Idle, ParticlesInv, MoversInv
<1>5. Listed' = Listed
  <2>1. \A u \in Threads : InHand(u)' = InHand(u)
    BY <1>1, <1>2 DEF InHand, NoPush
  <2> QED BY <1>1, <2>1, ListedSame
<1>6. Written(t) /\ ~Written(t)' /\ \A u \in Threads : u # t => (Written(u)' <=> Written(u))
  BY <1>1, <1>2 DEF Written, NoPush
<1>7. \A m \in Slots : m < loop[t].i + 1 <=> m < loop[t].i \/ m = loop[t].i
  BY <1>4, SlotNumbers
<1>8. \A a \in Addresses, m \in Slots : Passed(a, m)' <=> Passed(a, m)
  BY <1>3, <1>6, <1>7 DEF Passed
<1>9. \A a, m : Claimed(a, m)' <=> Claimed(a, m)
  BY <1>1, <1>2 DEF Claimed, NoPush
<1>10. SlotsStay /\ Numbered'
  <2>1. SlotsStay
    BY <1>1, <1>5, <1>8, <1>9 DEF SlotsStay, Holds, Item
  <2> QED BY <1>1, <2>1, NumberedSame DEF ParticlesInv
<1>11. MoversInv'
  <2>1. \A q, j : Destinations(q, j)' = Destinations(q, j)
    BY DEF Destinations
  <2>2. Idle(t)' /\ loop'[t].i \in Nat
    BY <1>2, <1>3, <1>4 DEF Idle, NoPush
  <2> QED BY <1>1, <1>2, <1>3, <2>1, <2>2 DEF MoversInv, ParticlesInv, Idle, Working, Item
<1>12. ClaimsInv'
  BY <1>1, <1>2 DEF ClaimsInv, ParticlesInv, NoPush
<1> QED BY <1>10, <1>11, <1>12 DEF ParticlesInv

\* A thread goes to the beginning of another chunk; the slots of those that are
\* freed were passed.
LEMMA ReaderGoesOn ==
  ASSUME PInv, OwnInv, ParticlesInv, NEW t \in Threads, Idle(t),
         UNCHANGED <<chunk, push, phase, nbCreated>>,
         \A u \in Threads : u # t => loop'[u] = loop[u],
         loop'[t].i = 0,
         \A a \in Addresses, m \in Slots : a \in Listed' => a \in Listed /\ ~(m < loop[t].i /\ loop[t].my_chunk = a /\ m < chunk[a].size),
         \A a \in Addresses, m \in Slots : Holds(a, m) => a \in Listed'
  PROVE  ParticlesInv' /\ SlotsStay
<1>1. \A u \in Threads : Written(u)' <=> Written(u)
  BY DEF Written
<1>2. ~Written(t)
  BY DEF Written, Idle
<1>3. \A m \in Slots : ~(m < 0)
  BY SlotNumbers
<1>4. \A a \in Addresses, m \in Slots :
        /\ Passed(a, m)' => Passed(a, m)
        /\ Passed(a, m) => Passed(a, m)' \/ (m < loop[t].i /\ loop[t].my_chunk = a)
  BY <1>1, <1>2, <1>3 DEF Passed
<1>5. \A a, m : Claimed(a, m)' <=> Claimed(a, m)
  BY DEF Claimed
<1>6. \A a \in Addresses, m \in Slots : Holds(a, m)' <=> Holds(a, m)
  BY <1>4, <1>5 DEF Holds
<1>7. SlotsStay /\ Numbered'
  <2>1. SlotsStay
    BY <1>6 DEF SlotsStay, Item
  <2> QED BY <2>1, NumberedSame DEF ParticlesInv
<1>8. MoversInv'
  <2>1. \A q, j : Destinations(q, j)' = Destinations(q, j)
    BY DEF Destinations
  <2> QED BY <2>1 DEF MoversInv, ParticlesInv, Idle, Working, Item
<1>9. ClaimsInv'
  BY DEF ClaimsInv, ParticlesInv
<1> QED BY <1>7, <1>8, <1>9 DEF ParticlesInv

LEMMA TakeTileKeepsParticles ==
  ASSUME PInv, OwnInv, ParticlesInv, NEW t \in Threads, TakeTile(t)
  PROVE  ParticlesInv' /\ SlotsStay
<1>1. /\ phase = "move" /\ ~Working(t)
      /\ UNCHANGED <<chunk, allocated, freeChunks, push, phase, nbCreated>>
  BY DEF TakeTile, bagVars
<1>2. Idle(t) /\ loop[t] = NoTile /\ loop = [u \in Threads |-> loop[u]]
  BY <1>1 DEF PInv, PushInv, RegistersInv, OwnInv, LoopInv
<1>3. loop'[t].i = 0 /\ \A u \in Threads : u # t => loop'[u] = loop[u]
  <2> DEFINE At(tile) == [tile |-> tile, j |-> FirstCellOf(tile), todo |-> CellsOfTile(tile) \ {FirstCellOf(tile)},
                          my_chunk |-> particles[FirstCellOf(tile)].front, i |-> 0]
  <2>1. PICK tile \in tiles[t] : loop' = [loop EXCEPT ![t] = At(tile)]
    BY DEF TakeTile
  <2>2. At(tile).i = 0
    OBVIOUS
  <2> HIDE DEF At
  <2> QED BY <1>2, <2>1, <2>2
<1>4. Listed' = Listed
  <2>1. \A u \in Threads : InHand(u)' = InHand(u)
    BY <1>1 DEF InHand
  <2> QED BY <1>1, <2>1, ListedSame
<1>5. \A m \in Slots : ~(m < loop[t].i)
  BY <1>2, SlotNumbers DEF NoTile
<1>6. \A a \in Addresses, m \in Slots :
        a \in Listed' => a \in Listed /\ ~(m < loop[t].i /\ loop[t].my_chunk = a /\ m < chunk[a].size)
  BY <1>4, <1>5
<1>7. \A a \in Addresses, m \in Slots : Holds(a, m) => a \in Listed'
  BY <1>4 DEF Holds
<1> QED BY <1>1, <1>2, <1>3, <1>6, <1>7, ReaderGoesOn

LEMMA NextChunkKeepsParticles ==
  ASSUME PInv, OwnInv, ParticlesInv, NEW t \in Threads, NextChunk(t)
  PROVE  ParticlesInv' /\ SlotsStay
<1>1. PICK c : c = loop[t].my_chunk
  OBVIOUS
<1>2. /\ Idle(t) /\ Working(t) /\ loop[t].i >= chunk[c].size
      /\ UNCHANGED <<chunk, push, phase, nbCreated>>
  BY <1>1 DEF NextChunk
<1>3. Listed' = Listed \ {c}
  BY <1>1, NextChunkKeeps
<1>4. PICK l : loop' = [loop EXCEPT ![t] = l] /\ l.i = 0
  BY GoesOn DEF OwnInv
<1>5. loop'[t].i = 0 /\ \A u \in Threads : u # t => loop'[u] = loop[u]
  BY <1>4 DEF PInv, RegistersInv
<1>6. \A m \in Slots : m < chunk[c].size => m < loop[t].i
  <2>1. loop[t].i \in Nat
    BY <1>2 DEF ParticlesInv, MoversInv
  <2>2. PICK owner, pos : ListsInv(owner, pos)
    BY DEF OwnInv
  <2>3. c \in Addresses
    BY <1>1, <1>2, <2>2, ChunkRead, ListedIsMemory DEF OwnInv
  <2>4. chunk[c].size \in Nat
    BY <2>3 DEF OwnInv, MemoryInv, ChunkShape
  <2> QED BY <1>2, <2>1, <2>4, SlotNumbers
<1>7. \A m \in Slots : ~Holds(c, m)
  BY <1>1, <1>6 DEF Holds, Passed
<1>8. \A a \in Addresses, m \in Slots :
        a \in Listed' => a \in Listed /\ ~(m < loop[t].i /\ loop[t].my_chunk = a /\ m < chunk[a].size)
  BY <1>1, <1>3
<1>9. \A a \in Addresses, m \in Slots : Holds(a, m) => a \in Listed'
  BY <1>3, <1>7 DEF Holds
<1> QED BY <1>2, <1>5, <1>8, <1>9, ReaderGoesOn

-----------------------------------------------------------------------------
(* The steps of the main thread, and of the append loop.                    *)

\* Steps that move nothing.
LEMMA NothingMoves ==
  ASSUME ParticlesInv, UNCHANGED <<chunk, push, loop, nbCreated>>, Listed' = Listed
  PROVE  ParticlesInv' /\ SlotsStay
<1>1. \A u \in Threads : Written(u)' <=> Written(u)
  BY DEF Written
<1>2. \A a, m : (Passed(a, m)' <=> Passed(a, m)) /\ (Claimed(a, m)' <=> Claimed(a, m))
  BY <1>1 DEF Passed, Claimed
<1>3. SlotsStay /\ Numbered'
  <2>1. SlotsStay
    BY <1>2 DEF SlotsStay, Holds, Item
  <2> QED BY <2>1, NumberedSame DEF ParticlesInv
<1>4. MoversInv'
  BY DEF MoversInv, ParticlesInv, Idle, Working, Item, Destinations
<1>5. ClaimsInv'
  BY DEF ClaimsInv, ParticlesInv
<1> QED BY <1>3, <1>4, <1>5 DEF ParticlesInv

LEMMA MainKeepsParticles ==
  ASSUME PInv, OwnInv, ParticlesInv, NextColor \/ Single \/ EndStep \/ StartSimulation
  PROVE  ParticlesInv' /\ SlotsStay
<1>1. UNCHANGED <<chunk, push, loop, nbCreated>>
  <2>1. Single => UNCHANGED chunk
    BY DEF Single, compute_cumulative_free_list_sizes, memoryVars
  <2> QED BY <2>1 DEF NextColor, Single, EndStep, StartSimulation, bagVars
<1>2. Listed' = Listed
  <2>1. ASSUME NextColor PROVE Listed' = Listed
    <3>1. phase # "append" /\ phase' # "append" /\ UNCHANGED <<allocated, freeChunks, push>>
      BY <2>1 DEF NextColor, ColorDone, bagVars
    <3>2. \A u \in Threads : InHand(u)' = InHand(u)
      BY <3>1 DEF InHand
    <3> QED BY <3>1, <3>2, ListedSame
  <2> QED BY <2>1, SingleKeeps, EndStepKeeps, StartSimulationKeeps
<1> QED BY <1>1, <1>2, NothingMoves

\* The chunks that the append puts in the bags are empty, and it writes no particle.
LEMMA RelinkedItems ==
  ASSUME NEW m, \A a \in Addresses : ChunkShape(m[a]), NEW last, NEW first, NEW c1, NEW c2, NEW m2,
         last # c1, last # c2, Relinks(m2, m, last, first, c1, c2)
  PROVE  \A a \in Addresses : /\ m2[a].item = m[a].item
                              /\ m2[a].size = IF a \in {c1, c2} THEN 0 ELSE m[a].size
<1> SUFFICES ASSUME NEW a \in Addresses
             PROVE  m2[a].item = m[a].item /\ m2[a].size = IF a \in {c1, c2} THEN 0 ELSE m[a].size
  OBVIOUS
<1> DEFINE y == m[a]  Goes(z) == [z EXCEPT !.next = first]  Emptied(z) == [z EXCEPT !.size = 0, !.next = NULL]
<1>1. y = [size |-> y.size, next |-> y.next, item |-> y.item]
  BY DEF ChunkShape
<1>2. m2[a] = CASE a = last -> Goes(y) [] a \in {c1, c2} -> Emptied(y) [] OTHER -> y
  BY DEF Relinks
<1> HIDE DEF y
<1>3. Goes(y).item = y.item /\ Goes(y).size = y.size /\ Emptied(y).item = y.item /\ Emptied(y).size = 0
  BY <1>1
<1> HIDE DEF Goes, Emptied
<1>4. /\ a = last => m2[a] = Goes(y)
      /\ a \in {c1, c2} => m2[a] = Emptied(y)
      /\ a # last /\ a \notin {c1, c2} => m2[a] = y
  BY <1>2
<1>5. m2[a].item = y.item /\ m2[a].size = IF a \in {c1, c2} THEN 0 ELSE y.size
  BY <1>3, <1>4
<1> QED BY <1>5 DEF y

LEMMA AppendedSizes ==
  ASSUME PInv, OwnInv, NEW t \in Threads, AppendAndReduce(t)
  PROVE  \E c1, c2 \in Addresses :
           /\ c1 \notin Listed /\ c2 \notin Listed /\ Listed' = Listed \cup {c1, c2} /\ Listed \subseteq Addresses
           /\ \A a \in Addresses : /\ chunk'[a].item = chunk[a].item
                                   /\ chunk'[a].size = IF a \in {c1, c2} THEN 0 ELSE chunk[a].size
<1>1. PICK c1, c2 \in Addresses : AppendsChunks(appendNext[t], c1, c2)
  BY AppendAndReduceKeeps
<1>2. /\ c1 \notin Listed /\ c2 \notin Listed /\ Listed' = Listed \cup {c1, c2} /\ Listed \subseteq Addresses
      /\ \A a \in Addresses : ChunkShape(chunk[a])
  BY <1>1, ListedIsMemory DEF AppendsChunks, OwnInv, MemoryInv
<1>3. \A a \in Addresses : /\ chunk'[a].item = chunk[a].item
                           /\ chunk'[a].size = IF a \in {c1, c2} THEN 0 ELSE chunk[a].size
  <2> DEFINE last == particlesNext[ID_SHARED_BAG][appendNext[t]].back
             first == particlesNext[ID_PRIVATE_BAG][appendNext[t]].front
  <2>1. Relinks(chunk', chunk, last, first, c1, c2)
    BY <1>1 DEF AppendsChunks
  <2>2. last \in Listed
    <3>1. PICK owner, pos : ListsInv(owner, pos)
      BY DEF OwnInv
    <3>2. appendNext[t] \in Cells /\ ID_SHARED_BAG \in BagKinds
      BY CellsShared DEF AppendAndReduce, BagKinds
    <3> QED BY <3>1, <3>2 DEF ListsInv, Heads
  <2> HIDE DEF last, first
  <2>3. last # c1 /\ last # c2
    BY <1>2, <2>2
  <2>4. \A a \in Addresses : /\ chunk'[a].item = chunk[a].item
                             /\ chunk'[a].size = IF a \in {c1, c2} THEN 0 ELSE chunk[a].size
    BY <1>2, <2>1, <2>3, RelinkedItems
  <2> QED BY <2>4
<1> QED BY <1>2, <1>3

LEMMA AppendKeepsParticles ==
  ASSUME PInv, OwnInv, ParticlesInv, NEW t \in Threads, AppendAndReduce(t)
  PROVE  ParticlesInv' /\ SlotsStay
<1>1. phase = "append" /\ UNCHANGED <<push, loop, nbCreated>>
  BY DEF AppendAndReduce
<1>2. PICK c1, c2 \in Addresses :
        /\ c1 \notin Listed /\ c2 \notin Listed /\ Listed' = Listed \cup {c1, c2} /\ Listed \subseteq Addresses
        /\ \A a \in Addresses : /\ chunk'[a].item = chunk[a].item
                                /\ chunk'[a].size = IF a \in {c1, c2} THEN 0 ELSE chunk[a].size
  BY AppendedSizes
<1>3. c1 \notin Listed /\ c2 \notin Listed /\ Listed' = Listed \cup {c1, c2} /\ Listed \subseteq Addresses
  BY <1>2
<1>4. \A a \in Addresses : /\ chunk'[a].item = chunk[a].item
                           /\ chunk'[a].size = IF a \in {c1, c2} THEN 0 ELSE chunk[a].size
  BY <1>2
<1>5. \A u \in Threads : Idle(u) /\ ~Working(u)
  BY <1>1, NobodyWorks, PushingInMove
<1>6. \A a \in Addresses : \A m : (Passed(a, m)' <=> Passed(a, m)) /\ (Claimed(a, m)' <=> Claimed(a, m))
  <2>1. \A u \in Threads : Written(u)' <=> Written(u)
    BY <1>1 DEF Written
  <2> QED BY <1>1, <2>1 DEF Passed, Claimed
<1>7. \A m \in Slots : ~(m < 0)
  BY SlotNumbers
<1>8. \A a \in Addresses, m \in Slots : Holds(a, m)' <=> Holds(a, m)
  BY <1>3, <1>4, <1>6, <1>7 DEF Holds
<1>9. SlotsStay /\ Numbered'
  <2>1. SlotsStay
    BY <1>1, <1>4, <1>8 DEF SlotsStay, Item
  <2> QED BY <1>1, <2>1, NumberedSame DEF ParticlesInv
<1>10. MoversInv'
  BY <1>1, <1>5 DEF MoversInv, Idle, Working
<1>11. ClaimsInv'
  BY <1>1 DEF ClaimsInv, ParticlesInv
<1> QED BY <1>9, <1>10, <1>11 DEF ParticlesInv

-----------------------------------------------------------------------------
(* The creation of the particles.                                           *)

LEMMA CreateKeepsParticles ==
  ASSUME PInv, OwnInv, ParticlesInv, NEW j \in Cells, CreateParticle(j)
  PROVE  ParticlesInv' /\ \E d, k, p : d = particles[j].front /\ p = nbCreated + 1 /\ SlotFilled(d, k, p)
<1>1. /\ phase = "create" /\ nbCreated < nbParticles /\ nbCreated' = nbCreated + 1
      /\ UNCHANGED <<push, loop>>
  BY DEF CreateParticle
<1>2. PICK c, k, w : CreatesIn(j, c, k, w)
  BY CreateParticleKeeps
<1> DEFINE p == nbCreated + 1  size == k + 1
<1>3. /\ c = particles[j].front /\ c \in Listed /\ k = chunk[c].size /\ k < CHUNK_SIZE
      /\ WritesItem(w, chunk, c, size, k, p)
      /\ \/ chunk' = w /\ Listed' = Listed
         \/ \E new \in Addresses \ Listed : LinksEmpty(chunk', w, new, c) /\ Listed' = Listed \cup {new}
  BY <1>2 DEF CreatesIn
<1>4. /\ chunk = [a \in Addresses |-> chunk[a]] /\ \A a \in Addresses : ChunkShape(chunk[a])
      /\ Listed \subseteq Addresses /\ c \in Addresses
  BY <1>3, ListedIsMemory DEF OwnInv, MemoryInv
<1>5. k \in Slots /\ k \in Nat
  BY <1>3, <1>4, SlotNumbers DEF ChunkShape
<1> DEFINE x == WithItem(chunk[c], size, k, p)
<1>6. w = [chunk EXCEPT ![c] = x]
  BY <1>3, <1>4, SizeAndItem
<1>7. x.size = size /\ x.item[k] = p /\ \A m \in Slots : m # k => x.item[m] = chunk[c].item[m]
  BY <1>4, <1>5, WithItemFields
<1>8. ChunkShape(x)
  BY <1>4, <1>5, WithItemShape
<1> HIDE DEF x
<1>9. /\ w = [a \in Addresses |-> w[a]] /\ w[c] = x /\ \A a \in Addresses : a # c => w[a] = chunk[a]
      /\ \A a \in Addresses : ChunkShape(w[a])
  BY <1>4, <1>6, <1>8
<1>10. /\ \A a \in Addresses : a \in Listed => chunk'[a] = w[a] /\ a \in Listed'
       /\ \A a \in Addresses : a \in Listed' /\ a \notin Listed => chunk'[a].size = 0
  <2>1. CASE chunk' = w /\ Listed' = Listed
    BY <2>1
  <2>2. ASSUME NEW new \in Addresses \ Listed, LinksEmpty(chunk', w, new, c), Listed' = Listed \cup {new}
        PROVE  /\ \A a \in Addresses : a \in Listed => chunk'[a] = w[a] /\ a \in Listed'
               /\ \A a \in Addresses : a \in Listed' /\ a \notin Listed => chunk'[a].size = 0
    <3>1. c \in 0 .. MaxChunks
      BY <1>4, ChunkAssumption DEF Addresses
    <3>2. chunk'[new].size = 0 /\ \A a \in Addresses : a # new => chunk'[a] = w[a]
      BY <1>9, <2>2, <3>1, EmptyChunk
    <3> QED BY <2>2, <3>2
  <2> QED BY <1>3, <2>1, <2>2
<1>11. \A u \in Threads : Idle(u) /\ ~Working(u)
  BY <1>1, NobodyWorks, PushingInMove
<1>12. \A a \in Addresses, m \in Slots : ~Passed(a, m) /\ ~Passed(a, m)' /\ ~Claimed(a, m) /\ ~Claimed(a, m)'
  BY <1>1, <1>4, <1>11, NotNull DEF Passed, Claimed, Working, Idle
<1>13. \A m \in Slots : ~(m < 0) /\ ~(k < k) /\ (m < size <=> m < k \/ m = k)
  BY <1>5, SlotNumbers
<1>14. ~Holds(c, k)
  BY <1>3, <1>5, <1>13 DEF Holds
<1>15. \A a \in Addresses, m \in Slots : Holds(a, m)' <=> Holds(a, m) \/ (a = c /\ m = k)
  <2>1. ASSUME NEW a \in Addresses, NEW m \in Slots, a \in Listed
        PROVE  Holds(a, m)' <=> Holds(a, m) \/ (a = c /\ m = k)
    BY <1>3, <1>7, <1>9, <1>10, <1>12, <1>13, <2>1 DEF Holds
  <2>2. ASSUME NEW a \in Addresses, NEW m \in Slots, a \notin Listed
        PROVE  ~Holds(a, m)' /\ ~Holds(a, m) /\ a # c
    BY <1>3, <1>10, <1>13, <2>2 DEF Holds
  <2> QED BY <2>1, <2>2
<1>16. Item(c, k)' = nbCreated + 1
  BY <1>3, <1>4, <1>7, <1>9, <1>10 DEF Item
<1>17. \A a \in Addresses, m \in Slots : Holds(a, m) => Item(a, m)' = Item(a, m)
  <2> SUFFICES ASSUME NEW a \in Addresses, NEW m \in Slots, Holds(a, m) PROVE Item(a, m)' = Item(a, m)
    OBVIOUS
  <2>1. a \in Listed /\ ~(a = c /\ m = k)
    BY <1>14 DEF Holds
  <2> QED BY <1>7, <1>9, <1>10, <2>1 DEF Item
<1>18. SlotFilled(c, k, nbCreated + 1) /\ Numbered'
  <2> HIDE DEF p, size
  <2>1. SlotFilled(c, k, nbCreated + 1)
    BY <1>4, <1>5, <1>14, <1>15, <1>16, <1>17 DEF SlotFilled
  <2> QED BY <1>1, <2>1, NumberedMore DEF ParticlesInv
<1>19. MoversInv'
  BY <1>1, <1>11 DEF MoversInv, Idle, Working
<1>20. ClaimsInv'
  BY <1>1 DEF ClaimsInv, ParticlesInv
<1> QED BY <1>3, <1>18, <1>19, <1>20 DEF ParticlesInv

-----------------------------------------------------------------------------
(* The invariant.                                                           *)

LEMMA PushKeepsParticles ==
  ASSUME PInv, OwnInv, SerialPushExclusive, ParticlesInv, NEW t \in Threads, PushParticle(t)
  PROVE  /\ ParticlesInv'
         /\ SlotsStay \/ (ItemMoves(t) /\ (WriteItem(t) \/ SerialWrite(t)))
<1>1. \/ SerialTake(t) \/ ReadFront(t) \/ LeaveSpin(t)
      \/ SerialWrite(t) \/ Capture(t) \/ WriteItem(t) \/ UndoCapture(t) \/ ExtendBag(t) \/ Publish(t)
  BY DEF PushParticle, PushStep
<1> QED BY <1>1, ReadsKeepParticles, SerialWriteKeepsParticles, CaptureKeepsParticles, WriteItemKeepsParticles,
           UndoKeepsParticles, ExtendKeepsParticles, PublishKeepsParticles

LEMMA ParticlesInvKept ==
  ASSUME EvenTiling, PInv, OwnInv, ParticlesInv, [Next]_vars
  PROVE  ParticlesInv'
<1>1. SerialPushExclusive
  BY TilesKeepThreadsApart
<1>2. CASE UNCHANGED vars
  <2>1. UNCHANGED <<chunk, allocated, freeChunks, push, loop, nbCreated, phase, build, appendNext, cumulative, lastSpare>>
    BY <1>2 DEF vars, bagVars, simVars
  <2>2. Listed' = Listed
    BY <2>1 DEF Listed, Loose, Handed, Elements, InHand, Appended, Spare, PlaceOfSpare, ListOfSpare, FREE_INDEX,
                number_of_spare_chunks
  <2> QED BY <2>1, <2>2, NothingMoves
<1>3. CASE MainStep
  BY <1>3, CreateKeepsParticles, MainKeepsParticles DEF MainStep
<1>4. ASSUME NEW t \in Threads, ThreadStep(t)
      PROVE  ParticlesInv'
  BY <1>1, <1>4, TakeTileKeepsParticles, MoveKeepsParticles, PushKeepsParticles, DepositKeepsParticles,
     NextChunkKeepsParticles, AppendKeepsParticles DEF ThreadStep
<1> QED BY <1>2, <1>3, <1>4 DEF Next

LEMMA ParticlesInvAtStart ==
  ASSUME Init
  PROVE  ParticlesInv
<1>1. OwnInv /\ \A c \in Listed : chunk[c].size = 0
  BY OwnInvAtStart
<1>2. \A t \in Threads : loop[t] = NoTile /\ push[t] = NoPush
  BY DEF Init
<1>3. \A t \in Threads : Idle(t) /\ ~Working(t) /\ push[t].pc # "write"
  BY <1>2 DEF Idle, Working, NoPush, NoTile
<1>4. \A c \in Addresses, i \in Slots : ~Holds(c, i)
  BY <1>1, SlotNumbers DEF Holds
<1>5. Numbered
  <2>1. nbCreated = 0 /\ 1 .. 0 = {} /\ nbParticles \in Nat
    BY ChunkAssumption DEF Init
  <2> QED BY <1>4, <2>1 DEF Numbered
<1>6. MoversInv /\ ClaimsInv
  BY <1>3 DEF MoversInv, ClaimsInv
<1> QED BY <1>5, <1>6 DEF ParticlesInv

-----------------------------------------------------------------------------
(* What the invariant says of the particles.                                *)

\* The slots of a chunk of the current step that are still to be moved, and those of a
\* chunk of the next step that are written, are those that hold a particle.
LEMMA SlotsThatHold ==
  ASSUME PInv, OwnInv, ParticlesInv, NEW owner, NEW pos, ListsInv(owner, pos), NEW c \in Listed
  PROVE  /\ \A j \in Cells : owner[c] = CurrentId(j) => SlotsToMove(c) = {i \in Slots : Holds(c, i)}
         /\ \A kind \in BagKinds, j \in Cells :
              owner[c] = NextId(kind, j) => SlotsWritten(c) = {i \in Slots : Holds(c, i)}
<1>1. \A t \in Threads : loop[t].my_chunk = c => loop[t].i \in Nat /\ Working(t)
  BY ListedIsMemory, NotNull DEF ParticlesInv, MoversInv, Working, OwnInv
<1>2. \A i \in Slots : i \in SlotsToMove(c) <=> i < chunk[c].size /\ ~Passed(c, i)
  <2> TAKE i \in Slots
  <2>1. ASSUME NEW t \in Threads, loop[t].my_chunk = c
        PROVE  i > loop[t].i \/ (i = loop[t].i /\ ~Written(t)) <=> ~(i < loop[t].i \/ (i = loop[t].i /\ Written(t)))
    <3>1. i \in Nat /\ loop[t].i \in Nat
      BY <1>1, <2>1, SlotNumbers
    <3>2. i > loop[t].i <=> ~(i < loop[t].i) /\ i # loop[t].i
      BY <3>1
    <3> QED BY <3>1, <3>2
  <2> QED BY <2>1 DEF SlotsToMove, Passed
<1>3. \A i \in Slots : i \in SlotsWritten(c) <=> i < chunk[c].size /\ ~Claimed(c, i)
  BY DEF SlotsWritten, Claimed
<1>4. ASSUME NEW j \in Cells, owner[c] = CurrentId(j)
      PROVE  \A i \in Slots : ~Claimed(c, i)
  BY <1>4, ChunkPushed, Ids DEF Claimed
<1>5. ASSUME NEW kind \in BagKinds, NEW j \in Cells, owner[c] = NextId(kind, j)
      PROVE  \A i \in Slots : ~Passed(c, i)
  BY <1>1, <1>5, ChunkRead, Ids DEF Passed
<1>6. SlotsToMove(c) \subseteq Slots /\ SlotsWritten(c) \subseteq Slots
  BY DEF SlotsToMove, SlotsWritten
<1>7. ASSUME NEW j \in Cells, owner[c] = CurrentId(j)
      PROVE  SlotsToMove(c) = {i \in Slots : Holds(c, i)}
  <2>1. \A i \in Slots : i \in SlotsToMove(c) <=> Holds(c, i)
    BY <1>2, <1>4, <1>7 DEF Holds
  <2> QED BY <1>6, <2>1
<1>8. ASSUME NEW kind \in BagKinds, NEW j \in Cells, owner[c] = NextId(kind, j)
      PROVE  SlotsWritten(c) = {i \in Slots : Holds(c, i)}
  <2>1. \A i \in Slots : i \in SlotsWritten(c) <=> Holds(c, i)
    BY <1>3, <1>5, <1>8 DEF Holds
  <2> QED BY <1>6, <2>1
<1> QED BY <1>7, <1>8

\* The slots to move and the slots written, of all cells, are those that hold a particle.
LEMMA SlotsOfCells ==
  ASSUME PInv, OwnInv, ParticlesInv
  PROVE  UNION {SlotsToMoveAt(j) \cup SlotsWrittenAt(j) : j \in Cells}
           = {s \in Addresses \X Slots : Holds(s[1], s[2])}
<1>1. PICK owner, pos : ListsInv(owner, pos)
  BY DEF OwnInv
<1> DEFINE slots == UNION {SlotsToMoveAt(j) \cup SlotsWrittenAt(j) : j \in Cells}
           held == {s \in Addresses \X Slots : Holds(s[1], s[2])}
<1>2. \A l \in ListIds : ChunksFrom(Fronts[l]) = {e \in Listed : owner[e] = l}
  BY <1>1, ChunksOfList
<1>3. Listed \subseteq Addresses /\ \A c \in Listed : owner[c] \in ListIds
  BY <1>1, ListedIsMemory DEF ListsInv, Chained, OwnInv
<1>4. ASSUME NEW j \in Cells
      PROVE  \A s : s \in SlotsToMoveAt(j) <=> s \in held /\ owner[s[1]] = CurrentId(j)
  <2>1. CurrentChunks(j) = {e \in Listed : owner[e] = CurrentId(j)}
    BY <1>2, FrontOf, Ids DEF CurrentChunks
  <2>2. \A c \in CurrentChunks(j) : SlotsToMove(c) = {i \in Slots : Holds(c, i)}
    BY <1>1, <2>1, SlotsThatHold
  <2>3. \A c : (\E i \in Slots : Holds(c, i)) => c \in Listed
    BY DEF Holds
  <2>4. \A s : s \in SlotsToMoveAt(j) <=> s \in CurrentChunks(j) \X Slots /\ s[2] \in SlotsToMove(s[1])
    BY DEF SlotsToMoveAt
  <2>5. \A s : s \in SlotsToMoveAt(j) <=> s \in CurrentChunks(j) \X Slots /\ Holds(s[1], s[2])
    BY <2>2, <2>4
  <2>6. \A s : s \in held <=> s \in Listed \X Slots /\ Holds(s[1], s[2])
    BY <1>3, <2>3
  <2> QED BY <2>1, <2>5, <2>6
<1>5. ASSUME NEW j \in Cells
      PROVE  \A s : s \in SlotsWrittenAt(j) <=> s \in held /\ \E kind \in BagKinds : owner[s[1]] = NextId(kind, j)
  <2>1. \A kind \in BagKinds : NextChunks(kind, j) = {e \in Listed : owner[e] = NextId(kind, j)}
    BY <1>2, FrontOf, Ids DEF NextChunks
  <2> DEFINE chunks == UNION {NextChunks(kind, j) : kind \in BagKinds}
  <2>2. \A c : c \in chunks <=> c \in Listed /\ \E kind \in BagKinds : owner[c] = NextId(kind, j)
    BY <2>1
  <2>3. \A s : s \in SlotsWrittenAt(j) <=> s \in chunks \X Slots /\ s[2] \in SlotsWritten(s[1])
    BY DEF SlotsWrittenAt
  <2> HIDE DEF chunks
  <2>4. \A c \in chunks : SlotsWritten(c) = {i \in Slots : Holds(c, i)}
    BY <1>1, <2>2, SlotsThatHold
  <2>5. \A s : s \in SlotsWrittenAt(j) <=> s \in chunks \X Slots /\ Holds(s[1], s[2])
    BY <2>3, <2>4
  <2>6. \A c : (\E i \in Slots : Holds(c, i)) => c \in Listed
    BY DEF Holds
  <2>7. \A s : s \in held <=> s \in Listed \X Slots /\ Holds(s[1], s[2])
    BY <1>3, <2>6
  <2> QED BY <2>2, <2>5, <2>7
<1>6. \A s : s \in slots <=> \E j \in Cells : s \in SlotsToMoveAt(j) \/ s \in SlotsWrittenAt(j)
  OBVIOUS
<1>7. \A s \in held : s[1] \in Listed
  BY DEF Holds
<1>8. \A s \in held : \/ \E j \in Cells : owner[s[1]] = CurrentId(j)
                      \/ \E kind \in BagKinds, j \in Cells : owner[s[1]] = NextId(kind, j)
  BY <1>3, <1>7, Ids
<1> HIDE DEF held, slots
<1>9. \A s : s \in slots <=> s \in held
  BY <1>4, <1>5, <1>6, <1>8
<1>10. slots = held
  BY <1>9
<1> QED BY <1>10 DEF slots, held

LEMMA SlotsNumbered ==
  ASSUME PInv, OwnInv, ParticlesInv
  PROVE  ParticlesKept
<1> DEFINE slots == UNION {SlotsToMoveAt(j) \cup SlotsWrittenAt(j) : j \in Cells}
<1>1. slots = {s \in Addresses \X Slots : Holds(s[1], s[2])}
  BY SlotsOfCells
<1> HIDE DEF slots
<1>2. Numbered
  BY DEF ParticlesInv
<1> DEFINE f == [s \in slots |-> chunk[s[1]].item[s[2]]]
<1>3. /\ \A s \in slots : s[1] \in Addresses /\ s[2] \in Slots /\ s = <<s[1], s[2]>> /\ Holds(s[1], s[2])
      /\ \A c \in Addresses, i \in Slots : Holds(c, i) => <<c, i>> \in slots
  BY <1>1
<1>4. \A s \in slots : f[s] = Item(s[1], s[2])
  BY DEF Item
<1> HIDE DEF f
<1>5. \A s \in slots : f[s] \in 1 .. nbCreated
  BY <1>2, <1>3, <1>4 DEF Numbered
<1>6. \A s, z \in slots : f[s] = f[z] => s = z
  <2> SUFFICES ASSUME NEW s \in slots, NEW z \in slots, f[s] = f[z] PROVE s = z
    OBVIOUS
  <2>1. s[1] = z[1] /\ s[2] = z[2]
    BY <1>2, <1>3, <1>4 DEF Numbered
  <2> QED BY <1>3, <2>1
<1>7. \A p \in 1 .. nbCreated : \E s \in slots : f[s] = p
  <2> TAKE p \in 1 .. nbCreated
  <2>1. PICK c \in Addresses, i \in Slots : Holds(c, i) /\ Item(c, i) = p
    BY <1>2 DEF Numbered
  <2>2. <<c, i>> \in slots /\ f[<<c, i>>] = p
    BY <1>3, <1>4, <2>1
  <2> QED BY <2>2
<1>8. f \in [slots -> 1 .. nbCreated]
  BY <1>5 DEF f
<1> DEFINE g == [p \in 1 .. nbCreated |-> CHOOSE s \in slots : f[s] = p]
<1>9. \A p \in 1 .. nbCreated : g[p] \in slots /\ f[g[p]] = p
  BY <1>7
<1> HIDE DEF g
<1>10. g \in Bijection(1 .. nbCreated, slots)
  <2>1. g \in [1 .. nbCreated -> slots]
    BY <1>9 DEF g
  <2>2. \A p, q \in 1 .. nbCreated : g[p] = g[q] => p = q
    BY <1>9
  <2>3. \A s \in slots : \E p \in 1 .. nbCreated : g[p] = s
    BY <1>5, <1>6, <1>9
  <2> QED BY <2>1, <2>2, <2>3 DEF Bijection, Injection, Surjection, IsInjective
<1>11. nbCreated \in Nat
  BY <1>2 DEF Numbered
<1>12. Cardinality(slots) = nbCreated
  BY <1>10, <1>11, FS_CountingElements DEF ExistsBijection
<1>13. ItemsAt(slots) = 1 .. nbCreated
  <2>1. \A p : p \in ItemsAt(slots) <=> \E s \in slots : p = chunk[s[1]].item[s[2]]
    BY DEF ItemsAt
  <2>2. \A s \in slots : f[s] = chunk[s[1]].item[s[2]]
    BY DEF f
  <2>3. \A p : p \in ItemsAt(slots) <=> p \in 1 .. nbCreated
    BY <1>5, <1>7, <2>1, <2>2
  <2> QED BY <2>3
<1> QED BY <1>12, <1>13 DEF ParticlesKept, slots

-----------------------------------------------------------------------------
(* The theorem.                                                             *)

\* No particle is lost and none is there twice, at any step of any thread: not when two
\* pushes capture an index of one chunk, not when one is undone, not when a chunk that was
\* read is freed and filled again, not in the linking of the bags of a cell.
THEOREM ParticlesAlwaysKept ==
  ASSUME EvenTiling
  PROVE  Spec => []ParticlesKept
<1>1. Init => OwnInv /\ ParticlesInv
  BY OwnInvAtStart, ParticlesInvAtStart
<1>2. PInv /\ OwnInv /\ ParticlesInv /\ [Next]_vars => OwnInv' /\ ParticlesInv'
  BY OwnInvKept, ParticlesInvKept
<1>3. PInv /\ OwnInv /\ ParticlesInv => ParticlesKept
  BY SlotsNumbered
<1> QED BY <1>1, <1>2, <1>3, PInvAtStart, PInvKept, PTL DEF Spec

-----------------------------------------------------------------------------
(* The number of particles of a bag, chunk after chunk.                     *)

SizesTyped == \A a \in Addresses : chunk[a].size \in Nat /\ chunk[a].next \in 0 .. MaxChunks

SumsUp(f) ==
  f = [k \in 0 .. MaxChunks |->
        [a \in 0 .. MaxChunks |-> IF a = NULL \/ k = 0 THEN 0 ELSE chunk[a].size + f[k - 1][chunk[a].next]]]

\* What f gives for each depth and each chunk: the particles in the chunks that follow.
SumsAlong(f) ==
  /\ \A k \in 0 .. MaxChunks, a \in 0 .. MaxChunks :
       /\ f[k][a] \in Nat
       /\ f[k][a] = IF a = NULL \/ k = 0 THEN 0 ELSE chunk[a].size + f[k - 1][chunk[a].next]
  /\ \A j \in Cells : SizeOfBag(particles[j]) = f[MaxChunks][particles[j].front]

LEMMA SumsUpExist ==
  ASSUME SizesTyped
  PROVE  \E f : SumsUp(f)
<1> DEFINE S == [0 .. MaxChunks -> Nat]
           first == [a \in 0 .. MaxChunks |-> 0]
           Step(g) == [a \in 0 .. MaxChunks |-> IF a = NULL THEN 0 ELSE chunk[a].size + g[chunk[a].next]]
           step == [k \in 1 .. MaxChunks |-> [g \in S |-> Step(g)]]
<1>1. MaxChunks \in Nat
  BY ChunkAssumption
<1>2. first \in S
  OBVIOUS
<1>3. \A g \in S : Step(g) \in S
  <2> SUFFICES ASSUME NEW g \in S, NEW a \in 0 .. MaxChunks, a # NULL
               PROVE  chunk[a].size + g[chunk[a].next] \in Nat
    OBVIOUS
  <2>1. chunk[a].size \in Nat /\ chunk[a].next \in 0 .. MaxChunks
    BY <1>1 DEF SizesTyped, Addresses, NULL
  <2>2. g[chunk[a].next] \in Nat
    BY <2>1
  <2> QED BY <2>1, <2>2
<1>4. \A k \in 1 .. MaxChunks, g \in S : step[k][g] \in S
  <2> HIDE DEF S, Step
  <2> QED BY <1>3
<1>5. PICK f \in [0 .. MaxChunks -> S] : f[0] = first /\ \A k \in 1 .. MaxChunks : f[k] = step[k][f[k - 1]]
  <2> HIDE DEF S, first, step
  <2>1. \E f : Recurs(f, MaxChunks, S, first, step)
    BY <1>1, <1>2, <1>4, Recursion
  <2> QED BY <2>1 DEF Recurs
<1>6. \A k \in 1 .. MaxChunks : f[k] = Step(f[k - 1])
  <2> SUFFICES ASSUME NEW k \in 1 .. MaxChunks PROVE f[k] = Step(f[k - 1])
    OBVIOUS
  <2>1. f[k - 1] \in S
    BY <1>1, <1>5
  <2> HIDE DEF S, Step
  <2> QED BY <2>1, <1>5
<1>7. \A k \in 0 .. MaxChunks :
        f[k] = [a \in 0 .. MaxChunks |-> IF a = NULL \/ k = 0 THEN 0 ELSE chunk[a].size + f[k - 1][chunk[a].next]]
  <2> SUFFICES ASSUME NEW k \in 0 .. MaxChunks
               PROVE  f[k] = [a \in 0 .. MaxChunks |->
                               IF a = NULL \/ k = 0 THEN 0 ELSE chunk[a].size + f[k - 1][chunk[a].next]]
    OBVIOUS
  <2>1. CASE k = 0
    BY <1>5, <2>1
  <2>2. CASE k # 0
    <3>1. f[k] = Step(f[k - 1])
      <4>1. k \in 1 .. MaxChunks
        BY <1>1, <2>2
      <4> HIDE DEF Step
      <4> QED BY <1>6, <4>1
    <3> QED BY <2>2, <3>1
  <2> QED BY <2>1, <2>2
<1>8. f = [k \in 0 .. MaxChunks |-> f[k]]
  BY <1>5
<1>9. SumsUp(f)
  BY <1>7, <1>8, Zenon DEF SumsUp
<1> QED BY <1>9

LEMMA SizesAdded ==
  SizesTyped => \E f : SumsAlong(f)
<1> SUFFICES ASSUME SizesTyped PROVE \E f : SumsAlong(f)
  OBVIOUS
<1> DEFINE f == CHOOSE g : SumsUp(g)
<1>1. SumsUp(f)
  BY SumsUpExist
<1>2. \A bag : SizeOfBag(bag) = f[MaxChunks][bag.front]
  BY DEF SizeOfBag, SumsUp
<1> HIDE DEF f
<1>3. \A k \in 0 .. MaxChunks, a \in 0 .. MaxChunks :
        f[k][a] = IF a = NULL \/ k = 0 THEN 0 ELSE chunk[a].size + f[k - 1][chunk[a].next]
  <2> SUFFICES ASSUME NEW k \in 0 .. MaxChunks, NEW a \in 0 .. MaxChunks
               PROVE  f[k][a] = IF a = NULL \/ k = 0 THEN 0 ELSE chunk[a].size + f[k - 1][chunk[a].next]
    OBVIOUS
  <2> DEFINE g == [b \in 0 .. MaxChunks |-> IF b = NULL \/ k = 0 THEN 0 ELSE chunk[b].size + f[k - 1][chunk[b].next]]
  <2>1. f[k] = g
    BY <1>1 DEF SumsUp
  <2> QED BY <2>1
<1>4. MaxChunks \in Nat
  BY ChunkAssumption
<1>5. \A k \in 0 .. MaxChunks : \A a \in 0 .. MaxChunks : f[k][a] \in Nat
  <2> DEFINE Bad == {k \in 0 .. MaxChunks : ~\A a \in 0 .. MaxChunks : f[k][a] \in Nat}
  <2> SUFFICES ASSUME Bad # {} PROVE FALSE
    OBVIOUS
  <2>1. PICK k \in Bad : \A m \in Bad : k <= m
    <3>1. Bad \subseteq Nat
      OBVIOUS
    <3> HIDE DEF Bad
    <3> QED BY <3>1, LeastNatural
  <2>2. PICK a \in 0 .. MaxChunks : f[k][a] \notin Nat
    BY <2>1
  <2>3. a # NULL /\ k # 0 /\ f[k][a] = chunk[a].size + f[k - 1][chunk[a].next]
    BY <1>3, <2>1, <2>2
  <2>4. k - 1 \in 0 .. MaxChunks /\ ~(k <= k - 1)
    BY <1>4, <2>1, <2>3
  <2>5. k - 1 \notin Bad
    <3> HIDE DEF Bad
    <3> QED BY <2>1, <2>4
  <2>6. a \in Addresses
    BY <1>4, <2>2, <2>3 DEF Addresses, NULL
  <2>7. chunk[a].size \in Nat /\ chunk[a].next \in 0 .. MaxChunks
    BY <2>6 DEF SizesTyped
  <2>8. f[k - 1][chunk[a].next] \in Nat
    BY <2>4, <2>5, <2>7
  <2> QED BY <2>2, <2>3, <2>7, <2>8
<1>6. SumsAlong(f)
  BY <1>2, <1>3, <1>5, Zenon DEF SumsAlong
<1> QED BY <1>6

LEMMA SizesAddedNext ==
  (SizesTyped => \E f : SumsAlong(f))'
<1>1. SizesTyped => \E f : SumsAlong(f)
  BY SizesAdded
<1> QED BY <1>1, PTL

\* Lists that a step leaves as they are.
LEMMA SumsSame ==
  ASSUME NEW f, SumsAlong(f), NEW g, SumsAlong(g)', NEW S, S \subseteq Addresses,
         \A a \in S : /\ chunk'[a].size = chunk[a].size /\ chunk'[a].next = chunk[a].next
                      /\ chunk[a].next \in S \cup {NULL}
  PROVE  \A k \in 0 .. MaxChunks : \A a \in S \cup {NULL} : g[k][a] = f[k][a]
<1>1. MaxChunks \in Nat /\ NULL = 0 /\ S \cup {NULL} \subseteq 0 .. MaxChunks
  BY ChunkAssumption DEF Addresses, NULL
<1>2. \A k \in 0 .. MaxChunks, a \in 0 .. MaxChunks :
        f[k][a] = IF a = NULL \/ k = 0 THEN 0 ELSE chunk[a].size + f[k - 1][chunk[a].next]
  BY DEF SumsAlong
<1>3. \A k \in 0 .. MaxChunks, a \in 0 .. MaxChunks :
        g[k][a] = IF a = NULL \/ k = 0 THEN 0 ELSE chunk'[a].size + g[k - 1][chunk'[a].next]
  BY DEF SumsAlong
<1> DEFINE Bad == {k \in 0 .. MaxChunks : ~\A a \in S \cup {NULL} : g[k][a] = f[k][a]}
<1> SUFFICES ASSUME Bad # {} PROVE FALSE
  OBVIOUS
<1>4. PICK k \in Bad : \A m \in Bad : k <= m
  <2>1. Bad \subseteq Nat
    OBVIOUS
  <2> HIDE DEF Bad
  <2> QED BY <2>1, LeastNatural
<1>5. PICK a \in S \cup {NULL} : g[k][a] # f[k][a]
  BY <1>4
<1>6. k \in 0 .. MaxChunks /\ a \in 0 .. MaxChunks
  BY <1>1, <1>4
<1>7. k # 0 /\ a # NULL
  BY <1>2, <1>3, <1>5, <1>6
<1>8. k - 1 \in 0 .. MaxChunks /\ ~(k <= k - 1)
  BY <1>1, <1>6, <1>7
<1>9. k - 1 \notin Bad
  <2> HIDE DEF Bad
  <2> QED BY <1>4, <1>8
<1>10. g[k - 1][chunk[a].next] = f[k - 1][chunk[a].next]
  BY <1>5, <1>7, <1>8, <1>9
<1>11. /\ g[k][a] = chunk'[a].size + g[k - 1][chunk'[a].next]
       /\ f[k][a] = chunk[a].size + f[k - 1][chunk[a].next]
  BY <1>2, <1>3, <1>6, <1>7
<1> QED BY <1>5, <1>7, <1>10, <1>11

\* Once all the chunks of a list are counted, the depth does not matter.
LEMMA SumsSettle ==
  ASSUME NEW f, SumsAlong(f), OwnInv, NEW owner, NEW pos, ListsInv(owner, pos)
  PROVE  \A k \in 1 .. MaxChunks : \A a \in Listed : pos[a] < k - 1 => f[k][a] = f[k - 1][a]
<1>1. MaxChunks \in Nat /\ NULL = 0 /\ Listed \subseteq Addresses
  BY ChunkAssumption, ListedIsMemory DEF NULL, OwnInv
<1>2. \A k \in 0 .. MaxChunks, a \in 0 .. MaxChunks :
        f[k][a] = IF a = NULL \/ k = 0 THEN 0 ELSE chunk[a].size + f[k - 1][chunk[a].next]
  BY DEF SumsAlong
<1>3. /\ pos \in [Addresses -> Nat]
      /\ \A e \in Listed : IF pos[e] = 0 THEN chunk[e].next = NULL
                           ELSE chunk[e].next \in Listed /\ pos[chunk[e].next] = pos[e] - 1
  BY <1>1, LinksAre DEF ListsInv, Chained
<1>4. Addresses \subseteq 0 .. MaxChunks
  BY <1>1 DEF Addresses
<1> DEFINE Bad == {k \in 1 .. MaxChunks : ~\A a \in Listed : pos[a] < k - 1 => f[k][a] = f[k - 1][a]}
<1> SUFFICES ASSUME Bad # {} PROVE FALSE
  OBVIOUS
<1>5. PICK k \in Bad : \A m \in Bad : k <= m
  <2>1. Bad \subseteq Nat
    BY <1>1
  <2> HIDE DEF Bad
  <2> QED BY <2>1, LeastNatural
<1>6. PICK a \in Listed : pos[a] < k - 1 /\ f[k][a] # f[k - 1][a]
  BY <1>5
<1>7. k \in 1 .. MaxChunks /\ a \in Addresses /\ a \in 0 .. MaxChunks /\ a # NULL /\ pos[a] \in Nat
  BY <1>1, <1>3, <1>4, <1>5, <1>6, NotNull
<1>8. k - 1 \in 1 .. MaxChunks /\ k - 1 \in 0 .. MaxChunks /\ k - 2 \in 0 .. MaxChunks /\ k \in 0 .. MaxChunks
  BY <1>1, <1>6, <1>7
<1>9. /\ f[k][a] = chunk[a].size + f[k - 1][chunk[a].next]
      /\ f[k - 1][a] = chunk[a].size + f[k - 2][chunk[a].next]
  <2>1. k # 0 /\ k - 1 # 0 /\ (k - 1) - 1 = k - 2
    BY <1>7, <1>8
  <2> QED BY <1>2, <1>7, <1>8, <2>1
<1>10. CASE pos[a] = 0
  <2>1. chunk[a].next = NULL /\ NULL \in 0 .. MaxChunks
    BY <1>1, <1>3, <1>6, <1>10
  <2>2. f[k - 1][NULL] = 0 /\ f[k - 2][NULL] = 0
    BY <1>2, <1>8, <2>1
  <2> QED BY <1>6, <1>9, <2>1, <2>2
<1>11. CASE pos[a] # 0
  <2>1. chunk[a].next \in Listed /\ pos[chunk[a].next] = pos[a] - 1
    BY <1>3, <1>6, <1>11
  <2>2. k - 1 \notin Bad
    <3>1. ~(k <= k - 1)
      BY <1>7
    <3> HIDE DEF Bad
    <3> QED BY <1>5, <3>1
  <2>3. pos[chunk[a].next] < (k - 1) - 1
    BY <1>6, <1>7, <2>1
  <2>4. f[k - 1][chunk[a].next] = f[(k - 1) - 1][chunk[a].next]
    BY <1>8, <2>1, <2>2, <2>3
  <2>5. (k - 1) - 1 = k - 2
    BY <1>7
  <2> QED BY <1>6, <1>9, <2>4, <2>5
<1> QED BY <1>10, <1>11

LEMMA SumsSettleNext ==
  (\A f, owner, pos : SumsAlong(f) /\ OwnInv /\ ListsInv(owner, pos) =>
     \A k \in 1 .. MaxChunks : \A a \in Listed : pos[a] < k - 1 => f[k][a] = f[k - 1][a])'
<1>1. \A f, owner, pos : SumsAlong(f) /\ OwnInv /\ ListsInv(owner, pos) =>
        \A k \in 1 .. MaxChunks : \A a \in Listed : pos[a] < k - 1 => f[k][a] = f[k - 1][a]
  BY SumsSettle
<1> QED BY <1>1, PTL

\* A particle created is one more in the bag of its cell.
LEMMA BagGrows ==
  ASSUME PInv, OwnInv, OwnInv', NEW j \in Cells, CreateParticle(j)
  PROVE  \A i \in Cells : /\ SizeOfBag(particles[i]) \in Nat
                          /\ SizeOfBag(particles[i])' = SizeOfBag(particles[i]) + (IF i = j THEN 1 ELSE 0)
<1>1. phase = "create" /\ phase' = "create"
  BY DEF CreateParticle
<1>2. PICK c, k, w : CreatesIn(j, c, k, w)
  BY CreateParticleKeeps
<1>3. /\ c = particles[j].front /\ c \in Listed /\ k = chunk[c].size
      /\ WritesItem(w, chunk, c, k + 1, k, nbCreated + 1)
      /\ \/ chunk' = w /\ Listed' = Listed /\ particles' = particles
         \/ \E new \in Addresses \ Listed :
              /\ LinksEmpty(chunk', w, new, c) /\ Listed' = Listed \cup {new}
              /\ particles' = [particles EXCEPT ![j].front = new]
  BY <1>2 DEF CreatesIn
<1>4. MemoryInv /\ MemoryInv' /\ particles \in [Cells -> Bag]
  BY DEF OwnInv, MemoryInv
<1>5. /\ MaxChunks \in Nat /\ NULL = 0 /\ Listed \subseteq Addresses /\ c \in Addresses
      /\ Addresses \subseteq 0 .. MaxChunks /\ NULL \notin Addresses
  BY <1>3, <1>4, ChunkAssumption, ListedIsMemory DEF Addresses, NULL
<1>6. MaxChunks > 0 /\ MaxChunks \in 0 .. MaxChunks /\ MaxChunks - 1 \in 0 .. MaxChunks /\ MaxChunks \in 1 .. MaxChunks
  BY <1>5 DEF Addresses
<1>7. GrowsTo(w, chunk, c, k + 1) /\ k \in Nat
  BY <1>3, <1>4, <1>5, WrittenChunk
<1>8. PICK f : SumsAlong(f)
  <2>1. SizesTyped
    BY <1>4 DEF MemoryInv, ChunkShape, SizesTyped
  <2> QED BY <2>1, SizesAdded
<1>9. PICK g : SumsAlong(g)'
  <2>1. SizesTyped'
    BY <1>4 DEF MemoryInv, ChunkShape, SizesTyped
  <2> QED BY <2>1, SizesAddedNext
<1>10. PICK owner, pos : ListsInv(owner, pos)
  BY DEF OwnInv
<1>11. /\ pos \in [Addresses -> Nat]
       /\ \A e \in Listed : IF pos[e] = 0 THEN chunk[e].next = NULL
                            ELSE /\ chunk[e].next \in Listed /\ owner[chunk[e].next] = owner[e]
                                 /\ pos[chunk[e].next] = pos[e] - 1
       /\ \A l \in ListIds : Fronts[l] # NULL => Fronts[l] \in Listed /\ owner[Fronts[l]] = l
       /\ \A e \in Listed : pos[e] <= pos[Fronts[owner[e]]]
  BY <1>5, <1>10, LinksAre DEF ListsInv, Chained
<1>12. \A i \in Cells : /\ CurrentId(i) \in ListIds /\ Fronts[CurrentId(i)] = particles[i].front
                        /\ particles[i].front \in Listed /\ owner[particles[i].front] = CurrentId(i)
  <2>1. \A i \in Cells : Fronts[CurrentId(i)] = particles[i].front /\ Fronts[CurrentId(i)] # NULL
    BY <1>1, <1>10, FrontsAtCreation DEF ListsInv, Heads
  <2> QED BY <1>11, <2>1, Ids
<1> DEFINE S == Listed \ {c}
<1>13. \A a \in Listed : chunk[a].next \in S \cup {NULL}
  <2> TAKE a \in Listed
  <2>1. CASE pos[a] = 0
    BY <1>11, <2>1
  <2>2. CASE pos[a] # 0
    <3>1. chunk[a].next \in Listed /\ owner[chunk[a].next] = owner[a] /\ pos[chunk[a].next] = pos[a] - 1
      BY <1>11, <2>2
    <3>2. pos[a] \in Nat
      BY <1>5, <1>11
    <3>3. chunk[a].next # c
      <4> SUFFICES ASSUME chunk[a].next = c PROVE FALSE
        OBVIOUS
      <4>1. Fronts[owner[a]] = c
        BY <1>3, <1>12, <3>1
      <4>2. pos[a] <= pos[c] /\ pos[c] = pos[a] - 1
        BY <1>11, <3>1, <4>1
      <4> QED BY <3>2, <4>2
    <3> QED BY <3>1, <3>3
  <2> QED BY <2>1, <2>2
<1>14. \A a \in Listed : chunk'[a] = w[a]
  <2>1. CASE chunk' = w
    BY <2>1
  <2>2. ASSUME NEW new \in Addresses \ Listed, LinksEmpty(chunk', w, new, c)
        PROVE  \A a \in Listed : chunk'[a] = w[a]
    <3>1. w = [a \in Addresses |-> w[a]] /\ ChunkShape(w[new])
      BY <1>3, <1>4, <1>7, <2>2 DEF GrowsTo, OnAddresses, MemoryInv
    <3>2. \A a \in Addresses : a # new => chunk'[a] = w[a]
      BY <1>5, <2>2, <3>1, EmptyChunk
    <3> QED BY <1>5, <2>2, <3>2
  <2> QED BY <1>3, <2>1, <2>2
<1>15. \A a \in S : chunk'[a].size = chunk[a].size /\ chunk'[a].next = chunk[a].next
  BY <1>5, <1>7, <1>14 DEF GrowsTo
<1>16. chunk'[c].size = k + 1 /\ chunk'[c].next = chunk[c].next
  BY <1>3, <1>7, <1>14 DEF GrowsTo
<1>17. \A d \in 0 .. MaxChunks : \A a \in S \cup {NULL} : g[d][a] = f[d][a]
  <2>1. S \subseteq Addresses /\ \A a \in S : chunk[a].next \in S \cup {NULL}
    BY <1>5, <1>13
  <2> HIDE DEF S
  <2> QED BY <1>8, <1>9, <1>15, <2>1, SumsSame
<1>18. /\ \A a \in Addresses : /\ f[MaxChunks][a] = chunk[a].size + f[MaxChunks - 1][chunk[a].next]
                               /\ g[MaxChunks][a] = chunk'[a].size + g[MaxChunks - 1][chunk'[a].next]
       /\ \A a \in 0 .. MaxChunks : f[MaxChunks][a] \in Nat /\ f[MaxChunks - 1][a] \in Nat
  <2>1. \A a \in Addresses : a # NULL /\ a \in 0 .. MaxChunks /\ MaxChunks # 0
    BY <1>5, <1>6
  <2> QED BY <1>6, <1>8, <1>9, <2>1 DEF SumsAlong
<1>19. g[MaxChunks][c] = f[MaxChunks][c] + 1 /\ f[MaxChunks][c] \in Nat
  <2>1. chunk[c].next \in S \cup {NULL} /\ chunk[c].next \in 0 .. MaxChunks
    BY <1>3, <1>5, <1>13
  <2>2. f[MaxChunks][c] = k + f[MaxChunks - 1][chunk[c].next] /\ f[MaxChunks - 1][chunk[c].next] \in Nat
    BY <1>3, <1>5, <1>18, <2>1
  <2>3. g[MaxChunks - 1][chunk[c].next] = f[MaxChunks - 1][chunk[c].next]
    BY <1>6, <1>17, <2>1
  <2>4. g[MaxChunks][c] = k + 1 + g[MaxChunks - 1][chunk[c].next]
    BY <1>5, <1>16, <1>18
  <2> QED BY <1>7, <2>2, <2>3, <2>4
<1>20. g[MaxChunks][particles'[j].front] = g[MaxChunks][c] /\ \A i \in Cells : i # j => particles'[i] = particles[i]
  <2>1. CASE particles' = particles
    BY <1>3, <2>1
  <2>2. ASSUME NEW new \in Addresses \ Listed, LinksEmpty(chunk', w, new, c), Listed' = Listed \cup {new},
               particles' = [particles EXCEPT ![j].front = new]
        PROVE  g[MaxChunks][particles'[j].front] = g[MaxChunks][c] /\ \A i \in Cells : i # j => particles'[i] = particles[i]
    <3>1. particles'[j].front = new /\ \A i \in Cells : i # j => particles'[i] = particles[i]
      <4>1. particles[j] \in [front : 0 .. MaxChunks, back : 0 .. MaxChunks]
        BY <1>4 DEF Bag
      <4> QED BY <1>4, <2>2, <4>1
    <3>2. chunk'[new].size = 0 /\ chunk'[new].next = c
      <4>1. w = [a \in Addresses |-> w[a]] /\ ChunkShape(w[new])
        BY <1>3, <1>4, <1>7, <2>2 DEF GrowsTo, OnAddresses, MemoryInv
      <4> QED BY <1>5, <2>2, <4>1, EmptyChunk
    <3>3. g[MaxChunks][new] = g[MaxChunks - 1][c]
      <4>1. g[MaxChunks][new] = 0 + g[MaxChunks - 1][c]
        BY <1>18, <2>2, <3>2
      <4>2. g[MaxChunks - 1][c] \in Nat
        BY <1>5, <1>6, <1>9 DEF SumsAlong
      <4> QED BY <4>1, <4>2
    <3>4. PICK owner2, pos2 : ListsInv(owner2, pos2)'
      BY DEF OwnInv
    <3>5. Chained(owner2, pos2, Links', Listed', Fronts')
      BY <3>4 DEF ListsInv
    <3>6. pos2[new] \in Nat /\ pos2[new] < MaxChunks
      BY <2>2, <3>5, PositionsBounded
    <3>7. Links'[new] = c
      BY <2>2, <3>2 DEF Links
    <3>8. pos2[c] = pos2[new] - 1
      BY <1>5, <2>2, <3>5, <3>7 DEF Chained
    <3>9. c \in Listed' /\ pos2[c] < MaxChunks - 1
      BY <1>3, <1>5, <2>2, <3>6, <3>8
    <3>10. g[MaxChunks][c] = g[MaxChunks - 1][c]
      BY <1>6, <1>9, <3>4, <3>9, SumsSettleNext
    <3> QED BY <3>1, <3>3, <3>10
  <2> QED BY <1>3, <2>1, <2>2
<1>21. /\ \A i \in Cells : SizeOfBag(particles[i]) = f[MaxChunks][particles[i].front]
       /\ \A i \in Cells : SizeOfBag(particles[i])' = g[MaxChunks][particles'[i].front]
  BY <1>8, <1>9 DEF SumsAlong
<1>22. ASSUME NEW i \in Cells
       PROVE  /\ SizeOfBag(particles[i]) \in Nat
              /\ SizeOfBag(particles[i])' = SizeOfBag(particles[i]) + (IF i = j THEN 1 ELSE 0)
  <2>1. SizeOfBag(particles[i]) \in Nat
    BY <1>5, <1>12, <1>18, <1>21
  <2>2. CASE i = j
    BY <1>3, <1>19, <1>20, <1>21, <2>2
  <2>3. CASE i # j
    <3>1. particles[i].front \in S
      <4>1. owner[particles[i].front] # owner[c]
        BY <1>3, <1>12, <2>3, Ids
      <4> QED BY <1>12, <4>1
    <3>2. g[MaxChunks][particles[i].front] = f[MaxChunks][particles[i].front]
      BY <1>6, <1>17, <3>1
    <3> QED BY <1>20, <1>21, <2>1, <2>3, <3>2
  <2> QED BY <2>1, <2>2, <2>3
<1> QED BY <1>22

-----------------------------------------------------------------------------
(* The charge of a cell, thread after thread.                               *)

ChargeTyped == charge_accu \in [Threads -> [Cells -> Nat]]

AddsUp(f, j) == f = [t \in Threads |-> charge_accu[t][j] + (IF t = 0 THEN 0 ELSE f[t - 1])]

ChargeAdds(f, j) ==
  /\ ReducedCharge(j) = f[NbThreads - 1]
  /\ \A t \in Threads : f[t] \in Nat /\ f[t] = charge_accu[t][j] + (IF t = 0 THEN 0 ELSE f[t - 1])

LEMMA AddsUpExist ==
  ASSUME ChargeTyped, NEW j \in Cells
  PROVE  \E f : AddsUp(f, j)
<1> DEFINE n == NbThreads - 1
           Step(k, x) == charge_accu[k][j] + x
           step == [k \in 1 .. n |-> [x \in Nat |-> Step(k, x)]]
<1>1. n \in Nat /\ Threads = 0 .. n /\ \A t \in Threads : charge_accu[t][j] \in Nat
  BY ChunkAssumption DEF Threads, ChargeTyped
<1>2. \A k \in 1 .. n, x \in Nat : step[k][x] \in Nat
  <2>1. \A k \in 1 .. n, x \in Nat : Step(k, x) \in Nat
    BY <1>1
  <2> HIDE DEF Step
  <2> QED BY <2>1
<1>3. charge_accu[0][j] \in Nat
  BY <1>1
<1>4. PICK f \in [0 .. n -> Nat] : f[0] = charge_accu[0][j] /\ \A k \in 1 .. n : f[k] = step[k][f[k - 1]]
  <2> HIDE DEF step, n
  <2>1. \E f : Recurs(f, n, Nat, charge_accu[0][j], step)
    BY <1>1, <1>2, <1>3, Recursion
  <2> QED BY <2>1 DEF Recurs
<1>5. \A k \in 1 .. n : f[k] = charge_accu[k][j] + f[k - 1]
  <2> SUFFICES ASSUME NEW k \in 1 .. n PROVE f[k] = Step(k, f[k - 1])
    OBVIOUS
  <2>1. f[k - 1] \in Nat
    BY <1>1, <1>4
  <2> HIDE DEF Step
  <2> QED BY <2>1, <1>4
<1> HIDE DEF n, step
<1>6. \A t \in Threads : f[t] = charge_accu[t][j] + (IF t = 0 THEN 0 ELSE f[t - 1])
  <2> TAKE t \in Threads
  <2>1. CASE t = 0
    BY <1>1, <1>4, <2>1
  <2>2. CASE t # 0
    BY <1>1, <1>5, <2>2
  <2> QED BY <2>1, <2>2
<1>7. f = [t \in Threads |-> f[t]]
  BY <1>1, <1>4
<1>8. AddsUp(f, j)
  BY <1>6, <1>7, Zenon DEF AddsUp
<1> QED BY <1>8

LEMMA ChargeAdded ==
  ChargeTyped => \A j \in Cells : \E f : ChargeAdds(f, j)
<1> SUFFICES ASSUME ChargeTyped, NEW j \in Cells PROVE \E f : ChargeAdds(f, j)
  OBVIOUS
<1> DEFINE f == CHOOSE g : AddsUp(g, j)
<1>1. AddsUp(f, j)
  BY AddsUpExist
<1>2. ReducedCharge(j) = f[NbThreads - 1]
  BY DEF ReducedCharge, AddsUp
<1> HIDE DEF f
<1>3. \A t \in Threads : f[t] = charge_accu[t][j] + (IF t = 0 THEN 0 ELSE f[t - 1])
  <2> DEFINE g == [t \in Threads |-> charge_accu[t][j] + (IF t = 0 THEN 0 ELSE f[t - 1])]
  <2>1. f = g
    BY <1>1, Zenon DEF AddsUp
  <2>2. \A t \in Threads : g[t] = charge_accu[t][j] + (IF t = 0 THEN 0 ELSE f[t - 1])
    OBVIOUS
  <2> HIDE DEF g
  <2> QED BY <2>1, <2>2
<1>4. Threads \subseteq Nat /\ \A t \in Threads : (t # 0 => t - 1 \in Threads) /\ charge_accu[t][j] \in Nat
  BY ChunkAssumption DEF Threads, ChargeTyped
<1>5. \A t \in Threads : f[t] \in Nat
  <2> DEFINE Bad == {t \in Threads : f[t] \notin Nat}
  <2> SUFFICES ASSUME Bad # {} PROVE FALSE
    OBVIOUS
  <2>1. PICK k \in Bad : \A m \in Bad : k <= m
    <3>1. Bad \subseteq Nat
      BY <1>4
    <3> HIDE DEF Bad
    <3> QED BY <3>1, LeastNatural
  <2>2. k \in Threads /\ f[k] \notin Nat
    OBVIOUS
  <2>3. k # 0
    BY <1>3, <1>4, <2>2
  <2>4. k - 1 \in Threads /\ ~(k <= k - 1)
    BY <1>4, <2>2, <2>3
  <2>5. k - 1 \notin Bad
    <3> HIDE DEF Bad
    <3> QED BY <2>1, <2>4
  <2>6. f[k - 1] \in Nat
    BY <2>4, <2>5
  <2> QED BY <1>3, <1>4, <2>2, <2>3, <2>6
<1>6. ChargeAdds(f, j)
  BY <1>2, <1>3, <1>5, Zenon DEF ChargeAdds
<1> QED BY <1>6

LEMMA ChargeAddedNext ==
  (ChargeTyped => \A j \in Cells : \E f : ChargeAdds(f, j))'
<1>1. ChargeTyped => \A j \in Cells : \E f : ChargeAdds(f, j)
  BY ChargeAdded
<1> QED BY <1>1, PTL

\* Thread t deposits in cell c, and no other.
LEMMA ChargeGrows ==
  ASSUME ChargeTyped, NEW t \in Threads, NEW c \in Cells, charge_accu' = [charge_accu EXCEPT ![t][c] = @ + 1]
  PROVE  /\ ChargeTyped'
         /\ \A j \in Cells : /\ ReducedCharge(j) \in Nat
                             /\ ReducedCharge(j)' = ReducedCharge(j) + (IF j = c THEN 1 ELSE 0)
<1> DEFINE More(x) == IF x THEN 1 ELSE 0
<1>1. charge_accu' \in [Threads -> [Cells -> Nat]]
  BY DEF ChargeTyped
<1>2. \A u \in Threads, j \in Cells : charge_accu'[u][j] = charge_accu[u][j] + More(u = t /\ j = c)
  BY DEF ChargeTyped
<1>3. ChargeTyped'
  BY <1>1 DEF ChargeTyped
<1>4. ASSUME NEW j \in Cells
      PROVE  ReducedCharge(j) \in Nat /\ ReducedCharge(j)' = ReducedCharge(j) + More(j = c)
  <2>1. PICK f : ChargeAdds(f, j)
    BY ChargeAdded
  <2>2. PICK g : ChargeAdds(g, j)'
    BY <1>3, ChargeAddedNext
  <2>3. /\ \A u \in Threads : f[u] \in Nat /\ f[u] = charge_accu[u][j] + (IF u = 0 THEN 0 ELSE f[u - 1])
        /\ \A u \in Threads : g[u] \in Nat /\ g[u] = charge_accu'[u][j] + (IF u = 0 THEN 0 ELSE g[u - 1])
        /\ ReducedCharge(j) = f[NbThreads - 1] /\ ReducedCharge(j)' = g[NbThreads - 1]
    BY <2>1, <2>2 DEF ChargeAdds
  <2>4. /\ Threads \subseteq Nat /\ NbThreads - 1 \in Threads
        /\ \A u \in Threads : u <= NbThreads - 1 /\ (u # 0 => u - 1 \in Threads) /\ charge_accu[u][j] \in Nat
    BY ChunkAssumption DEF Threads, ChargeTyped
  <2>5. \A u \in Threads : g[u] = f[u] + More(t <= u /\ j = c)
    <3> DEFINE Bad == {u \in Threads : g[u] # f[u] + More(t <= u /\ j = c)}
    <3> SUFFICES ASSUME Bad # {} PROVE FALSE
      OBVIOUS
    <3>1. PICK k \in Bad : \A m \in Bad : k <= m
      <4>1. Bad \subseteq Nat
        BY <2>4
      <4> HIDE DEF Bad
      <4> QED BY <4>1, LeastNatural
    <3>2. k \in Threads /\ k \in Nat /\ t \in Nat /\ g[k] # f[k] + More(t <= k /\ j = c)
      BY <2>4
    <3>3. charge_accu[k][j] \in Nat /\ charge_accu'[k][j] = charge_accu[k][j] + More(k = t /\ j = c)
      BY <1>2, <2>4, <3>2
    <3>4. CASE k = 0
      BY <2>3, <3>2, <3>3, <3>4
    <3>5. CASE k # 0
      <4>1. k - 1 \in Threads /\ ~(k <= k - 1)
        BY <2>4, <3>2, <3>5
      <4>2. k - 1 \notin Bad
        <5> HIDE DEF Bad
        <5> QED BY <3>1, <4>1
      <4>3. g[k - 1] = f[k - 1] + More(t <= k - 1 /\ j = c)
        BY <4>1, <4>2
      <4>4. f[k - 1] \in Nat /\ f[k] = charge_accu[k][j] + f[k - 1] /\ g[k] = charge_accu'[k][j] + g[k - 1]
        BY <2>3, <3>2, <3>5, <4>1
      <4>5. More(t <= k /\ j = c) = More(t <= k - 1 /\ j = c) + More(k = t /\ j = c)
        BY <3>2
      <4>6. More(t <= k - 1 /\ j = c) \in Nat /\ More(k = t /\ j = c) \in Nat
        OBVIOUS
      <4> HIDE DEF More
      <4> QED BY <3>2, <3>3, <4>3, <4>4, <4>5, <4>6
    <3> QED BY <3>4, <3>5
  <2> QED BY <2>3, <2>4, <2>5
<1> QED BY <1>3, <1>4

\* At the beginning of a step there is none.
LEMMA ChargeReset ==
  ASSUME charge_accu' = [t \in Threads |-> NoCharge]
  PROVE  ChargeTyped' /\ \A j \in Cells : ReducedCharge(j)' = 0
<1>1. ChargeTyped' /\ \A t \in Threads, j \in Cells : charge_accu'[t][j] = 0
  BY DEF ChargeTyped, NoCharge
<1>2. ASSUME NEW j \in Cells PROVE ReducedCharge(j)' = 0
  <2>1. PICK g : ChargeAdds(g, j)'
    BY <1>1, ChargeAddedNext
  <2>2. Threads \subseteq Nat /\ NbThreads - 1 \in Threads /\ \A u \in Threads : u # 0 => u - 1 \in Threads
    BY ChunkAssumption DEF Threads
  <2>3. \A u \in Threads : (u = 0 => g[u] = 0) /\ (u # 0 => g[u] = g[u - 1])
    <3>1. \A u \in Threads : g[u] \in Nat /\ g[u] = charge_accu'[u][j] + (IF u = 0 THEN 0 ELSE g[u - 1])
      BY <2>1 DEF ChargeAdds
    <3>2. \A u \in Threads : g[u] = 0 + (IF u = 0 THEN 0 ELSE g[u - 1])
      BY <1>1, <3>1
    <3> QED BY <2>2, <3>1, <3>2
  <2>4. \A u \in Threads : g[u] = 0
    <3> DEFINE Bad == {u \in Threads : g[u] # 0}
    <3> SUFFICES ASSUME Bad # {} PROVE FALSE
      OBVIOUS
    <3>1. PICK k \in Bad : \A m \in Bad : k <= m
      <4>1. Bad \subseteq Nat
        BY <2>2
      <4> HIDE DEF Bad
      <4> QED BY <4>1, LeastNatural
    <3>2. k \in Threads /\ k \in Nat /\ g[k] # 0 /\ k # 0
      BY <2>2, <2>3
    <3>3. k - 1 \in Threads /\ ~(k <= k - 1)
      BY <2>2, <3>2
    <3>4. k - 1 \notin Bad
      <4> HIDE DEF Bad
      <4> QED BY <3>1, <3>3
    <3>5. g[k] = g[k - 1]
      BY <2>3, <3>2
    <3> QED BY <3>2, <3>3, <3>4, <3>5
  <2> QED BY <2>1, <2>2, <2>4 DEF ChargeAdds
<1> QED BY <1>1, <1>2

LEMMA ChargeSame ==
  ASSUME charge_accu' = charge_accu
  PROVE  (ChargeTyped' <=> ChargeTyped) /\ \A j : ReducedCharge(j)' = ReducedCharge(j)
BY DEF ChargeTyped, ReducedCharge

-----------------------------------------------------------------------------
(* The particles written whose charge is not deposited yet.                 *)

Undeposited(j) == {t \in Threads : Written(t) /\ push[t].cell = j}

LEMMA ThreadsCounted ==
  ASSUME NEW S, S \subseteq Threads, NEW t \in Threads, t \notin S
  PROVE  Cardinality(S) \in Nat /\ Cardinality(S \cup {t}) = Cardinality(S) + 1
<1>1. IsFiniteSet(Threads)
  BY ChunkAssumption, FS_Interval DEF Threads
<1>2. IsFiniteSet(S)
  BY <1>1, FS_Subset
<1> QED BY <1>2, FS_AddElement, FS_CardinalityType

\* One more when thread t has written its particle, one less when it has deposited the charge.
LEMMA OneMoreWritten ==
  ASSUME NEW t \in Threads, ~Written(t), Written(t)', push'[t].cell = push[t].cell,
         \A u \in Threads : u # t => push'[u] = push[u]
  PROVE  \A j : /\ NotYetDeposited(j) \in Nat
                /\ NotYetDeposited(j)' = NotYetDeposited(j) + (IF j = push[t].cell THEN 1 ELSE 0)
<1> TAKE j
<1>1. \A u \in Threads : u # t => (Written(u)' <=> Written(u))
  BY DEF Written
<1>2. Undeposited(j)' = IF j = push[t].cell THEN Undeposited(j) \cup {t} ELSE Undeposited(j)
  BY <1>1 DEF Undeposited
<1>3. t \notin Undeposited(j) /\ Undeposited(j) \subseteq Threads
  BY DEF Undeposited
<1>4. Cardinality(Undeposited(j)) \in Nat /\ Cardinality(Undeposited(j) \cup {t}) = Cardinality(Undeposited(j)) + 1
  BY <1>3, ThreadsCounted
<1>5. Cardinality(Undeposited(j)') = Cardinality(Undeposited(j)) + (IF j = push[t].cell THEN 1 ELSE 0)
  BY <1>2, <1>4
<1>6. NotYetDeposited(j) = Cardinality(Undeposited(j)) /\ NotYetDeposited(j)' = Cardinality(Undeposited(j)')
  BY DEF NotYetDeposited, Undeposited
<1> QED BY <1>4, <1>5, <1>6

LEMMA OneLessWritten ==
  ASSUME NEW t \in Threads, Written(t), ~Written(t)',
         \A u \in Threads : u # t => push'[u] = push[u]
  PROVE  \A j : /\ NotYetDeposited(j)' \in Nat
                /\ NotYetDeposited(j) = NotYetDeposited(j)' + (IF j = push[t].cell THEN 1 ELSE 0)
<1> TAKE j
<1>1. \A u \in Threads : u # t => (Written(u)' <=> Written(u))
  BY DEF Written
<1>2. Undeposited(j) = IF j = push[t].cell THEN Undeposited(j)' \cup {t} ELSE Undeposited(j)'
  BY <1>1 DEF Undeposited
<1>3. t \notin Undeposited(j)' /\ Undeposited(j)' \subseteq Threads
  BY DEF Undeposited
<1>4. Cardinality(Undeposited(j)') \in Nat /\ Cardinality(Undeposited(j)' \cup {t}) = Cardinality(Undeposited(j)') + 1
  BY <1>3, ThreadsCounted
<1>5. Cardinality(Undeposited(j)) = Cardinality(Undeposited(j)') + (IF j = push[t].cell THEN 1 ELSE 0)
  BY <1>2, <1>4
<1>6. NotYetDeposited(j) = Cardinality(Undeposited(j)) /\ NotYetDeposited(j)' = Cardinality(Undeposited(j)')
  BY DEF NotYetDeposited, Undeposited
<1> QED BY <1>4, <1>5, <1>6

LEMMA AsManyWritten ==
  ASSUME \A u \in Threads : (Written(u)' <=> Written(u)) /\ (Written(u) => push'[u].cell = push[u].cell)
  PROVE  \A j : NotYetDeposited(j)' = NotYetDeposited(j)
<1> TAKE j
<1>1. Undeposited(j)' = Undeposited(j)
  BY DEF Undeposited
<1>2. NotYetDeposited(j) = Cardinality(Undeposited(j)) /\ NotYetDeposited(j)' = Cardinality(Undeposited(j)')
  BY DEF NotYetDeposited, Undeposited
<1> QED BY <1>1, <1>2

LEMMA NoneWritten ==
  (\A u \in Threads : ~Written(u)) => \A j : NotYetDeposited(j) = 0
<1>1. Cardinality({}) = 0
  BY FS_EmptySet
<1>2. (\A u \in Threads : ~Written(u)) => \A j : Undeposited(j) = {}
  BY DEF Undeposited
<1>3. \A j : NotYetDeposited(j) = Cardinality(Undeposited(j))
  BY DEF NotYetDeposited, Undeposited
<1> QED BY <1>1, <1>2, <1>3

LEMMA NoneWrittenNext ==
  ((\A u \in Threads : ~Written(u)) => \A j : NotYetDeposited(j) = 0)'
<1>1. (\A u \in Threads : ~Written(u)) => \A j : NotYetDeposited(j) = 0
  BY NoneWritten
<1> QED BY <1>1, PTL

-----------------------------------------------------------------------------
(* The steps of time, and the cells that the append phase is done with.     *)

TimeInv ==
  /\ num_iteration \in Nat /\ i_time \in Nat
  /\ phase \in {"move", "single", "append"} => i_time < num_iteration
  /\ phase = "create" => i_time = 0

\* Once a cell is appended, its charge is reduced ...
ReducedInv ==
  /\ ChargeTyped
  /\ reduced_charge_accu = [j \in Cells |-> reduced_charge_accu[j]]
  /\ phase = "append" => \A j \in Cells : Appended(j) => reduced_charge_accu[j] = ReducedCharge(j)

\* ... and its bags of the next step are empty.
EmptiedInv ==
  phase = "append" =>
    \A j \in Cells, kind \in BagKinds : Appended(j) => \A c \in NextChunks(kind, j) : chunk[c].size = 0

StepInv == TimeInv /\ ReducedInv /\ EmptiedInv

\* The chunks of the bags of a cell are those that have it as owner.
LEMMA BagsOwned ==
  OwnInv => \A owner, pos : ListsInv(owner, pos) =>
    \A j \in Cells : /\ CurrentChunks(j) = {e \in Listed : owner[e] = CurrentId(j)}
                     /\ \A kind \in BagKinds : NextChunks(kind, j) = {e \in Listed : owner[e] = NextId(kind, j)}
<1> SUFFICES ASSUME OwnInv, NEW owner, NEW pos, ListsInv(owner, pos), NEW j \in Cells
             PROVE  /\ CurrentChunks(j) = {e \in Listed : owner[e] = CurrentId(j)}
                    /\ \A kind \in BagKinds : NextChunks(kind, j) = {e \in Listed : owner[e] = NextId(kind, j)}
  OBVIOUS
<1>1. \A l \in ListIds : ChunksFrom(Fronts[l]) = {e \in Listed : owner[e] = l}
  BY ChunksOfList
<1> QED BY <1>1, FrontOf, Ids DEF CurrentChunks, NextChunks

LEMMA BagsOwnedNext ==
  (OwnInv => \A owner, pos : ListsInv(owner, pos) =>
     \A j \in Cells : /\ CurrentChunks(j) = {e \in Listed : owner[e] = CurrentId(j)}
                      /\ \A kind \in BagKinds : NextChunks(kind, j) = {e \in Listed : owner[e] = NextId(kind, j)})'
<1>1. OwnInv => \A owner, pos : ListsInv(owner, pos) =>
        \A j \in Cells : /\ CurrentChunks(j) = {e \in Listed : owner[e] = CurrentId(j)}
                         /\ \A kind \in BagKinds : NextChunks(kind, j) = {e \in Listed : owner[e] = NextId(kind, j)}
  BY BagsOwned
<1> QED BY <1>1, PTL

LEMMA AppendKeepsStepInv ==
  ASSUME PInv, OwnInv, OwnInv', StepInv, NEW t \in Threads, AppendAndReduce(t)
  PROVE  StepInv'
<1> DEFINE j == appendNext[t]
<1>1. /\ phase = "append" /\ j \in CellBlock(t) /\ AppendInv
      /\ reduced_charge_accu' = [reduced_charge_accu EXCEPT ![j] = ReducedCharge(j)]
      /\ appendNext' = [appendNext EXCEPT ![t] = j + 1]
      /\ UNCHANGED <<num_iteration, phase, i_time, charge_accu>>
  BY DEF AppendAndReduce, OwnInv
<1>2. j \in Cells /\ \A i \in Cells : Appended(i)' <=> Appended(i) \/ i = j
  <2>1. \A i \in CellBlock(t) : i = appendNext[t] /\ appendNext' = [appendNext EXCEPT ![t] = i + 1]
                                  => i \in Cells /\ \A m \in Cells : Appended(m)' <=> Appended(m) \/ m = i
    BY <1>1, AppendedNext
  <2> QED BY <1>1, <2>1
<1>3. OwnersJoin(j)
  BY AppendAndReduceKeeps
<1>4. PICK c1, c2 \in Addresses :
        /\ Listed' = Listed \cup {c1, c2} /\ Listed \subseteq Addresses
        /\ \A a \in Addresses : chunk'[a].size = IF a \in {c1, c2} THEN 0 ELSE chunk[a].size
  BY AppendedSizes
<1> HIDE DEF j
<1>5. TimeInv'
  BY <1>1 DEF TimeInv, StepInv
<1>6. ReducedInv'
  <2>1. ChargeTyped' /\ \A i : ReducedCharge(i)' = ReducedCharge(i)
    BY <1>1, ChargeSame DEF StepInv, ReducedInv
  <2>2. /\ reduced_charge_accu' = [i \in Cells |-> reduced_charge_accu'[i]]
        /\ reduced_charge_accu'[j] = ReducedCharge(j)
        /\ \A i \in Cells : i # j => reduced_charge_accu'[i] = reduced_charge_accu[i]
    BY <1>1, <1>2 DEF StepInv, ReducedInv
  <2> QED BY <1>1, <1>2, <2>1, <2>2 DEF StepInv, ReducedInv
<1>7. EmptiedInv'
  <2>1. PICK owner, pos, owner2, pos2 :
          /\ ListsInv(owner, pos) /\ ListsInv(owner2, pos2)'
          /\ \A c \in Listed :
               owner2[c] = IF \E kind \in BagKinds : owner[c] = NextId(kind, j) THEN CurrentId(j) ELSE owner[c]
    BY <1>3 DEF OwnersJoin
  <2> SUFFICES ASSUME NEW i \in Cells, NEW kind \in BagKinds, Appended(i)', NEW c, c \in NextChunks(kind, i)'
               PROVE  chunk'[c].size = 0
    BY DEF EmptiedInv
  <2>2. c \in Listed' /\ owner2[c] = NextId(kind, i)
    BY <2>1, BagsOwnedNext
  <2>3. CASE c \in Listed
    <3>1. owner[c] = NextId(kind, i) /\ i # j
      BY <2>1, <2>2, <2>3, Ids
    <3>2. c \in NextChunks(kind, i)
      BY <2>1, <2>3, <3>1, BagsOwned
    <3>3. chunk[c].size = 0
      BY <1>1, <1>2, <3>1, <3>2 DEF StepInv, EmptiedInv
    <3> QED BY <1>4, <2>3, <3>3
  <2>4. CASE c \notin Listed
    BY <1>4, <2>2, <2>4
  <2> QED BY <2>3, <2>4
<1> QED BY <1>5, <1>6, <1>7 DEF StepInv

LEMMA SingleKeepsStepInv ==
  ASSUME StepInv, Single
  PROVE  StepInv'
<1>1. /\ phase = "single" /\ phase' = "append" /\ appendNext' = FirstCells
      /\ UNCHANGED <<num_iteration, i_time, charge_accu, reduced_charge_accu>>
  BY DEF Single
<1>2. \A j \in Cells : ~Appended(j)'
  BY <1>1, FirstCellsFirst DEF Appended
<1>3. ChargeTyped'
  BY <1>1, ChargeSame DEF StepInv, ReducedInv
<1> QED BY <1>1, <1>2, <1>3 DEF StepInv, TimeInv, ReducedInv, EmptiedInv

\* At the beginning of a step the charge is reset.
LEMMA StartLoopKeepsStepInv ==
  ASSUME TimeInv, ChargeTyped, NEW time \in Nat, i_time' = time, num_iteration' = num_iteration, StartLoop(time),
         reduced_charge_accu' = [j \in Cells |-> reduced_charge_accu'[j]]
  PROVE  StepInv'
<1>1. CASE time < num_iteration
  BY <1>1, ChargeReset DEF StartLoop, StepInv, TimeInv, ReducedInv, EmptiedInv
<1>2. CASE ~(time < num_iteration)
  BY <1>2, ChargeSame DEF StartLoop, StepInv, TimeInv, ReducedInv, EmptiedInv
<1> QED BY <1>1, <1>2

LEMMA StepInvKept ==
  ASSUME PInv, OwnInv, OwnInv', StepInv, [Next]_vars
  PROVE  StepInv'
<1>1. ASSUME phase' = phase, phase # "append", ChargeTyped', UNCHANGED <<num_iteration, i_time, reduced_charge_accu>>
      PROVE  StepInv'
  BY <1>1 DEF StepInv, TimeInv, ReducedInv, EmptiedInv
<1>2. UNCHANGED charge_accu => ChargeTyped'
  BY ChargeSame DEF StepInv, ReducedInv
<1>3. CASE UNCHANGED vars
  <2>1. UNCHANGED <<chunk, particlesNext, phase, num_iteration, i_time, reduced_charge_accu, charge_accu, appendNext>>
    BY <1>3 DEF vars, bagVars, simVars
  <2>2. \A j : (Appended(j)' <=> Appended(j)) /\ \A kind : NextChunks(kind, j)' = NextChunks(kind, j)
    BY <2>1 DEF Appended, NextChunks, NextFront, ChunksFrom
  <2>3. \A j : ReducedCharge(j)' = ReducedCharge(j)
    BY <2>1, ChargeSame
  <2> QED BY <1>2, <2>1, <2>2, <2>3 DEF StepInv, TimeInv, ReducedInv, EmptiedInv
<1>4. ASSUME NEW j \in Cells, CreateParticle(j)
      PROVE  StepInv'
  BY <1>1, <1>2, <1>4 DEF CreateParticle
<1>5. CASE StartSimulation
  <2>1. /\ phase = "create" /\ StartLoop(0) /\ UNCHANGED <<num_iteration, i_time>>
        /\ reduced_charge_accu' = [j \in Cells |-> reduced_charge_accu'[j]]
    BY <1>5 DEF StartSimulation
  <2> QED BY <2>1, StartLoopKeepsStepInv DEF StepInv, TimeInv, ReducedInv
<1>6. CASE NextColor
  <2>1. /\ phase = "move" /\ phase' \in {"move", "single"}
        /\ UNCHANGED <<num_iteration, i_time, reduced_charge_accu, charge_accu>>
    BY <1>6 DEF NextColor, ColorDone
  <2> QED BY <1>2, <2>1 DEF StepInv, TimeInv, ReducedInv, EmptiedInv
<1>7. CASE EndStep
  <2>1. /\ StartLoop(i_time + 1) /\ i_time' = i_time + 1 /\ UNCHANGED <<num_iteration, reduced_charge_accu>>
    BY <1>7 DEF EndStep
  <2> QED BY <2>1, StartLoopKeepsStepInv DEF StepInv, TimeInv, ReducedInv
<1>8. ASSUME NEW t \in Threads, ThreadStep(t)
      PROVE  StepInv'
  <2>1. CASE AppendAndReduce(t)
    BY <2>1, AppendKeepsStepInv
  <2>2. CASE DepositCharge(t)
    <3>1. push[t].cell \in Cells /\ charge_accu' = [charge_accu EXCEPT ![t][push[t].cell] = @ + 1]
      BY <2>2 DEF DepositCharge, PInv, PushInv, Idle
    <3>2. ChargeTyped'
      BY <3>1, ChargeGrows DEF StepInv, ReducedInv
    <3> QED BY <1>1, <2>2, <3>2 DEF DepositCharge
  <2>3. CASE TakeTile(t) \/ MoveParticle(t) \/ PushParticle(t) \/ NextChunk(t)
    <3>1. phase = "move" /\ UNCHANGED <<phase, num_iteration, i_time, reduced_charge_accu, charge_accu>>
      BY <2>3 DEF TakeTile, MoveParticle, PushParticle, NextChunk, simVars
    <3> QED BY <1>1, <1>2, <3>1
  <2> QED BY <1>8, <2>1, <2>2, <2>3 DEF ThreadStep
<1> QED BY <1>3, <1>4, <1>5, <1>6, <1>7, <1>8, SingleKeepsStepInv DEF Next, MainStep

LEMMA StepInvAtStart ==
  ASSUME Init
  PROVE  StepInv
<1>1. num_iteration \in Nat /\ phase = "create" /\ i_time = 0 /\ reduced_charge_accu = NoCharge
  BY ConfigurationAssumption DEF Init
<1>2. ChargeTyped
  BY DEF Init, ChargeTyped, NoCharge
<1> QED BY <1>1, <1>2 DEF StepInv, TimeInv, ReducedInv, EmptiedInv, NoCharge

-----------------------------------------------------------------------------
(* The bags of particles that the chunks stand for.                         *)

\* The bag that a chunk is in list l of holds particle p.
InList(owner, l, p) == \E c \in Addresses, i \in Slots : Holds(c, i) /\ owner[c] = l /\ Item(c, i) = p

LEMMA BagsHold ==
  PInv /\ OwnInv /\ ParticlesInv /\ StepInv => \A owner, pos : ListsInv(owner, pos) => \A j \in Cells : \A p :
    /\ p \in BagCur(j) <=> phase # "append" /\ InList(owner, CurrentId(j), p)
    /\ p \in BagNext(j) <=> \/ \E kind \in BagKinds : InList(owner, NextId(kind, j), p)
                            \/ phase = "append" /\ InList(owner, CurrentId(j), p)
    /\ phase = "single" => ~InList(owner, CurrentId(j), p)
    /\ phase = "append" /\ Appended(j) => \A kind \in BagKinds : ~InList(owner, NextId(kind, j), p)
<1> SUFFICES ASSUME PInv, OwnInv, ParticlesInv, StepInv, NEW owner, NEW pos, ListsInv(owner, pos), NEW j \in Cells, NEW p
             PROVE  /\ p \in BagCur(j) <=> phase # "append" /\ InList(owner, CurrentId(j), p)
                    /\ p \in BagNext(j) <=> \/ \E kind \in BagKinds : InList(owner, NextId(kind, j), p)
                                            \/ phase = "append" /\ InList(owner, CurrentId(j), p)
                    /\ phase = "single" => ~InList(owner, CurrentId(j), p)
                    /\ phase = "append" /\ Appended(j) => \A kind \in BagKinds : ~InList(owner, NextId(kind, j), p)
  OBVIOUS
<1>1. /\ CurrentChunks(j) = {e \in Listed : owner[e] = CurrentId(j)}
      /\ \A kind \in BagKinds : NextChunks(kind, j) = {e \in Listed : owner[e] = NextId(kind, j)}
  BY BagsOwned
<1>2. Listed \subseteq Addresses /\ \A c \in Addresses, i \in Slots : Holds(c, i) => c \in Listed /\ i < chunk[c].size
  BY ListedIsMemory DEF OwnInv, Holds
<1>3. ASSUME NEW C, NEW S, S \subseteq C \X Slots
      PROVE  p \in ItemsAt(S) <=> \E c \in C, i \in Slots : <<c, i>> \in S /\ Item(c, i) = p
  <2>1. p \in ItemsAt(S) <=> \E s \in S : Item(s[1], s[2]) = p
    BY DEF ItemsAt, Item
  <2>2. ASSUME NEW s \in S
        PROVE  s[1] \in C /\ s[2] \in Slots /\ s = <<s[1], s[2]>>
    BY <1>3
  <2>3. ASSUME NEW c \in C, NEW i \in Slots, <<c, i>> \in S, Item(c, i) = p
        PROVE  \E s \in S : Item(s[1], s[2]) = p
    BY <2>3
  <2>4. ASSUME NEW s \in S, Item(s[1], s[2]) = p
        PROVE  \E c \in C, i \in Slots : <<c, i>> \in S /\ Item(c, i) = p
    <3>1. s[1] \in C /\ s[2] \in Slots /\ <<s[1], s[2]>> \in S
      BY <2>2
    <3> QED BY <2>4, <3>1
  <2> QED BY <2>1, <2>3, <2>4
<1>4. p \in ItemsAt(SlotsToMoveAt(j)) <=> InList(owner, CurrentId(j), p)
  <2>1. \A c \in CurrentChunks(j) : SlotsToMove(c) = {i \in Slots : Holds(c, i)}
    BY <1>1, SlotsThatHold
  <2>2. \A s : s \in SlotsToMoveAt(j) <=> s \in CurrentChunks(j) \X Slots /\ s[2] \in SlotsToMove(s[1])
    BY DEF SlotsToMoveAt
  <2>3. \A s : s \in SlotsToMoveAt(j) <=> s \in CurrentChunks(j) \X Slots /\ Holds(s[1], s[2])
    BY <2>1, <2>2
  <2>4. p \in ItemsAt(SlotsToMoveAt(j)) <=> \E c \in CurrentChunks(j), i \in Slots : Holds(c, i) /\ Item(c, i) = p
    <3>1. SlotsToMoveAt(j) \subseteq CurrentChunks(j) \X Slots
      BY <2>3
    <3>2. \A c \in CurrentChunks(j), i \in Slots : <<c, i>> \in SlotsToMoveAt(j) <=> Holds(c, i)
      BY <2>3
    <3>3. p \in ItemsAt(SlotsToMoveAt(j))
            <=> \E c \in CurrentChunks(j), i \in Slots : <<c, i>> \in SlotsToMoveAt(j) /\ Item(c, i) = p
      BY <1>3, <3>1
    <3> QED BY <3>2, <3>3, Zenon
  <2> QED BY <1>1, <1>2, <2>4 DEF InList
<1>5. p \in ItemsAt(SlotsWrittenAt(j)) <=> \E kind \in BagKinds : InList(owner, NextId(kind, j), p)
  <2> DEFINE chunks == UNION {NextChunks(kind, j) : kind \in BagKinds}
  <2>1. \A c : c \in chunks <=> c \in Listed /\ \E kind \in BagKinds : owner[c] = NextId(kind, j)
    BY <1>1
  <2>2. \A s : s \in SlotsWrittenAt(j) <=> s \in chunks \X Slots /\ s[2] \in SlotsWritten(s[1])
    BY DEF SlotsWrittenAt
  <2> HIDE DEF chunks
  <2>3. \A c \in chunks : SlotsWritten(c) = {i \in Slots : Holds(c, i)}
    BY <2>1, SlotsThatHold
  <2>4. \A s : s \in SlotsWrittenAt(j) <=> s \in chunks \X Slots /\ Holds(s[1], s[2])
    BY <2>2, <2>3
  <2>5. p \in ItemsAt(SlotsWrittenAt(j)) <=> \E c \in chunks, i \in Slots : Holds(c, i) /\ Item(c, i) = p
    <3>1. SlotsWrittenAt(j) \subseteq chunks \X Slots
      BY <2>4
    <3>2. \A c \in chunks, i \in Slots : <<c, i>> \in SlotsWrittenAt(j) <=> Holds(c, i)
      BY <2>4
    <3>3. p \in ItemsAt(SlotsWrittenAt(j)) <=> \E c \in chunks, i \in Slots : <<c, i>> \in SlotsWrittenAt(j) /\ Item(c, i) = p
      BY <1>3, <3>1
    <3> QED BY <3>2, <3>3, Zenon
  <2> QED BY <1>2, <2>1, <2>5 DEF InList
<1>6. phase = "single" \/ (phase = "append" /\ ~Appended(j)) => ~InList(owner, CurrentId(j), p)
  <2> SUFFICES ASSUME phase = "single" \/ (phase = "append" /\ ~Appended(j)), InList(owner, CurrentId(j), p) PROVE FALSE
    OBVIOUS
  <2>1. CurrentFront(j) = NULL
    BY DEF CurrentFront
  <2>2. PICK c \in Listed : owner[c] = CurrentId(j)
    BY <1>2 DEF InList
  <2>3. Fronts[owner[c]] # NULL
    BY <2>2 DEF ListsInv, Chained
  <2> QED BY <2>1, <2>2, <2>3, FrontOf
<1>7. phase = "append" /\ Appended(j) => \A kind \in BagKinds : ~InList(owner, NextId(kind, j), p)
  <2> SUFFICES ASSUME phase = "append", Appended(j), NEW kind \in BagKinds, InList(owner, NextId(kind, j), p) PROVE FALSE
    OBVIOUS
  <2>1. PICK c \in Addresses, i \in Slots : Holds(c, i) /\ owner[c] = NextId(kind, j)
    BY DEF InList
  <2>2. c \in NextChunks(kind, j) /\ i < chunk[c].size
    BY <1>1, <1>2, <2>1
  <2>3. chunk[c].size = 0
    BY <2>2 DEF StepInv, EmptiedInv
  <2> QED BY <2>2, <2>3, SlotNumbers
<1>8. phase = "append" /\ Appended(j) =>
        (p \in ItemsAt({s \in CurrentChunks(j) \X Slots : s[2] < chunk[s[1]].size}) <=> InList(owner, CurrentId(j), p))
  <2> SUFFICES ASSUME phase = "append"
               PROVE  p \in ItemsAt({s \in CurrentChunks(j) \X Slots : s[2] < chunk[s[1]].size})
                        <=> InList(owner, CurrentId(j), p)
    OBVIOUS
  <2>1. \A u \in Threads : Idle(u) /\ ~Working(u)
    BY NobodyWorks, PushingInMove
  <2>2. \A c \in Addresses : \A i : ~Passed(c, i) /\ ~Claimed(c, i)
    BY <2>1, NotNull DEF Passed, Claimed, Idle, Working
  <2>3. \A c \in Addresses, i \in Slots : Holds(c, i) <=> c \in Listed /\ i < chunk[c].size
    BY <2>2 DEF Holds
  <2> DEFINE S == {s \in CurrentChunks(j) \X Slots : s[2] < chunk[s[1]].size}
  <2>4. /\ S \subseteq CurrentChunks(j) \X Slots
        /\ \A c \in CurrentChunks(j), i \in Slots : <<c, i>> \in S <=> i < chunk[c].size
    OBVIOUS
  <2> HIDE DEF S
  <2>5. p \in ItemsAt(S) <=> \E c \in CurrentChunks(j), i \in Slots : i < chunk[c].size /\ Item(c, i) = p
    <3>1. p \in ItemsAt(S) <=> \E c \in CurrentChunks(j), i \in Slots : <<c, i>> \in S /\ Item(c, i) = p
      BY <1>3, <2>4
    <3> QED BY <2>4, <3>1, Zenon
  <2>6. p \in ItemsAt(S) <=> InList(owner, CurrentId(j), p)
    BY <1>1, <1>2, <2>3, <2>5 DEF InList
  <2> QED BY <2>6 DEF S
<1> QED BY <1>4, <1>5, <1>6, <1>7, <1>8 DEF BagCur, BagNext

LEMMA BagsHoldNext ==
  (PInv /\ OwnInv /\ ParticlesInv /\ StepInv => \A owner, pos : ListsInv(owner, pos) => \A j \in Cells : \A p :
    /\ p \in BagCur(j) <=> phase # "append" /\ InList(owner, CurrentId(j), p)
    /\ p \in BagNext(j) <=> \/ \E kind \in BagKinds : InList(owner, NextId(kind, j), p)
                            \/ phase = "append" /\ InList(owner, CurrentId(j), p)
    /\ phase = "single" => ~InList(owner, CurrentId(j), p)
    /\ phase = "append" /\ Appended(j) => \A kind \in BagKinds : ~InList(owner, NextId(kind, j), p))'
<1> DEFINE F == PInv /\ OwnInv /\ ParticlesInv /\ StepInv => \A owner, pos : ListsInv(owner, pos) => \A j \in Cells : \A p :
    /\ p \in BagCur(j) <=> phase # "append" /\ InList(owner, CurrentId(j), p)
    /\ p \in BagNext(j) <=> \/ \E kind \in BagKinds : InList(owner, NextId(kind, j), p)
                            \/ phase = "append" /\ InList(owner, CurrentId(j), p)
    /\ phase = "single" => ~InList(owner, CurrentId(j), p)
    /\ phase = "append" /\ Appended(j) => \A kind \in BagKinds : ~InList(owner, NextId(kind, j), p)
<1>1. F
  BY BagsHold
<1> HIDE DEF F
<1>2. F'
  BY <1>1, PTL
<1> QED BY <1>2 DEF F

-----------------------------------------------------------------------------
(* How the bags change.                                                     *)

AllInv == PInv /\ OwnInv /\ ParticlesInv /\ StepInv

LEMMA InListStays ==
  ASSUME SlotsStay, NEW owner, NEW owner2, \A c \in Listed \cap Listed' : owner2[c] = owner[c]
  PROVE  \A l, p : InList(owner2, l, p)' <=> InList(owner, l, p)
<1>1. \A c \in Addresses, i \in Slots : (Holds(c, i) => c \in Listed) /\ (Holds(c, i)' => c \in Listed')
  BY DEF Holds
<1> QED BY <1>1 DEF InList, SlotsStay

LEMMA BagsStay ==
  ASSUME AllInv, AllInv', SlotsStay, OwnersStay, phase # "append", phase' # "append"
  PROVE  \A j \in Cells : BagCur(j)' = BagCur(j) /\ BagNext(j)' = BagNext(j)
<1>1. PICK owner, pos, owner2, pos2 :
        ListsInv(owner, pos) /\ ListsInv(owner2, pos2)' /\ \A c \in Listed \cap Listed' : owner2[c] = owner[c]
  BY DEF OwnersStay
<1>2. \A l, p : InList(owner2, l, p)' <=> InList(owner, l, p)
  BY <1>1, InListStays
<1>3. \A j \in Cells : \A p :
                          /\ p \in BagCur(j) <=> InList(owner, CurrentId(j), p)
                          /\ p \in BagNext(j) <=> \E kind \in BagKinds : InList(owner, NextId(kind, j), p)
  BY <1>1, BagsHold DEF AllInv
<1>4. \A j \in Cells : \A p :
                          /\ p \in BagCur(j)' <=> InList(owner2, CurrentId(j), p)'
                          /\ p \in BagNext(j)' <=> \E kind \in BagKinds : InList(owner2, NextId(kind, j), p)'
  BY <1>1, BagsHoldNext DEF AllInv
<1>5. ASSUME NEW j \in Cells
      PROVE  BagCur(j)' = BagCur(j) /\ BagNext(j)' = BagNext(j)
  <2>1. \A p : p \in BagCur(j)' <=> p \in BagCur(j)
    BY <1>2, <1>3, <1>4
  <2>2. \A p : p \in BagNext(j)' <=> p \in BagNext(j)
    BY <1>2, <1>3, <1>4
  <2> QED BY <2>1, <2>2
<1> QED BY <1>5

\* In the single region the bags of the current step are empty, ...
LEMMA BagsAtSingle ==
  ASSUME AllInv, AllInv', Single
  PROVE  \A j \in Cells : BagCur(j)' = BagCur(j) /\ BagNext(j)' = BagNext(j)
<1>1. OwnersStay /\ SlotsStay /\ phase = "single" /\ phase' = "append"
  BY SingleKeeps, MainKeepsParticles DEF AllInv, Single
<1>2. PICK owner, pos, owner2, pos2 :
        ListsInv(owner, pos) /\ ListsInv(owner2, pos2)' /\ \A c \in Listed \cap Listed' : owner2[c] = owner[c]
  BY <1>1 DEF OwnersStay
<1>3. \A l, p : InList(owner2, l, p)' <=> InList(owner, l, p)
  BY <1>1, <1>2, InListStays
<1>4. \A j \in Cells : \A p :
                          /\ p \in BagCur(j) <=> InList(owner, CurrentId(j), p)
                          /\ ~InList(owner, CurrentId(j), p)
                          /\ p \in BagNext(j) <=> \E kind \in BagKinds : InList(owner, NextId(kind, j), p)
  BY <1>1, <1>2, BagsHold DEF AllInv
<1>5. \A j \in Cells : \A p :
        /\ ~(p \in BagCur(j)')
        /\ p \in BagNext(j)' <=> \/ \E kind \in BagKinds : InList(owner2, NextId(kind, j), p)'
                                 \/ InList(owner2, CurrentId(j), p)'
  BY <1>1, <1>2, BagsHoldNext DEF AllInv
<1>6. ASSUME NEW j \in Cells
      PROVE  BagCur(j)' = BagCur(j) /\ BagNext(j)' = BagNext(j)
  <2>1. \A p : p \in BagCur(j)' <=> p \in BagCur(j)
    BY <1>4, <1>5
  <2>2. \A p : p \in BagNext(j)' <=> p \in BagNext(j)
    BY <1>3, <1>4, <1>5
  <2> QED BY <2>1, <2>2
<1> QED BY <1>6

\* ... and the append of a cell joins its bags of the next step.
LEMMA BagsAtAppend ==
  ASSUME AllInv, AllInv', NEW t \in Threads, AppendAndReduce(t)
  PROVE  \A j \in Cells : BagCur(j)' = BagCur(j) /\ BagNext(j)' = BagNext(j)
<1> DEFINE j == appendNext[t]
<1>1. OwnersJoin(j) /\ SlotsStay /\ phase = "append" /\ phase' = "append"
  BY AppendAndReduceKeeps, AppendKeepsParticles DEF AllInv, AppendAndReduce
<1> HIDE DEF j
<1>2. PICK owner, pos, owner2, pos2 :
        /\ ListsInv(owner, pos) /\ ListsInv(owner2, pos2)'
        /\ \A c \in Listed :
             owner2[c] = IF \E kind \in BagKinds : owner[c] = NextId(kind, j) THEN CurrentId(j) ELSE owner[c]
  BY <1>1 DEF OwnersJoin
<1>3. \A c \in Addresses, i \in Slots : Holds(c, i) => c \in Listed
  BY DEF Holds
<1>4. \A l, p : InList(owner2, l, p)' <=> \E c \in Addresses, i \in Slots : Holds(c, i) /\ owner2[c] = l /\ Item(c, i) = p
  BY <1>1 DEF InList, SlotsStay
<1>5. \A i \in Cells : \A p :
        (\E kind \in BagKinds : InList(owner2, NextId(kind, i), p)') \/ InList(owner2, CurrentId(i), p)'
          <=> (\E kind \in BagKinds : InList(owner, NextId(kind, i), p)) \/ InList(owner, CurrentId(i), p)
  <2> TAKE i \in Cells
  <2> TAKE p
  <2> DEFINE Next2(c) == \E kind \in BagKinds : owner2[c] = NextId(kind, i)
             Next1(c) == \E kind \in BagKinds : owner[c] = NextId(kind, i)
  <2>1. \A c \in Listed : Next2(c) \/ owner2[c] = CurrentId(i) <=> Next1(c) \/ owner[c] = CurrentId(i)
    BY <1>2, Ids
  <2>2. (\E kind \in BagKinds : InList(owner2, NextId(kind, i), p)') \/ InList(owner2, CurrentId(i), p)'
          <=> \E c \in Addresses, m \in Slots : Holds(c, m) /\ Item(c, m) = p /\ (Next2(c) \/ owner2[c] = CurrentId(i))
    BY <1>4
  <2>3. (\E kind \in BagKinds : InList(owner, NextId(kind, i), p)) \/ InList(owner, CurrentId(i), p)
          <=> \E c \in Addresses, m \in Slots : Holds(c, m) /\ Item(c, m) = p /\ (Next1(c) \/ owner[c] = CurrentId(i))
    BY DEF InList
  <2> HIDE DEF Next1, Next2
  <2> QED BY <1>3, <2>1, <2>2, <2>3
<1>6. \A i \in Cells : \A p :
        /\ ~(p \in BagCur(i))
        /\ p \in BagNext(i) <=> (\E kind \in BagKinds : InList(owner, NextId(kind, i), p)) \/ InList(owner, CurrentId(i), p)
  BY <1>1, <1>2, BagsHold DEF AllInv
<1>7. \A i \in Cells : \A p :
        /\ ~(p \in BagCur(i)')
        /\ p \in BagNext(i)' <=> (\E kind \in BagKinds : InList(owner2, NextId(kind, i), p)') \/ InList(owner2, CurrentId(i), p)'
  BY <1>1, <1>2, BagsHoldNext DEF AllInv
<1>8. ASSUME NEW i \in Cells
      PROVE  BagCur(i)' = BagCur(i) /\ BagNext(i)' = BagNext(i)
  <2>1. \A p : p \in BagCur(i)' <=> p \in BagCur(i)
    BY <1>6, <1>7
  <2>2. \A p : p \in BagNext(i)' <=> p \in BagNext(i)
    BY <1>5, <1>6, <1>7
  <2> QED BY <2>1, <2>2
<1> QED BY <1>8

\* At the end of the step the joined bags become those of the current step.
LEMMA AllAppended ==
  ASSUME OwnInv, \A t \in Threads : appendNext[t] \notin CellBlock(t)
  PROVE  \A j \in Cells : Appended(j)
<1> TAKE j \in Cells
<1>1. PICK t \in Threads : j \in CellBlock(t)
  BY CellsShared
<1>2. j < appendNext[t]
  BY <1>1 DEF OwnInv, AppendInv
<1> QED BY <1>1, <1>2 DEF Appended

LEMMA BagsSwapped ==
  ASSUME AllInv, AllInv', EndStep
  PROVE  \A j \in Cells : BagCur(j) = {} /\ BagCur(j)' = BagNext(j) /\ BagNext(j)' = {}
<1>1. OwnersStay /\ SlotsStay /\ phase = "append" /\ phase' \in {"move", "done"} /\ \A j \in Cells : Appended(j)
  BY EndStepKeeps, MainKeepsParticles, AllAppended DEF AllInv, EndStep, StartLoop
<1>2. PICK owner, pos, owner2, pos2 :
        ListsInv(owner, pos) /\ ListsInv(owner2, pos2)' /\ \A c \in Listed \cap Listed' : owner2[c] = owner[c]
  BY <1>1 DEF OwnersStay
<1>3. \A l, p : InList(owner2, l, p)' <=> InList(owner, l, p)
  BY <1>1, <1>2, InListStays
<1>4. \A j \in Cells : \A p :
                          /\ p \notin BagCur(j)
                          /\ p \in BagNext(j) <=> InList(owner, CurrentId(j), p)
                          /\ \A kind \in BagKinds : ~InList(owner, NextId(kind, j), p)
  BY <1>1, <1>2, BagsHold DEF AllInv
<1>5. \A j \in Cells : \A p :
                          /\ p \in BagCur(j)' <=> InList(owner2, CurrentId(j), p)'
                          /\ p \in BagNext(j)' <=> \E kind \in BagKinds : InList(owner2, NextId(kind, j), p)'
  BY <1>1, <1>2, BagsHoldNext DEF AllInv
<1>6. ASSUME NEW j \in Cells
      PROVE  BagCur(j) = {} /\ BagCur(j)' = BagNext(j) /\ BagNext(j)' = {}
  <2>1. BagCur(j) = {}
    BY <1>4
  <2>2. \A p : p \in BagCur(j)' <=> p \in BagNext(j)
    BY <1>3, <1>4, <1>5
  <2>3. \A p : ~(p \in BagNext(j)')
    BY <1>3, <1>4, <1>5
  <2> QED BY <2>1, <2>2, <2>3
<1> QED BY <1>6

\* The particle that a thread writes goes from the bag of the cell it is in to the one
\* of the cell it goes to.
LEMMA BagsMove ==
  ASSUME AllInv, AllInv', OwnersStay, NEW t \in Threads, ItemMoves(t), push[t].pc \in {"serial_write", "write"},
         phase' = phase
  PROVE  LET j == loop[t].j  cell == push[t].cell  p == push[t].p
         IN  /\ j \in Cells /\ cell \in Cells /\ p \in BagCur(j) /\ cell \in Destinations(p, j)
             /\ \A i \in Cells : BagCur(i)' = IF i = j THEN BagCur(i) \ {p} ELSE BagCur(i)
             /\ \A i \in Cells : BagNext(i)' = IF i = cell THEN BagNext(i) \cup {p} ELSE BagNext(i)
<1> DEFINE j == loop[t].j  cell == push[t].cell  p == push[t].p  kind == push[t].kind
<1>1. PICK owner, pos, owner2, pos2 :
        ListsInv(owner, pos) /\ ListsInv(owner2, pos2)' /\ \A a \in Listed \cap Listed' : owner2[a] = owner[a]
  BY DEF OwnersStay
<1>2. /\ push[t].c \in Listed /\ owner[push[t].c] = NextId(kind, cell) /\ kind \in BagKinds /\ cell \in Cells
      /\ phase = "move" /\ Working(t) /\ ~Idle(t)
  BY <1>1, ChunkPushed DEF AllInv
<1>3. owner[loop[t].my_chunk] = CurrentId(j) /\ j \in Cells
  BY <1>1, <1>2, ChunkRead DEF AllInv
<1>4. Item(loop[t].my_chunk, loop[t].i) = p /\ cell \in Destinations(p, j)
  BY <1>2 DEF AllInv, ParticlesInv, MoversInv
<1>5. PICK c, i, d, k : c = loop[t].my_chunk /\ i = loop[t].i /\ d = push[t].c /\ SlotMoves(c, i, d, k)
  BY DEF ItemMoves
<1> HIDE DEF j, cell, p, kind
<1>6. /\ Item(c, i) = p /\ owner[c] = CurrentId(j) /\ d \in Listed /\ owner[d] = NextId(kind, cell)
      /\ c \in Addresses /\ i \in Slots /\ Holds(c, i) /\ d \in Addresses /\ k \in Slots /\ Item(d, k)' = p
      /\ \A a \in Addresses, m \in Slots : Holds(a, m)' <=> (Holds(a, m) /\ ~(a = c /\ m = i)) \/ (a = d /\ m = k)
      /\ \A a \in Addresses, m \in Slots : Holds(a, m) => Item(a, m)' = Item(a, m)
  BY <1>2, <1>3, <1>4, <1>5 DEF SlotMoves
<1>7. \A a \in Addresses, m \in Slots : Holds(a, m) /\ Item(a, m) = p => a = c /\ m = i
  BY <1>6 DEF AllInv, ParticlesInv, Numbered
<1>8. \A a \in Addresses, m \in Slots : (Holds(a, m) => a \in Listed) /\ (Holds(a, m)' => a \in Listed')
  BY DEF Holds
<1>9. /\ owner2[d] = NextId(kind, cell)
      /\ \A a \in Addresses, m \in Slots : Holds(a, m) /\ Holds(a, m)' => owner2[a] = owner[a]
  <2>1. Holds(d, k)'
    BY <1>6
  <2> QED BY <1>1, <1>2, <1>6, <1>8, <2>1
<1>10. \A l, q : InList(owner, l, q) <=>
         \/ q # p /\ \E a \in Addresses, m \in Slots : Holds(a, m) /\ ~(a = c /\ m = i) /\ owner[a] = l /\ Item(a, m) = q
         \/ q = p /\ l = CurrentId(j)
  BY <1>6, <1>7 DEF InList
<1>11. \A l, q : InList(owner2, l, q)' <=>
         \/ q # p /\ \E a \in Addresses, m \in Slots : Holds(a, m) /\ ~(a = c /\ m = i) /\ owner[a] = l /\ Item(a, m) = q
         \/ q = p /\ l = NextId(kind, cell)
  <2>1. ASSUME NEW l, NEW q, NEW a \in Addresses, NEW m \in Slots, Holds(a, m)', owner2[a] = l, Item(a, m)' = q
        PROVE  \/ q # p /\ Holds(a, m) /\ ~(a = c /\ m = i) /\ owner[a] = l /\ Item(a, m) = q
               \/ q = p /\ l = NextId(kind, cell)
    BY <1>6, <1>7, <1>9, <2>1
  <2>2. ASSUME NEW l, NEW q, NEW a \in Addresses, NEW m \in Slots,
               Holds(a, m), ~(a = c /\ m = i), owner[a] = l, Item(a, m) = q
        PROVE  Holds(a, m)' /\ owner2[a] = l /\ Item(a, m)' = q
    BY <1>6, <1>9, <2>2
  <2>3. Holds(d, k)' /\ owner2[d] = NextId(kind, cell) /\ Item(d, k)' = p
    BY <1>6, <1>9
  <2> TAKE l, q
  <2>4. InList(owner2, l, q)' <=> \E a \in Addresses, m \in Slots : Holds(a, m)' /\ owner2[a] = l /\ Item(a, m)' = q
    BY DEF InList
  <2>5. ASSUME InList(owner2, l, q)'
        PROVE  \/ q # p /\ \E a \in Addresses, m \in Slots : Holds(a, m) /\ ~(a = c /\ m = i) /\ owner[a] = l /\ Item(a, m) = q
               \/ q = p /\ l = NextId(kind, cell)
    BY <2>1, <2>4, <2>5
  <2>6. ASSUME \E a \in Addresses, m \in Slots : Holds(a, m) /\ ~(a = c /\ m = i) /\ owner[a] = l /\ Item(a, m) = q
        PROVE  InList(owner2, l, q)'
    BY <2>2, <2>4, <2>6
  <2>7. ASSUME q = p, l = NextId(kind, cell)
        PROVE  InList(owner2, l, q)'
    BY <1>6, <2>3, <2>4, <2>7
  <2> QED BY <2>5, <2>6, <2>7
<1>12. \A l, q : /\ InList(owner2, l, q)' <=> (InList(owner, l, q) /\ q # p) \/ (q = p /\ l = NextId(kind, cell))
                 /\ InList(owner, l, p) <=> l = CurrentId(j)
  BY <1>10, <1>11
<1>13. \A m \in Cells : \A q :
                           /\ q \in BagCur(m) <=> InList(owner, CurrentId(m), q)
                           /\ q \in BagNext(m) <=> \E n \in BagKinds : InList(owner, NextId(n, m), q)
  BY <1>1, <1>2, BagsHold DEF AllInv
<1>14. \A m \in Cells : \A q :
                           /\ q \in BagCur(m)' <=> InList(owner2, CurrentId(m), q)'
                           /\ q \in BagNext(m)' <=> \E n \in BagKinds : InList(owner2, NextId(n, m), q)'
  BY <1>1, <1>2, BagsHoldNext DEF AllInv
<1>15. p \in BagCur(j) /\ \A m \in Cells : (m # j => p \notin BagCur(m)) /\ p \notin BagNext(m)
  BY <1>3, <1>12, <1>13, Ids
<1>16. ASSUME NEW m \in Cells
       PROVE  BagCur(m)' = IF m = j THEN BagCur(m) \ {p} ELSE BagCur(m)
  <2>1. \A q : q \in BagCur(m)' <=> q \in BagCur(m) /\ q # p
    BY <1>12, <1>13, <1>14, Ids
  <2> QED BY <1>15, <2>1
<1>17. ASSUME NEW m \in Cells
       PROVE  BagNext(m)' = IF m = cell THEN BagNext(m) \cup {p} ELSE BagNext(m)
  <2>1. \A q : (\E n \in BagKinds : InList(owner2, NextId(n, m), q)')
                 <=> (q # p /\ \E n \in BagKinds : InList(owner, NextId(n, m), q)) \/ (q = p /\ m = cell)
    BY <1>2, <1>12, Ids
  <2>2. \A q : q \in BagNext(m)' <=> (q \in BagNext(m) /\ q # p) \/ (q = p /\ m = cell)
    BY <1>13, <1>14, <2>1
  <2> QED BY <1>15, <2>2
<1> QED BY <1>2, <1>3, <1>4, <1>15, <1>16, <1>17 DEF j, cell, p

\* The particle created is in the bag of its cell.
LEMMA BagsFilled ==
  ASSUME AllInv, AllInv', NEW j \in Cells, CreateParticle(j)
  PROVE  \A i \in Cells : /\ BagCur(i)' = IF i = j THEN BagCur(i) \cup {nbCreated + 1} ELSE BagCur(i)
                          /\ BagNext(i)' = BagNext(i)
<1>1. phase = "create" /\ phase' = "create" /\ OwnersStay
  BY CreateParticleKeeps DEF AllInv, CreateParticle
<1>2. PICK owner, pos, owner2, pos2 :
        ListsInv(owner, pos) /\ ListsInv(owner2, pos2)' /\ \A c \in Listed \cap Listed' : owner2[c] = owner[c]
  BY <1>1 DEF OwnersStay
<1>3. PICK d, k, p : d = particles[j].front /\ p = nbCreated + 1 /\ SlotFilled(d, k, p)
  BY CreateKeepsParticles DEF AllInv
<1>4. d \in Listed /\ owner[d] = CurrentId(j)
  <2>1. Fronts[CurrentId(j)] = d /\ CurrentId(j) \in ListIds
    BY <1>1, <1>3, FrontsAtCreation, Ids
  <2>2. Fronts[CurrentId(j)] # NULL
    BY <1>1, <1>2 DEF ListsInv, Heads
  <2> QED BY <1>2, <2>1, <2>2 DEF ListsInv, Chained
<1>5. /\ d \in Addresses /\ k \in Slots /\ Item(d, k)' = p
      /\ \A a \in Addresses, m \in Slots : Holds(a, m)' <=> Holds(a, m) \/ (a = d /\ m = k)
      /\ \A a \in Addresses, m \in Slots : Holds(a, m) => Item(a, m)' = Item(a, m)
      /\ ~Holds(d, k)
  BY <1>3 DEF SlotFilled
<1>6. \A a \in Addresses, m \in Slots : (Holds(a, m) => a \in Listed) /\ (Holds(a, m)' => a \in Listed')
  BY DEF Holds
<1>7. \A a \in Addresses, m \in Slots : Holds(a, m)' => owner2[a] = owner[a]
  BY <1>2, <1>4, <1>5, <1>6
<1>8. \A l, q : InList(owner2, l, q)' <=> InList(owner, l, q) \/ (q = p /\ l = CurrentId(j))
  BY <1>4, <1>5, <1>7 DEF InList
<1>9. \A m \in Cells : \A q :
                          /\ q \in BagCur(m) <=> InList(owner, CurrentId(m), q)
                          /\ q \in BagNext(m) <=> \E n \in BagKinds : InList(owner, NextId(n, m), q)
  BY <1>1, <1>2, BagsHold DEF AllInv
<1>10. \A m \in Cells : \A q :
                           /\ q \in BagCur(m)' <=> InList(owner2, CurrentId(m), q)'
                           /\ q \in BagNext(m)' <=> \E n \in BagKinds : InList(owner2, NextId(n, m), q)'
  BY <1>1, <1>2, BagsHoldNext DEF AllInv
<1>11. ASSUME NEW m \in Cells
       PROVE  BagCur(m)' = (IF m = j THEN BagCur(m) \cup {p} ELSE BagCur(m)) /\ BagNext(m)' = BagNext(m)
  <2>1. \A q : q \in BagCur(m)' <=> q \in BagCur(m) \/ (q = p /\ m = j)
    BY <1>8, <1>9, <1>10, Ids
  <2>2. \A q : q \in BagNext(m)' <=> q \in BagNext(m)
    BY <1>8, <1>9, <1>10, Ids
  <2> QED BY <2>1, <2>2
<1> QED BY <1>3, <1>11

-----------------------------------------------------------------------------
(* How the deposit changes.                                                 *)

LEMMA SizesAtStart ==
  ASSUME Init
  PROVE  \A j \in Cells : SizeOfBag(particles[j]) = 0
<1>1. OwnInv /\ (\A c \in Listed : chunk[c].size = 0) /\ phase = "create"
  BY OwnInvAtStart DEF Init
<1>2. PICK owner, pos : ListsInv(owner, pos)
  BY <1>1 DEF OwnInv
<1>3. \A j \in Cells : particles[j].front \in Listed
  <2>1. \A j \in Cells : Fronts[CurrentId(j)] = particles[j].front /\ Fronts[CurrentId(j)] # NULL
    BY <1>1, <1>2, FrontsAtCreation DEF ListsInv, Heads
  <2> QED BY <1>2, <2>1, Ids DEF ListsInv, Chained
<1>4. Listed \subseteq Addresses /\ NULL = 0 /\ NULL \notin Addresses /\ MaxChunks \in Nat /\ Addresses = 1 .. MaxChunks
  BY <1>1, NotNull, ListedIsMemory, ChunkAssumption DEF OwnInv, NULL, Addresses
<1>5. \A a \in Addresses : chunk[a].next = NULL
  BY DEF Init, InitBags
<1>6. PICK f : SumsAlong(f)
  <2>1. SizesTyped
    BY <1>1 DEF OwnInv, MemoryInv, ChunkShape, SizesTyped
  <2> QED BY <2>1, SizesAdded
<1> SUFFICES ASSUME NEW j \in Cells PROVE SizeOfBag(particles[j]) = 0
  OBVIOUS
<1> DEFINE a == particles[j].front
<1>7. a \in Addresses /\ chunk[a].size = 0 /\ chunk[a].next = 0
  BY <1>1, <1>3, <1>4, <1>5
<1>8. SizeOfBag(particles[j]) = f[MaxChunks][a]
  BY <1>6 DEF SumsAlong
<1> HIDE DEF a
<1>9. a \in 0 .. MaxChunks /\ a # 0 /\ MaxChunks # 0 /\ MaxChunks \in 0 .. MaxChunks /\ MaxChunks - 1 \in 0 .. MaxChunks
      /\ 0 \in 0 .. MaxChunks
  BY <1>4, <1>7
<1>10. \A k \in 0 .. MaxChunks, b \in 0 .. MaxChunks :
         f[k][b] = IF b = NULL \/ k = 0 THEN 0 ELSE chunk[b].size + f[k - 1][chunk[b].next]
  BY <1>6 DEF SumsAlong
<1>11. f[MaxChunks - 1][0] = 0
  BY <1>4, <1>9, <1>10
<1>12. f[MaxChunks][a] = chunk[a].size + f[MaxChunks - 1][chunk[a].next]
  BY <1>4, <1>9, <1>10
<1> QED BY <1>7, <1>8, <1>11, <1>12

LEMMA ReducedNatural ==
  ASSUME ChargeTyped
  PROVE  \A j \in Cells : ReducedCharge(j) \in Nat
<1> TAKE j \in Cells
<1>1. PICK f : ChargeAdds(f, j)
  BY ChargeAdded
<1>2. NbThreads - 1 \in Threads
  BY ChunkAssumption DEF Threads
<1> QED BY <1>1, <1>2 DEF ChargeAdds

\* A step that writes no particle, and deposits nothing.
LEMMA DepositStays ==
  ASSUME phase \notin {"create", "done"}, phase' \notin {"create", "done"}, charge_accu' = charge_accu,
         \A u \in Threads : (Written(u)' <=> Written(u)) /\ (Written(u) => push'[u].cell = push[u].cell)
  PROVE  \A j \in Cells : DepositAt(j)' = DepositAt(j)
BY ChargeSame, AsManyWritten DEF DepositAt

\* The particle is counted as soon as it is written, ...
LEMMA DepositWritten ==
  ASSUME ChargeTyped, phase \notin {"create", "done"}, phase' \notin {"create", "done"}, charge_accu' = charge_accu,
         NEW t \in Threads, ~Written(t), Written(t)', push'[t].cell = push[t].cell,
         \A u \in Threads : u # t => push'[u] = push[u]
  PROVE  \A j \in Cells : /\ DepositAt(j) \in Nat
                          /\ DepositAt(j)' = DepositAt(j) + (IF j = push[t].cell THEN 1 ELSE 0)
<1> TAKE j \in Cells
<1> DEFINE one == IF j = push[t].cell THEN 1 ELSE 0
<1>1. NotYetDeposited(j) \in Nat /\ NotYetDeposited(j)' = NotYetDeposited(j) + one
  BY OneMoreWritten
<1>2. ReducedCharge(j) \in Nat /\ ReducedCharge(j)' = ReducedCharge(j)
  BY ReducedNatural, ChargeSame
<1>3. one \in Nat
  OBVIOUS
<1>4. /\ DepositAt(j) = ReducedCharge(j) + NotYetDeposited(j)
      /\ DepositAt(j)' = ReducedCharge(j)' + NotYetDeposited(j)'
  BY DEF DepositAt
<1> HIDE DEF one
<1>5. DepositAt(j) \in Nat /\ DepositAt(j)' = DepositAt(j) + one
  BY <1>1, <1>2, <1>3, <1>4
<1> QED BY <1>5 DEF one

\* ... and still is when its thread has deposited it.
LEMMA DepositAdded ==
  ASSUME PInv, ChargeTyped, NEW t \in Threads, DepositCharge(t)
  PROVE  \A j \in Cells : DepositAt(j)' = DepositAt(j)
<1> TAKE j \in Cells
<1> DEFINE one == IF j = push[t].cell THEN 1 ELSE 0
<1>1. /\ phase = "move" /\ phase' = "move" /\ push[t].pc = "returned" /\ push' = [push EXCEPT ![t] = NoPush]
      /\ charge_accu' = [charge_accu EXCEPT ![t][push[t].cell] = @ + 1]
  BY DEF DepositCharge
<1>2. push[t].cell \in Cells
  BY <1>1 DEF PInv, PushInv, Idle
<1>3. ReducedCharge(j) \in Nat /\ ReducedCharge(j)' = ReducedCharge(j) + one
  BY <1>1, <1>2, ChargeGrows
<1>4. NotYetDeposited(j)' \in Nat /\ NotYetDeposited(j) = NotYetDeposited(j)' + one
  <2>1. push'[t] = NoPush /\ \A u \in Threads : u # t => push'[u] = push[u]
    BY <1>1 DEF PInv, RegistersInv
  <2>2. Written(t) /\ ~Written(t)'
    BY <1>1, <2>1 DEF Written, NoPush
  <2> QED BY <2>1, <2>2, OneLessWritten
<1>5. one \in Nat
  OBVIOUS
<1>6. /\ DepositAt(j) = ReducedCharge(j) + NotYetDeposited(j)
      /\ DepositAt(j)' = ReducedCharge(j)' + NotYetDeposited(j)'
  BY <1>1 DEF DepositAt
<1> HIDE DEF one
<1> QED BY <1>3, <1>4, <1>5, <1>6

\* At the beginning of a step nothing is deposited.
LEMMA DepositReset ==
  ASSUME NEW time, StartLoop(time), \A u \in Threads : ~Written(u)'
  PROVE  phase' # "create" /\ \A j \in Cells : DepositAt(j)' = 0
<1>1. CASE time < num_iteration
  <2>1. phase' = "move" /\ charge_accu' = [t \in Threads |-> NoCharge]
    BY <1>1 DEF StartLoop
  <2>2. \A j \in Cells : ReducedCharge(j)' = 0
    BY <2>1, ChargeReset
  <2>3. \A j \in Cells : NotYetDeposited(j)' = 0
    BY NoneWrittenNext
  <2> QED BY <2>1, <2>2, <2>3 DEF DepositAt
<1>2. CASE ~(time < num_iteration)
  BY <1>2 DEF StartLoop, DepositAt
<1> QED BY <1>1, <1>2

\* All is deposited, and reduced, at the end of the step.
LEMMA DepositReduced ==
  ASSUME PInv, OwnInv, StepInv, EndStep
  PROVE  \A j \in Cells : DepositAt(j) = reduced_charge_accu[j]
<1> TAKE j \in Cells
<1>1. phase = "append" /\ Appended(j)
  BY AllAppended DEF EndStep
<1>2. \A u \in Threads : ~Written(u)
  BY <1>1, PushingInMove DEF Written, Idle
<1>3. NotYetDeposited(j) = 0
  BY <1>2, NoneWritten
<1>4. ReducedCharge(j) \in Nat /\ reduced_charge_accu[j] = ReducedCharge(j)
  BY <1>1, ReducedNatural DEF StepInv, ReducedInv
<1> QED BY <1>1, <1>3, <1>4 DEF DepositAt

-----------------------------------------------------------------------------
(* Each step is one of the naive program, or none.                          *)

LEMMA AllInvKept ==
  ASSUME EvenTiling, AllInv, [Next]_vars
  PROVE  AllInv'
<1>1. PInv'
  BY PInvKept DEF AllInv
<1>2. OwnInv'
  BY OwnInvKept DEF AllInv
<1>3. ParticlesInv'
  BY ParticlesInvKept DEF AllInv
<1>4. StepInv'
  BY <1>2, StepInvKept DEF AllInv
<1> QED BY <1>1, <1>2, <1>3, <1>4 DEF AllInv

\* The naive program is on the same mesh.
LEMMA SameMesh ==
  /\ Demo!Cells = Cells /\ Demo!NoCharge = [j \in Cells |-> 0] /\ Demo!EmptyBags = [j \in Cells |-> {}]
  /\ \A j, d : Demo!Shift(j, d) = Shift(j, d)
<1>1. Demo!Cells = Cells
  BY DEF Demo!Cells, Demo!NumCells, Cells, NumCells
<1> QED BY <1>1 DEF Demo!NoCharge, Demo!EmptyBags, Demo!Shift, Demo!CellOf, Demo!CellX, Demo!CellY, Demo!CellZ,
                    Shift, CellOf, CellX, CellY, CellZ

LEMMA CreateImplements ==
  ASSUME AllInv, AllInv', NEW j \in Cells, CreateParticle(j)
  PROVE  Demo!addParticle
<1>1. /\ nbCreated < nbParticles /\ nbCreated' = nbCreated + 1 /\ phase = "create" /\ phase' = "create"
      /\ UNCHANGED <<num_iteration, i_time, rho_3d>>
  BY DEF CreateParticle
<1>2. \A i \in Cells : /\ BagCur(i)' = IF i = j THEN BagCur(i) \cup {nbCreated + 1} ELSE BagCur(i)
                       /\ BagNext(i)' = BagNext(i)
  BY BagsFilled
<1>3. \A i \in Cells : DepositAt(i) \in Nat /\ DepositAt(i)' = DepositAt(i) + (IF i = j THEN 1 ELSE 0)
  <2>1. \A i \in Cells : /\ SizeOfBag(particles[i]) \in Nat
                         /\ SizeOfBag(particles[i])' = SizeOfBag(particles[i]) + (IF i = j THEN 1 ELSE 0)
    BY BagGrows DEF AllInv
  <2> QED BY <1>1, <2>1 DEF DepositAt
<1>4. BagsCur' = [BagsCur EXCEPT ![j] = @ \cup {nbCreated'}] /\ BagsNext' = BagsNext
  BY <1>1, <1>2 DEF BagsCur, BagsNext
<1>5. Deposits' = [Deposits EXCEPT ![j] = @ + 1]
  <2>1. \A i \in Cells : DepositAt(i)' = IF i = j THEN DepositAt(i) + 1 ELSE DepositAt(i)
    BY <1>3
  <2> QED BY <2>1 DEF Deposits
<1> QED BY <1>1, <1>4, <1>5, SameMesh DEF Demo!addParticle

LEMMA StartImplements ==
  ASSUME AllInv, AllInv', StartSimulation
  PROVE  Demo!stepLeapFrog
<1>1. /\ phase = "create" /\ nbCreated = nbParticles /\ StartLoop(0) /\ rho_3d' = [j \in Cells |-> SizeOfBag(particles[j])]
      /\ UNCHANGED <<num_iteration, i_time, nbCreated, push>>
  BY DEF StartSimulation
<1>2. SlotsStay /\ OwnersStay
  BY MainKeepsParticles, StartSimulationKeeps DEF AllInv
<1>3. \A u \in Threads : ~Written(u)'
  BY <1>1, PushingInMove DEF AllInv, Written, Idle
<1>4. phase' \in {"move", "done"} /\ \A j \in Cells : DepositAt(j)' = 0
  BY <1>1, <1>3, DepositReset DEF StartLoop
<1>5. BagsCur' = BagsCur /\ BagsNext' = BagsNext
  BY <1>1, <1>2, <1>4, BagsStay DEF BagsCur, BagsNext
<1>6. rho_3d' = Deposits /\ Deposits' = [j \in Cells |-> 0]
  BY <1>1, <1>4 DEF Deposits, DepositAt
<1> QED BY <1>1, <1>4, <1>5, <1>6, SameMesh DEF Demo!stepLeapFrog, Demo!updateFieldUsingDeposit

LEMMA WriteImplements ==
  ASSUME AllInv, AllInv', SerialPushExclusive, NEW t \in Threads, PushParticle(t), WriteItem(t) \/ SerialWrite(t)
  PROVE  Demo!MoveParticle
<1> DEFINE j == loop[t].j  cell == push[t].cell  p == push[t].p
<1>1. ItemMoves(t) /\ OwnersStay
  BY WriteItemKeepsParticles, SerialWriteKeepsParticles, PushParticleKeeps DEF AllInv
<1>2. /\ phase = "move" /\ push[t].pc \in {"serial_write", "write"}
      /\ UNCHANGED <<phase, num_iteration, nbCreated, i_time, charge_accu, rho_3d>>
  BY DEF PushParticle, simVars, WriteItem, SerialWrite
<1>3. /\ j \in Cells /\ cell \in Cells /\ p \in BagCur(j) /\ cell \in Destinations(p, j)
      /\ \A i \in Cells : BagCur(i)' = IF i = j THEN BagCur(i) \ {p} ELSE BagCur(i)
      /\ \A i \in Cells : BagNext(i)' = IF i = cell THEN BagNext(i) \cup {p} ELSE BagNext(i)
  BY <1>1, <1>2, BagsMove
<1>4. PushRegisters(t, AfterWrite(push[t].index), push[t].c, push[t].index)
  BY RegistersAfter DEF AllInv
<1>5. \A i \in Cells : DepositAt(i) \in Nat /\ DepositAt(i)' = DepositAt(i) + (IF i = cell THEN 1 ELSE 0)
  <2>1. /\ ~Written(t) /\ Written(t)' /\ push'[t].cell = push[t].cell
        /\ \A u \in Threads : u # t => push'[u] = push[u]
    BY <1>2, <1>4 DEF PushRegisters, AfterWrite, Written
  <2> QED BY <1>2, <2>1, DepositWritten DEF AllInv, StepInv, ReducedInv
<1>6. i_time < num_iteration
  BY <1>2 DEF AllInv, StepInv, TimeInv
<1>7. PICK d \in Displacements[p] : cell = Shift(j, d)
  BY <1>3 DEF Destinations
<1> HIDE DEF j, cell, p
<1>8. /\ BagsCur' = [BagsCur EXCEPT ![j] = @ \ {p}] /\ BagsNext' = [BagsNext EXCEPT ![cell] = @ \cup {p}]
      /\ p \in BagsCur[j]
  BY <1>3 DEF BagsCur, BagsNext
<1>9. Deposits' = [Deposits EXCEPT ![cell] = @ + 1]
  BY <1>5 DEF Deposits
<1>10. \E c \in Demo!Cells : \E q \in BagsCur[c] : \E m \in Displacements[q] :
         LET c2 == Demo!Shift(c, m) IN
         /\ Deposits' = [Deposits EXCEPT ![c2] = @ + 1]
         /\ BagsCur' = [BagsCur EXCEPT ![c] = @ \ {q}]
         /\ BagsNext' = [BagsNext EXCEPT ![c2] = @ \cup {q}]
  BY <1>3, <1>7, <1>8, <1>9, SameMesh
<1> QED BY <1>2, <1>6, <1>10 DEF Demo!MoveParticle

LEMMA EndStepImplements ==
  ASSUME AllInv, AllInv', EndStep
  PROVE  Demo!EndStep
<1>1. /\ phase = "append" /\ StartLoop(i_time + 1) /\ rho_3d' = reduced_charge_accu /\ i_time' = i_time + 1
      /\ UNCHANGED <<num_iteration, nbCreated, push>>
  BY DEF EndStep
<1>2. \A j \in Cells : BagCur(j) = {} /\ BagCur(j)' = BagNext(j) /\ BagNext(j)' = {}
  BY BagsSwapped
<1>3. \A u \in Threads : ~Written(u)'
  BY <1>1, PushingInMove DEF AllInv, Written, Idle
<1>4. phase' # "create" /\ \A j \in Cells : DepositAt(j)' = 0
  BY <1>1, <1>3, DepositReset
<1>5. rho_3d' = Deposits
  <2>1. \A j \in Cells : DepositAt(j) = reduced_charge_accu[j]
    BY DepositReduced DEF AllInv
  <2>2. reduced_charge_accu = [j \in Cells |-> reduced_charge_accu[j]]
    BY DEF AllInv, StepInv, ReducedInv
  <2> QED BY <1>1, <2>1, <2>2 DEF Deposits
<1>6. Deposits' = [j \in Cells |-> 0]
  BY <1>4 DEF Deposits
<1>7. BagsCur = [j \in Cells |-> {}] /\ BagsCur' = BagsNext /\ BagsNext' = BagsCur
  BY <1>2 DEF BagsCur, BagsNext
<1>8. i_time < num_iteration
  BY <1>1 DEF AllInv, StepInv, TimeInv
<1> QED BY <1>1, <1>4, <1>5, <1>6, <1>7, <1>8, SameMesh DEF Demo!EndStep, Demo!updateFieldUsingDeposit

\* The other steps are steps of no one: the bags, the charge and the field stay.
LEMMA DemoStays ==
  ASSUME \A j \in Cells : BagCur(j)' = BagCur(j) /\ BagNext(j)' = BagNext(j),
         \A j \in Cells : DepositAt(j)' = DepositAt(j),
         phase # "create", phase' # "create", UNCHANGED <<num_iteration, nbCreated, i_time, rho_3d>>
  PROVE  UNCHANGED Demo!demoVars
<1>1. BagsCur' = BagsCur /\ BagsNext' = BagsNext /\ Deposits' = Deposits
  BY DEF BagsCur, BagsNext, Deposits
<1> QED BY <1>1 DEF Demo!demoVars

LEMMA MoveStays ==
  ASSUME AllInv, AllInv', SlotsStay, OwnersStay, phase = "move", phase' \in {"move", "single"},
         UNCHANGED <<num_iteration, nbCreated, i_time, rho_3d, charge_accu>>,
         \A u \in Threads : (Written(u)' <=> Written(u)) /\ (Written(u) => push'[u].cell = push[u].cell)
  PROVE  UNCHANGED Demo!demoVars
<1>1. \A j \in Cells : BagCur(j)' = BagCur(j) /\ BagNext(j)' = BagNext(j)
  BY BagsStay
<1>2. \A j \in Cells : DepositAt(j)' = DepositAt(j)
  BY DepositStays
<1> QED BY <1>1, <1>2, DemoStays

LEMMA ReaderStays ==
  ASSUME AllInv, AllInv', NEW t \in Threads, TakeTile(t) \/ NextChunk(t)
  PROVE  UNCHANGED Demo!demoVars
<1>1. SlotsStay
  BY TakeTileKeepsParticles, NextChunkKeepsParticles DEF AllInv
<1>2. OwnersStay
  BY TakeTileKeeps, NextChunkKeeps DEF AllInv
<1>3. phase = "move" /\ UNCHANGED <<phase, num_iteration, nbCreated, i_time, rho_3d, charge_accu, push>>
  BY DEF TakeTile, NextChunk, bagVars
<1>4. \A u \in Threads : (Written(u)' <=> Written(u)) /\ (Written(u) => push'[u].cell = push[u].cell)
  BY <1>3 DEF Written
<1> QED BY <1>1, <1>2, <1>3, <1>4, MoveStays

LEMMA MoveParticleStays ==
  ASSUME AllInv, AllInv', NEW t \in Threads, MoveParticle(t)
  PROVE  UNCHANGED Demo!demoVars
<1>1. SlotsStay /\ OwnersStay
  BY MoveKeepsParticles, MoveParticleKeeps DEF AllInv
<1>2. phase = "move" /\ Idle(t) /\ UNCHANGED <<phase, num_iteration, nbCreated, i_time, rho_3d, charge_accu>>
  BY DEF MoveParticle, simVars
<1>3. PICK r : push' = [push EXCEPT ![t] = r] /\ r.pc \notin {"extend", "publish", "returned"}
  <2>1. PICK i_cell, kind, p : StartPush(t, kind, i_cell, p)
    BY DEF MoveParticle
  <2> DEFINE r == [NoPush EXCEPT !.kind = kind, !.cell = i_cell, !.p = p,
                     !.pc = IF kind = ID_PRIVATE_BAG THEN "serial_take" ELSE "read_front"]
  <2>2. push' = [push EXCEPT ![t] = r]
    BY <2>1 DEF StartPush
  <2>3. r.pc \in {"serial_take", "read_front"}
    BY DEF NoPush
  <2> HIDE DEF r
  <2> QED BY <2>2, <2>3
<1>4. push'[t] = r /\ \A u \in Threads : u # t => push'[u] = push[u]
  BY <1>3 DEF AllInv, PInv, RegistersInv
<1>5. \A u \in Threads : (Written(u)' <=> Written(u)) /\ (Written(u) => push'[u].cell = push[u].cell)
  BY <1>2, <1>3, <1>4 DEF Written, Idle
<1> QED BY <1>1, <1>2, <1>5, MoveStays

LEMMA DepositChargeStays ==
  ASSUME AllInv, AllInv', NEW t \in Threads, DepositCharge(t)
  PROVE  UNCHANGED Demo!demoVars
<1>1. SlotsStay /\ OwnersStay
  BY DepositKeepsParticles, DepositChargeKeeps DEF AllInv
<1>2. phase = "move" /\ UNCHANGED <<phase, num_iteration, nbCreated, i_time, rho_3d>>
  BY DEF DepositCharge
<1>3. \A j \in Cells : BagCur(j)' = BagCur(j) /\ BagNext(j)' = BagNext(j)
  BY <1>1, <1>2, BagsStay
<1>4. \A j \in Cells : DepositAt(j)' = DepositAt(j)
  BY DepositAdded DEF AllInv, StepInv, ReducedInv
<1> QED BY <1>2, <1>3, <1>4, DemoStays

LEMMA AppendStays ==
  ASSUME AllInv, AllInv', NEW t \in Threads, AppendAndReduce(t)
  PROVE  UNCHANGED Demo!demoVars
<1>1. phase = "append" /\ UNCHANGED <<phase, num_iteration, nbCreated, i_time, rho_3d, charge_accu, push>>
  BY DEF AppendAndReduce
<1>2. \A j \in Cells : BagCur(j)' = BagCur(j) /\ BagNext(j)' = BagNext(j)
  BY BagsAtAppend
<1>3. \A u \in Threads : (Written(u)' <=> Written(u)) /\ (Written(u) => push'[u].cell = push[u].cell)
  BY <1>1 DEF Written
<1>4. \A j \in Cells : DepositAt(j)' = DepositAt(j)
  BY <1>1, <1>3, DepositStays
<1> QED BY <1>1, <1>2, <1>4, DemoStays

LEMMA SingleStays ==
  ASSUME AllInv, AllInv', Single
  PROVE  UNCHANGED Demo!demoVars
<1>1. phase = "single" /\ phase' = "append" /\ UNCHANGED <<num_iteration, nbCreated, i_time, rho_3d, charge_accu, push>>
  BY DEF Single
<1>2. \A j \in Cells : BagCur(j)' = BagCur(j) /\ BagNext(j)' = BagNext(j)
  BY BagsAtSingle
<1>3. \A u \in Threads : (Written(u)' <=> Written(u)) /\ (Written(u) => push'[u].cell = push[u].cell)
  BY <1>1 DEF Written
<1>4. \A j \in Cells : DepositAt(j)' = DepositAt(j)
  BY <1>1, <1>3, DepositStays
<1> QED BY <1>1, <1>2, <1>4, DemoStays

LEMMA NextColorStays ==
  ASSUME AllInv, AllInv', NextColor
  PROVE  UNCHANGED Demo!demoVars
<1>1. SlotsStay /\ OwnersStay
  BY MainKeepsParticles, NextColorKeeps DEF AllInv
<1>2. phase = "move" /\ phase' \in {"move", "single"}
      /\ UNCHANGED <<num_iteration, nbCreated, i_time, rho_3d, charge_accu, push>>
  BY DEF NextColor, ColorDone, bagVars
<1>3. \A u \in Threads : (Written(u)' <=> Written(u)) /\ (Written(u) => push'[u].cell = push[u].cell)
  BY <1>2 DEF Written
<1> QED BY <1>1, <1>2, <1>3, MoveStays

\* A push is seen when it writes the item, and not before nor after.
LEMMA PushImplements ==
  ASSUME AllInv, AllInv', SerialPushExclusive, NEW t \in Threads, PushParticle(t)
  PROVE  [Demo!Next]_Demo!demoVars
<1>1. CASE WriteItem(t) \/ SerialWrite(t)
  BY <1>1, WriteImplements DEF Demo!Next
<1>2. CASE ~(WriteItem(t) \/ SerialWrite(t))
  <2>1. SlotsStay /\ OwnersStay
    BY <1>2, PushKeepsParticles, PushParticleKeeps DEF AllInv
  <2>2. phase = "move" /\ UNCHANGED <<phase, num_iteration, nbCreated, i_time, rho_3d, charge_accu>> /\ PushStep(t)
    BY DEF PushParticle, simVars
  <2>3. PICK c, index :
          \/ push[t].pc = "serial_take" /\ PushRegisters(t, "serial_write", c, index)
          \/ push[t].pc = "read_front" /\ PushRegisters(t, "capture", c, index)
          \/ push[t].pc = "capture" /\ \E pc \in {"write", "undo"} : PushRegisters(t, pc, c, index)
          \/ push[t].pc = "undo" /\ PushRegisters(t, "spin", c, index)
          \/ push[t].pc = "spin" /\ PushRegisters(t, "read_front", c, index)
          \/ push[t].pc = "extend" /\ PushRegisters(t, "publish", c, index)
          \/ push[t].pc = "publish" /\ PushRegisters(t, "returned", c, index)
    <3>1. CASE SerialTake(t)
      BY <3>1, RegistersAfter DEF AllInv, SerialTake
    <3>2. CASE ReadFront(t)
      BY <3>2, RegistersAfter DEF AllInv, ReadFront
    <3>3. CASE Capture(t)
      BY <3>3, RegistersAfter DEF AllInv, Capture
    <3>4. CASE UndoCapture(t)
      BY <3>4, RegistersAfter DEF AllInv, UndoCapture
    <3>5. CASE LeaveSpin(t)
      BY <3>5, RegistersAfter DEF AllInv, LeaveSpin
    <3>6. CASE ExtendBag(t)
      BY <3>6, RegistersAfter DEF AllInv, ExtendBag
    <3>7. CASE Publish(t)
      BY <3>7, RegistersAfter DEF AllInv, Publish
    <3> QED BY <1>2, <2>2, <3>1, <3>2, <3>3, <3>4, <3>5, <3>6, <3>7 DEF PushStep
  <2>4. \A u \in Threads : (Written(u)' <=> Written(u)) /\ (Written(u) => push'[u].cell = push[u].cell)
    BY <2>3 DEF PushRegisters, Written
  <2> QED BY <2>1, <2>2, <2>4, MoveStays
<1> QED BY <1>1, <1>2

LEMMA StepsImplementDemo ==
  ASSUME EvenTiling, AllInv, [Next]_vars
  PROVE  AllInv' /\ [Demo!Next]_Demo!demoVars
<1>1. AllInv'
  BY AllInvKept
<1>2. SerialPushExclusive
  BY TilesKeepThreadsApart DEF AllInv
<1>3. ASSUME NEW j \in Cells, CreateParticle(j)
      PROVE  [Demo!Next]_Demo!demoVars
  BY <1>1, <1>3, CreateImplements DEF Demo!Next
<1>4. CASE StartSimulation
  BY <1>1, <1>4, StartImplements DEF Demo!Next
<1>5. CASE NextColor
  BY <1>1, <1>5, NextColorStays
<1>6. CASE Single
  BY <1>1, <1>6, SingleStays
<1>7. CASE EndStep
  BY <1>1, <1>7, EndStepImplements DEF Demo!Next
<1>8. ASSUME NEW t \in Threads, ThreadStep(t)
      PROVE  [Demo!Next]_Demo!demoVars
  <2>1. CASE TakeTile(t) \/ NextChunk(t)
    BY <1>1, <2>1, ReaderStays
  <2>2. CASE MoveParticle(t)
    BY <1>1, <2>2, MoveParticleStays
  <2>3. CASE PushParticle(t)
    BY <1>1, <1>2, <2>3, PushImplements
  <2>4. CASE DepositCharge(t)
    BY <1>1, <2>4, DepositChargeStays
  <2>5. CASE AppendAndReduce(t)
    BY <1>1, <2>5, AppendStays
  <2> QED BY <1>8, <2>1, <2>2, <2>3, <2>4, <2>5 DEF ThreadStep
<1>9. CASE UNCHANGED vars
  <2>1. UNCHANGED <<num_iteration, nbCreated, phase, rho_3d, i_time, chunk, particles, particlesNext, push, loop, tiles,
                    i_color, appendNext, charge_accu>>
    BY <1>9 DEF vars, bagVars, memoryVars, spareVars, simVars
  <2>2. \A j : /\ CurrentChunks(j)' = CurrentChunks(j)
               /\ \A kind : NextChunks(kind, j)' = NextChunks(kind, j)
    BY <2>1 DEF CurrentChunks, NextChunks, CurrentFront, NextFront, ChunksFrom, Pending, Appended, Visitors, Working
  <2>3. \A c : SlotsToMove(c)' = SlotsToMove(c) /\ SlotsWritten(c)' = SlotsWritten(c)
    BY <2>1 DEF SlotsToMove, SlotsWritten, Written
  <2>4. \A j : SlotsToMoveAt(j)' = SlotsToMoveAt(j) /\ SlotsWrittenAt(j)' = SlotsWrittenAt(j)
    BY <2>2, <2>3 DEF SlotsToMoveAt, SlotsWrittenAt
  <2>5. \A j : BagCur(j)' = BagCur(j) /\ BagNext(j)' = BagNext(j)
    <3>1. ASSUME NEW j
          PROVE  BagCur(j)' = BagCur(j) /\ BagNext(j)' = BagNext(j)
      <4>1. /\ SlotsToMoveAt(j)' = SlotsToMoveAt(j) /\ SlotsWrittenAt(j)' = SlotsWrittenAt(j)
            /\ CurrentChunks(j)' = CurrentChunks(j) /\ (Appended(j)' <=> Appended(j))
        BY <2>1, <2>2, <2>4 DEF Appended
      <4>2. BagCur(j)' = BagCur(j)
        BY <2>1, <4>1 DEF BagCur, ItemsAt
      <4>3. CASE phase = "append" /\ Appended(j)
        BY <2>1, <4>1, <4>2, <4>3 DEF BagNext, ItemsAt
      <4>4. CASE ~(phase = "append" /\ Appended(j))
        BY <2>1, <4>1, <4>2, <4>4 DEF BagNext, ItemsAt
      <4> QED BY <4>3, <4>4
    <3> QED BY <3>1
  <2>6. \A j : DepositAt(j)' = DepositAt(j)
    BY <2>1 DEF DepositAt, SizeOfBag, ReducedCharge, NotYetDeposited, Written
  <2>7. BagsCur' = BagsCur /\ BagsNext' = BagsNext /\ Deposits' = Deposits
    BY <2>5, <2>6 DEF BagsCur, BagsNext, Deposits
  <2> QED BY <1>1, <2>1, <2>7 DEF Demo!demoVars
<1> QED BY <1>1, <1>3, <1>4, <1>5, <1>6, <1>7, <1>8, <1>9 DEF Next, MainStep

LEMMA DemoAtStart ==
  ASSUME Init
  PROVE  AllInv /\ Demo!Init
<1>1. AllInv
  BY PInvAtStart, OwnInvAtStart, ParticlesInvAtStart, StepInvAtStart DEF AllInv
<1>2. phase = "create" /\ nbCreated = 0 /\ i_time = 0 /\ rho_3d = [j \in Cells |-> 0]
  BY DEF Init, NoCharge
<1>3. \A l, owner, p : ~InList(owner, l, p)
  <2>1. \A c \in Addresses, i \in Slots : ~Holds(c, i)
    BY <1>1, <1>2 DEF AllInv, ParticlesInv, Numbered
  <2> QED BY <2>1 DEF InList
<1>4. PICK owner, pos : ListsInv(owner, pos)
  BY <1>1 DEF AllInv, OwnInv
<1>5. \A j \in Cells : \A p : p \notin BagCur(j) /\ p \notin BagNext(j)
  BY <1>1, <1>2, <1>3, <1>4, BagsHold DEF AllInv
<1>6. \A j \in Cells : BagCur(j) = {} /\ BagNext(j) = {}
  BY <1>5
<1>7. \A j \in Cells : DepositAt(j) = 0
  BY <1>2, SizesAtStart DEF DepositAt
<1>8. BagsCur = [j \in Cells |-> {}] /\ BagsNext = [j \in Cells |-> {}] /\ Deposits = [j \in Cells |-> 0]
  BY <1>6, <1>7 DEF BagsCur, BagsNext, Deposits
<1>9. num_iteration \in Nat
  BY <1>1 DEF AllInv, StepInv, TimeInv
<1> QED BY <1>1, <1>2, <1>8, <1>9, SameMesh DEF Demo!Init

\* Whatever the number of threads, the mesh that the tiles divide, the size of the chunks,
\* the allocation scheme and the schedule: the particles that the parallel program has in
\* the bags of each cell, the charge it deposits and the field it computes at the end of
\* each step are those of a run of the naive program, a particle changing bags when its item
\* is written (simulations/pic_barsamian.c, simulations/pic_demo.c).
THEOREM ProgramAlwaysImplementsDemo ==
  ASSUME EvenTiling
  PROVE  Spec => ImplementsDemo
<1>1. Init => AllInv /\ Demo!Init
  BY DemoAtStart
<1>2. AllInv /\ [Next]_vars => AllInv' /\ [Demo!Next]_Demo!demoVars
  BY StepsImplementDemo
<1> QED BY <1>1, <1>2, PTL DEF Spec, ImplementsDemo, Demo!Spec

=============================================================================
