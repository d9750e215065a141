---------------------------- MODULE PicOptimized ----------------------------
(***************************************************************************)
(* The parallel simulation that OptiTrust makes from the naive one:        *)
(* demo/pic_demo_exp.cpp.  The threads visit the blocks of one colour      *)
(* after the other; a particle that stays near the block of its thread is  *)
(* pushed without synchronisation into the private bag of its new cell,    *)
(* another one atomically into the shared bag.                             *)
(*                                                                         *)
(* A bag is a sequence: chunks of 256 particles are not filled here, and   *)
(* how pushes fill them is in ChunkBags.  The charge at the eight corners  *)
(* of a cell is abstracted to a count per cell, of which the corners are   *)
(* computed.                                                               *)
(***************************************************************************)
EXTENDS PicGrid, Sequences

CONSTANTS
  nbThreads,
  nbSteps,
  nbParticles,
  InitialCells,    \* per particle: the cells where it may be created
  Displacements    \* per particle: how far, in cells, it may move in one step

ASSUME OptimizedAssumption ==
  /\ nbThreads \in Nat \ {0} /\ nbSteps \in Nat /\ nbParticles \in Nat
  /\ \A p \in 1 .. nbParticles : /\ InitialCells[p] \subseteq Cells
                                 /\ \A d \in Displacements[p] : d[1] \in Int /\ d[2] \in Int /\ d[3] \in Int

VARIABLES
  phase,           \* "create", "core", "append" or "done"
  nbCreated,
  idStep,
  color,           \* the indices cX, cY and cZ of the three outer loops
  bagsCur,
  bagsNexts,       \* by cell and kind
  push,            \* the push each thread is executing
  depositThread,   \* depositThreadCorners: by thread and cell
  depositCells,    \* depositCorners
  appended,        \* the threads that have done their share of the append loop
  deposit,
  field

optVars == <<phase, nbCreated, idStep, color, bagsCur, bagsNexts, push, depositThread, depositCells,
             appended, deposit, field>>

Threads == 0 .. nbThreads - 1
PRIVATE == 0
SHARED == 1
block == 2

halfBlock == 1

NoCharge == [j \in Cells |-> 0]
EmptyBags == [j \in Cells |-> <<>>]
NoPush == [pc |-> "idle", from |-> 0, cell |-> 0, p |-> 0, index |-> 0]

\* First cells of the blocks of a colour, in the order of the collapsed loops,
\* and the cells that a thread visits: its share of the blocks (static schedule).
BlockStarts(c, n) == {b \in 0 .. n - 1 : b % (2 * block) = c * block}
Blocks(c) == BlockStarts(c[1], ncx) \X BlockStarts(c[2], ncy) \X BlockStarts(c[3], ncz)
BlockRank(b, c) == Cardinality({b2 \in Blocks(c) : CellOf(b2[1], b2[2], b2[3]) < CellOf(b[1], b[2], b[3])})
BlocksOfThread(t) ==
  {b \in Blocks(color) : BlockRank(b, color) \in StaticBlock(t, nbThreads, Cardinality(Blocks(color)))}
BlockOf(j) == <<CellX(j) - (CellX(j) % block), CellY(j) - (CellY(j) % block), CellZ(j) - (CellZ(j) % block)>>

\* The test on the destination, with the precedence of C: in the chain of "||"
\* that the code writes without parentheses, the ranges on the three axes are
\* not conjoined.  InRange, AtLowEdge and AtHighEdge are the parts of the test on
\* one axis.
InRange(i, b) == i >= b - halfBlock /\ i < b + block + halfBlock
AtLowEdge(i, b, n) == b = 0 /\ i >= n - halfBlock
AtHighEdge(i, b, n) == b = n - block /\ i < halfBlock

isDistFromBlockLessThanHalfABlock(j, b) ==
  \/ InRange(CellX(j), b[1])
  \/ AtLowEdge(CellX(j), b[1], ncx)
  \/ AtHighEdge(CellX(j), b[1], ncx) /\ InRange(CellY(j), b[2])
  \/ AtLowEdge(CellY(j), b[2], ncy)
  \/ AtHighEdge(CellY(j), b[2], ncy) /\ InRange(CellZ(j), b[3])
  \/ AtLowEdge(CellZ(j), b[3], ncz)
  \/ AtHighEdge(CellZ(j), b[3], ncz)

-----------------------------------------------------------------------------
OptInit ==
  /\ phase = "create" /\ nbCreated = 0 /\ idStep = 0 /\ color = <<0, 0, 0>>
  /\ bagsCur = EmptyBags
  /\ bagsNexts = [kind \in {PRIVATE, SHARED} |-> EmptyBags]
  /\ push = [t \in Threads |-> NoPush]
  /\ depositThread = [t \in Threads |-> NoCharge] /\ depositCells = NoCharge
  /\ appended = {}
  /\ deposit = NoCharge /\ field = NoCharge

addParticle ==
  /\ phase = "create" /\ nbCreated < nbParticles
  /\ nbCreated' = nbCreated + 1
  /\ \E j \in InitialCells[nbCreated'] :
       /\ bagsCur' = [bagsCur EXCEPT ![j] = Append(@, nbCreated')]
       /\ deposit' = [deposit EXCEPT ![j] = @ + 1]
  /\ UNCHANGED <<phase, idStep, color, bagsNexts, push, depositThread, depositCells, appended, field>>

\* Beginning of step(): the deposits of the threads are cleared.
BeginStep ==
  /\ phase' = IF idStep' < nbSteps THEN "core" ELSE "done"
  /\ color' = <<0, 0, 0>>
  /\ depositThread' = IF idStep' < nbSteps THEN [t \in Threads |-> NoCharge] ELSE depositThread

stepLeapFrog ==
  /\ phase = "create" /\ nbCreated = nbParticles
  /\ field' = deposit /\ deposit' = NoCharge
  /\ idStep' = idStep
  /\ BeginStep
  /\ UNCHANGED <<nbCreated, bagsCur, bagsNexts, push, depositCells, appended>>

\* A thread moves the next particle of one of its cells; the order of its
\* cells is left open.  The choice of the bag is made here, the push follows.
MoveParticle(t) ==
  /\ phase = "core" /\ push[t].pc = "idle"
  /\ \E j \in Cells :
       /\ BlockOf(j) \in BlocksOfThread(t) /\ bagsCur[j] # <<>>
       /\ \E d \in Displacements[Head(bagsCur[j])] :
            LET idCell2 == Shift(j, d) IN
            push' = [push EXCEPT ![t] =
              [NoPush EXCEPT !.from = j, !.cell = idCell2, !.p = Head(bagsCur[j]),
                 !.pc = IF isDistFromBlockLessThanHalfABlock(idCell2, BlockOf(j))
                        THEN "serial_take" ELSE "concurrent"]]
  /\ UNCHANGED <<phase, nbCreated, idStep, color, bagsCur, bagsNexts, depositThread, depositCells, appended,
                 deposit, field>>

\* bag_push_serial reads the size, then writes the new size and the item.
SerialTake(t) ==
  /\ push[t].pc = "serial_take"
  /\ push' = [push EXCEPT ![t].index = Len(bagsNexts[PRIVATE][push[t].cell]), ![t].pc = "serial_write"]
  /\ UNCHANGED bagsNexts
SerialWrite(t) ==
  /\ push[t].pc = "serial_write"
  /\ bagsNexts' = [bagsNexts EXCEPT ![PRIVATE][push[t].cell] =
                     Append(SubSeq(@, 1, push[t].index), push[t].p)]
  /\ push' = [push EXCEPT ![t].pc = "returned"]

\* bag_push_concurrent takes its place atomically.
ConcurrentPush(t) ==
  /\ push[t].pc = "concurrent"
  /\ bagsNexts' = [bagsNexts EXCEPT ![SHARED][push[t].cell] = Append(@, push[t].p)]
  /\ push' = [push EXCEPT ![t].pc = "returned"]

PushParticle(t) ==
  /\ SerialTake(t) \/ SerialWrite(t) \/ ConcurrentPush(t)
  /\ UNCHANGED <<phase, nbCreated, idStep, color, bagsCur, depositThread, depositCells, appended, deposit, field>>

\* Rest of the loop body: charge at the corners, and the next particle.
DepositCharge(t) ==
  /\ push[t].pc = "returned"
  /\ depositThread' = [depositThread EXCEPT ![t][push[t].cell] = @ + 1]
  /\ bagsCur' = [bagsCur EXCEPT ![push[t].from] = Tail(@)]
  /\ push' = [push EXCEPT ![t] = NoPush]
  /\ UNCHANGED <<phase, nbCreated, idStep, color, bagsNexts, depositCells, appended, deposit, field>>

\* Barrier at the end of the blocks of a colour; cX is the outermost index.
NextColor ==
  /\ phase = "core"
  /\ \A t \in Threads : push[t].pc = "idle"
  /\ \A j \in Cells : BlockOf(j) \in Blocks(color) => bagsCur[j] = <<>>
  /\ CASE color[3] = 0 -> color' = <<color[1], color[2], 1>> /\ UNCHANGED <<phase, appended>>
       [] color[3] = 1 /\ color[2] = 0 -> color' = <<color[1], 1, 0>> /\ UNCHANGED <<phase, appended>>
       [] color[3] = 1 /\ color[2] = 1 /\ color[1] = 0 -> color' = <<1, 0, 0>> /\ UNCHANGED <<phase, appended>>
       [] color = <<1, 1, 1>> -> phase' = "append" /\ appended' = {} /\ UNCHANGED color
  /\ UNCHANGED <<nbCreated, idStep, bagsCur, bagsNexts, push, depositThread, depositCells, deposit, field>>

ChargeOf(j) ==
  LET sum[t \in Threads] == depositThread[t][j] + (IF t = 0 THEN 0 ELSE sum[t - 1])
  IN  sum[nbThreads - 1]

\* Faulty: the shared bag is forgotten.
WithPrivateOnly(j) == bagsCur[j] \o bagsNexts[PRIVATE][j]

WithNexts(j) == bagsCur[j] \o bagsNexts[PRIVATE][j] \o bagsNexts[SHARED][j]

\* The share of a thread of the loop that appends the bags and adds up the
\* deposits: it works on cells of its own.
AppendAndReduce(t) ==
  /\ phase = "append" /\ t \notin appended
  /\ LET mine == StaticBlock(t, nbThreads, NumCells) IN
     /\ bagsCur' = [j \in Cells |-> IF j \in mine THEN WithNexts(j) ELSE bagsCur[j]]
     /\ bagsNexts' = [kind \in {PRIVATE, SHARED} |->
                        [j \in Cells |-> IF j \in mine THEN <<>> ELSE bagsNexts[kind][j]]]
     /\ depositCells' = [j \in Cells |-> IF j \in mine THEN ChargeOf(j) ELSE depositCells[j]]
  /\ appended' = appended \cup {t}
  /\ UNCHANGED <<phase, nbCreated, idStep, color, push, depositThread, deposit, field>>

\* After the barrier: charge of each cell, new field, next step.
EndStep ==
  /\ phase = "append" /\ appended = Threads
  /\ field' = depositCells /\ deposit' = NoCharge
  /\ idStep' = idStep + 1
  /\ BeginStep
  /\ UNCHANGED <<nbCreated, bagsCur, bagsNexts, push, depositCells, appended>>

OptThread(t) == MoveParticle(t) \/ PushParticle(t) \/ DepositCharge(t) \/ AppendAndReduce(t)
OptNext == addParticle \/ stepLeapFrog \/ NextColor \/ EndStep \/ \E t \in Threads : OptThread(t)
OptSpec == OptInit /\ [][OptNext]_optVars

-----------------------------------------------------------------------------
\* "This function is not thread-safe.  Multiple threads should not access the
\* same bag" (bag_push_serial): no two threads push serially into one bag.
InSerialPush(t) == push[t].pc \in {"serial_take", "serial_write"}
SerialPushExclusive ==
  \A t, u \in Threads :
    t # u /\ InSerialPush(t) /\ InSerialPush(u) => push[t].cell # push[u].cell

\* What the state is for the naive program.  A particle changes bags when its
\* item is written, and its charge counts from then on.
Items(s) == {s[i] : i \in DOMAIN s}
Moved(t) == push[t].pc = "returned"
NotYetDeposited(j) == Cardinality({t \in Threads : Moved(t) /\ push[t].cell = j})
Appended(j) == \E t \in appended : j \in StaticBlock(t, nbThreads, NumCells)
BagCur(j) == IF phase = "append" THEN {} ELSE Items(bagsCur[j]) \ {push[t].p : t \in {u \in Threads : Moved(u)}}
BagNext(j) ==
  IF phase = "append" /\ Appended(j) THEN Items(bagsCur[j])
  ELSE Items(bagsNexts[PRIVATE][j]) \cup Items(bagsNexts[SHARED][j])
DepositAt(j) == IF phase \in {"create", "done"} THEN deposit[j] ELSE ChargeOf(j) + NotYetDeposited(j)
BagsCur == [j \in Cells |-> BagCur(j)]
BagsNext == [j \in Cells |-> BagNext(j)]
DepositOfCells == [j \in Cells |-> DepositAt(j)]

\* The program that OptiTrust outputs computes what the naive one does.
Demo == INSTANCE PicDemo WITH
  started <- phase # "create", bagsCur <- BagsCur, bagsNext <- BagsNext, deposit <- DepositOfCells
ImplementsDemo == Demo!Spec

=============================================================================
