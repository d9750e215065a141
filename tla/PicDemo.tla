------------------------------ MODULE PicDemo ------------------------------
(***************************************************************************)
(* The naive simulation, simulations/pic_demo.c: the sequential program    *)
(* that the optimised ones must agree with.  A bag is a set of particles,  *)
(* and the field is abstracted to the deposit it is computed from, a count *)
(* of particles per cell.  The order in which step() visits the particles  *)
(* is left open.                                                           *)
(***************************************************************************)
EXTENDS PicGrid

CONSTANTS
  nbParticles,
  Displacements    \* per particle: how far, in cells, it may move in one step

VARIABLES nbSteps, nbCreated, started, bagsCur, bagsNext, deposit, field, idStep
demoVars == <<nbSteps, nbCreated, started, bagsCur, bagsNext, deposit, field, idStep>>

NoCharge == [c \in Cells |-> 0]
EmptyBags == [c \in Cells |-> {}]

Init ==
  /\ nbSteps \in Nat
  /\ nbCreated = 0 /\ started = FALSE /\ idStep = 0
  /\ bagsCur = EmptyBags /\ bagsNext = EmptyBags
  /\ deposit = NoCharge /\ field = NoCharge

addParticle ==
  /\ nbCreated < nbParticles
  /\ nbCreated' = nbCreated + 1
  /\ \E c \in Cells : /\ bagsCur' = [bagsCur EXCEPT ![c] = @ \cup {nbCreated'}]
                     /\ deposit' = [deposit EXCEPT ![c] = @ + 1]
  /\ UNCHANGED <<nbSteps, started, bagsNext, field, idStep>>

updateFieldUsingDeposit == field' = deposit /\ deposit' = NoCharge

\* The leap-frog only changes speeds, besides computing the first field.
stepLeapFrog ==
  /\ nbCreated = nbParticles /\ ~started
  /\ started' = TRUE
  /\ updateFieldUsingDeposit
  /\ UNCHANGED <<nbSteps, nbCreated, bagsCur, bagsNext, idStep>>

\* Body of the loop of step() on the particles of a cell.
MoveParticle ==
  /\ started /\ idStep < nbSteps
  /\ UNCHANGED <<nbSteps, nbCreated, started, field, idStep>>
  /\ \E c \in Cells : \E p \in bagsCur[c] : \E d \in Displacements[p] :
       LET c2 == Shift(c, d) IN
       /\ deposit' = [deposit EXCEPT ![c2] = @ + 1]
       /\ bagsCur' = [bagsCur EXCEPT ![c] = @ \ {p}]
       /\ bagsNext' = [bagsNext EXCEPT ![c2] = @ \cup {p}]

\* End of step(): the bags are swapped and the field updated.
EndStep ==
  /\ started /\ idStep < nbSteps
  /\ bagsCur = EmptyBags
  /\ bagsCur' = bagsNext
  /\ bagsNext' = bagsCur
  /\ updateFieldUsingDeposit
  /\ idStep' = idStep + 1
  /\ UNCHANGED <<nbSteps, nbCreated, started>>

Next == addParticle \/ stepLeapFrog \/ MoveParticle \/ EndStep
Spec == Init /\ [][Next]_demoVars

=============================================================================
