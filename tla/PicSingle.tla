----------------------------- MODULE PicSingle -----------------------------
(***************************************************************************)
(* The optimised simulation with positions in single precision             *)
(* (case_studies/pic, demo/pic_demo_single_exp.cpp), and its version that  *)
(* counts what the threads do (simulations/pic_optimized_single_instr.c).  *)
(* A float keeps the multiples of a.grain: the others are rounded, at each *)
(* write of a position into a chunk.                                       *)
(***************************************************************************)
EXTENDS PicForces

LOCAL Pic == INSTANCE MiniPic

\* To the nearest multiple, to the even one of two that are as near.
Single(a, x) ==
  LET below == x \div a.grain
      rest == 2 * (x % a.grain)
      up == rest > a.grain \/ (rest = a.grain /\ below % 2 = 1)
  IN  a.grain * (IF up THEN below + 1 ELSE below)
Stored(a, p) == [p EXCEPT !.pos = Axes(LAMBDA d : Single(a, p.pos[d]))]

\* The first deposit is that of the positions before they are rounded.
singleLeapFrog(a) == leapFrogScaled(a, [i \in DOMAIN a.particles |-> Stored(a, addParticle(a, a.particles[i]))])
singleStep(a, s) == stepScaled(a, s, VisitedCells(a), LAMBDA p : Stored(a, p))
pic_demo_single_exp(a) == Steps(a, singleLeapFrog(a), LAMBDA s : singleStep(a, s))

-----------------------------------------------------------------------------
\* contrib counts the pushes of each thread, the keys of the times left out.
CONTRIB_NONATOMIC_PUSH == 10
CONTRIB_ATOMIC_PUSH == 11
MAXNBTHREADS == 40
PushKeys == {CONTRIB_NONATOMIC_PUSH, CONTRIB_ATOMIC_PUSH}
contrib_reset(keys) == [t \in 0 .. MAXNBTHREADS - 1 |-> [key \in keys |-> 0]]
\* What the pushes of a step add, with the thread and the key of each particle.
Counted(contrib, thread, key) ==
  [t \in DOMAIN contrib |-> [k \in DOMAIN contrib[t] |->
     contrib[t][k] + Cardinality({i \in DOMAIN thread : thread[i] = t /\ key[i] = k})]]

\* && goes before ||: all the alternatives but the last of an axis are enough.
isDistFromBlockLessThanHalfABlock(a, from, to) ==
  LET b(d) == (Pic!coordOfCell(a.grid, from)[d] \div BlockEdge) * BlockEdge
      co(d) == Pic!coordOfCell(a.grid, to)[d]
      halfBlock == BlockEdge \div 2
      In(d) == co(d) >= b(d) - halfBlock /\ co(d) < b(d) + BlockEdge + halfBlock
      First(d) == b(d) = 0 /\ co(d) >= a.grid[d] - halfBlock
      Last(d) == b(d) = a.grid[d] - BlockEdge /\ co(d) < halfBlock
  IN  \/ In("x") \/ First("x") \/ (Last("x") /\ In("y"))
      \/ First("y") \/ (Last("y") /\ In("z"))
      \/ First("z") \/ Last("z")
PushKey(a, from, to) ==
  IF isDistFromBlockLessThanHalfABlock(a, from, to) THEN CONTRIB_NONATOMIC_PUSH ELSE CONTRIB_ATOMIC_PUSH
instrumentedLeapFrog(a) == [state |-> singleLeapFrog(a), contrib |-> contrib_reset(PushKeys)]
instrumentedStep(a, s) ==
  LET from == s.state.particles
      moved == singleStep(a, s.state)
  IN  [state |-> moved,
       contrib |-> Counted(s.contrib, [i \in DOMAIN from |-> threadOf(a, from[i].cell)],
                           [i \in DOMAIN from |-> PushKey(a, from[i].cell, moved.particles[i].cell)])]
\* The report adds up all threads into thread 0, and prints the keys below nbReports.
contrib_report(contrib) == [key \in DOMAIN contrib[0] |-> MapThenSumSet(LAMBDA t : contrib[t][key], DOMAIN contrib)]
Reported(last) == [state |-> last.state, pushes |-> contrib_report(last.contrib)]
pic_optimized_single_instr(a) == Reported(Steps(a, instrumentedLeapFrog(a), LAMBDA s : instrumentedStep(a, s)))

=============================================================================
