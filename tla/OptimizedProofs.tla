--------------------------- MODULE OptimizedProofs ---------------------------
(***************************************************************************)
(* The program that OptiTrust outputs implements the naive one, as long as  *)
(* no two threads push serially into one bag; and they do not when no       *)
(* particle moves by more than one cell, except along the X axis.           *)
(***************************************************************************)
EXTENDS PicOptimized, FiniteSetTheorems, TLAPS

-----------------------------------------------------------------------------
(* Numbers.                                                                  *)

\* As in TilingProofs.
LEMMA LeastNatural ==
  ASSUME NEW S, S \subseteq Nat, S # {}
  PROVE  \E n \in S : \A m \in S : n <= m
<1> DEFINE Below(n) == 0 .. n - 1
           R == StrictSubsetOrdering(Nat)
           F == FiniteSubsetsOf(Nat)
           U == {Below(n) : n \in S}
<1>1. IsWellFoundedOn(R, F)
  BY FS_StrictSubsetOrderingWellFounded
<1>2. U \subseteq F
  <2> SUFFICES ASSUME NEW n \in S PROVE Below(n) \in F
    OBVIOUS
  <2>1. IsFiniteSet(0 .. n - 1)
    BY FS_Interval
  <2> QED BY <2>1 DEF FiniteSubsetsOf
<1>3. \E x \in U : \A y \in U : ~(<<y, x>> \in R)
  <2>1. U # {}
    OBVIOUS
  <2> HIDE DEF R, F, U
  <2> QED BY <1>1, <1>2, <2>1, WFMin
<1>4. PICK n \in S : \A m \in S : ~(<<Below(m), Below(n)>> \in R)
  BY <1>3
<1>5. ASSUME NEW m \in S, m < n PROVE FALSE
  <2>1. Below(m) \subseteq Below(n) /\ Below(m) \in SUBSET Nat /\ Below(n) \in SUBSET Nat
    BY <1>5
  <2>2. m \in Below(n) /\ m \notin Below(m)
    BY <1>5
  <2>3. <<Below(m), Below(n)>> \in R
    BY <2>1, <2>2 DEF StrictSubsetOrdering
  <2> QED BY <2>3, <1>4
<1> QED BY <1>5

LEMMA MaxOf ==
  ASSUME NEW n \in Nat, NEW S, S \subseteq 0 .. n, S # {}
  PROVE  Max(S) \in S /\ \A m \in S : m <= Max(S)
<1> DEFINE T == {n - m : m \in S}
<1>1. T \subseteq Nat /\ T # {}
  <2>1. \A m \in S : n - m \in Nat
    OBVIOUS
  <2>2. \E m \in S : n - m \in T
    OBVIOUS
  <2> QED BY <2>1, <2>2
<1>2. PICK d \in T : \A e \in T : d <= e
  <2> HIDE DEF T
  <2> QED BY <1>1, LeastNatural
<1>3. PICK m \in S : d = n - m
  BY <1>2
<1>4. \A k \in S : k <= m
  BY <1>2, <1>3
<1>5. \E k \in S : \A i \in S : k >= i
  BY <1>3, <1>4
<1>6. Max(S) \in S /\ \A i \in S : Max(S) >= i
  BY <1>5 DEF Max
<1> QED BY <1>6

Recurs(f, n, S, first, step) ==
  f \in [0 .. n -> S] /\ f[0] = first /\ \A k \in 1 .. n : f[k] = step[k][f[k - 1]]

LEMMA Recursion ==
  ASSUME NEW n \in Nat, NEW S, NEW first \in S, NEW step, \A k \in 1 .. n, x \in S : step[k][x] \in S
  PROVE  \E f : Recurs(f, n, S, first, step)
<1> DEFINE Good(m, f) == f \in [0 .. m -> S] /\ f[0] = first /\ \A k \in 1 .. m : f[k] = step[k][f[k - 1]]
           Bad == {m \in 0 .. n : ~\E f : Good(m, f)}
<1> SUFFICES ASSUME Bad # {} PROVE FALSE
  <2>1. n \in 0 .. n
    OBVIOUS
  <2>2. Bad = {} => \E f : Good(n, f)
    <3> HIDE DEF Good
    <3> QED BY <2>1
  <2> QED BY <2>2 DEF Recurs
<1>1. PICK m \in Bad : \A k \in Bad : m <= k
  <2>1. Bad \subseteq Nat
    OBVIOUS
  <2> HIDE DEF Bad
  <2> QED BY <2>1, LeastNatural
<1>2. m # 0
  <2>1. Good(0, [i \in 0 .. 0 |-> first])
    OBVIOUS
  <2> QED BY <2>1, <1>1
<1>3. m \in Nat /\ m - 1 \in 0 .. n /\ m - 1 \notin Bad /\ m \in 1 .. n
  <2>1. m \in 0 .. n
    BY <1>1
  <2>2. ~(m <= m - 1)
    BY <2>1
  <2> HIDE DEF Bad
  <2> QED BY <2>1, <2>2, <1>1, <1>2
<1>4. PICK f : Good(m - 1, f)
  <2> HIDE DEF Good
  <2> QED BY <1>3
<1> DEFINE next == step[m][f[m - 1]]
           g == [i \in 0 .. m |-> IF i = m THEN next ELSE f[i]]
<1>5. next \in S
  <2>1. f[m - 1] \in S
    BY <1>3, <1>4
  <2> QED BY <2>1, <1>3
<1>6. g \in [0 .. m -> S] /\ g[0] = first
  BY <1>2, <1>3, <1>4, <1>5
<1>7. \A k \in 1 .. m : g[k] = step[k][g[k - 1]]
  <2> SUFFICES ASSUME NEW k \in 1 .. m PROVE g[k] = step[k][g[k - 1]]
    OBVIOUS
  <2>1. g[k - 1] = f[k - 1]
    BY <1>3
  <2>2. CASE k = m
    <3>1. g[k] = next
      BY <2>2, <1>3
    <3> QED BY <2>1, <2>2, <3>1
  <2>3. CASE k # m
    <3>1. k \in 1 .. m - 1 /\ g[k] = f[k]
      BY <2>3, <1>3
    <3>2. f[k] = step[k][f[k - 1]]
      BY <1>4, <3>1
    <3> HIDE DEF g
    <3> QED BY <2>1, <3>1, <3>2
  <2> QED BY <2>2, <2>3
<1>8. Good(m, g)
  <2> HIDE DEF g
  <2> QED BY <1>6, <1>7
<1> QED BY <1>8, <1>1

LEMMA Division ==
  ASSUME NEW x \in Nat, NEW d \in Nat, d > 0
  PROVE  /\ x = d * (x \div d) + (x % d) /\ x \div d \in Nat
         /\ x % d \in 0 .. d - 1
OBVIOUS

-----------------------------------------------------------------------------
(* The mesh, and iterations shared out statically.                           *)

LEMMA MeshSizes ==
  /\ ncx \in Nat /\ ncx > 0
  /\ ncy \in Nat /\ ncy > 0
  /\ ncz \in Nat /\ ncz > 0
<1>1. \A n \in {ncx, ncy, ncz} : n \in Nat \ {0}
  BY GridAssumption, Zenon
<1> QED BY <1>1

LEMMA Coordinates ==
  ASSUME NEW j \in Cells
  PROVE  CellX(j) \in Int /\ CellY(j) \in Int /\ CellZ(j) \in Int
<1>1. j \in Int
  BY DEF Cells
<1>2. j \div ncz \in Int
  BY <1>1, MeshSizes
<1> QED BY <1>1, <1>2, MeshSizes DEF CellX, CellY, CellZ

\* The destination of a particle is a cell, on either side of the mesh.
LEMMA ShiftInMesh ==
  ASSUME NEW j \in Cells, NEW d, d[1] \in Int, d[2] \in Int, d[3] \in Int
  PROVE  Shift(j, d) \in Cells
<1>1. ncx \in Nat /\ ncx > 0 /\ ncy \in Nat /\ ncy > 0 /\ ncz \in Nat /\ ncz > 0
  BY MeshSizes
<1>2. CellX(j) \in Int /\ CellY(j) \in Int /\ CellZ(j) \in Int
  BY Coordinates
<1> DEFINE x == (CellX(j) + d[1]) % ncx
           y == (CellY(j) + d[2]) % ncy
           z == (CellZ(j) + d[3]) % ncz
<1>3. x \in 0..(ncx - 1) /\ y \in 0..(ncy - 1) /\ z \in 0..(ncz - 1)
  BY <1>1, <1>2
<1> HIDE DEF x, y, z
<1>4. x * ncy + y \in 0..(ncx * ncy - 1)
  <2>1. x * ncy >= 0 /\ x * ncy \in Int
    BY <1>1, <1>3
  <2>2. (x + 1) * ncy <= ncx * ncy
    BY <1>1, <1>3
  <2>3. (x + 1) * ncy = x * ncy + ncy
    BY <1>1, <1>3
  <2> QED BY <2>1, <2>2, <2>3, <1>1, <1>3
<1> DEFINE w == x * ncy + y
           m == ncx * ncy
<1> HIDE DEF w, m
<1>5. w \in 0..(m - 1) /\ m \in Nat
  BY <1>1, <1>4 DEF w, m
<1>6. w * ncz + z \in 0..(m * ncz - 1)
  <2>1. w * ncz >= 0 /\ w * ncz \in Int
    BY <1>1, <1>5
  <2>2. (w + 1) * ncz <= m * ncz
    BY <1>1, <1>5
  <2>3. (w + 1) * ncz = w * ncz + ncz
    BY <1>1, <1>5
  <2> QED BY <2>1, <2>2, <2>3, <1>1, <1>3, <1>5
<1>7. Shift(j, d) = w * ncz + z
  BY DEF Shift, CellOf, w, x, y, z
<1> QED BY <1>6, <1>7 DEF Cells, NumCells, m

\* A static schedule gives an iteration to one thread.
LEMMA BlocksApart ==
  ASSUME NEW n \in Nat, NEW t \in Threads, NEW u \in Threads, t # u
  PROVE  StaticBlock(t, nbThreads, n) \cap StaticBlock(u, nbThreads, n) = {}
<1> DEFINE q == n \div nbThreads
           r == n % nbThreads
           First(x) == x * q + (IF x < r THEN x ELSE r)
           Beyond(x) == First(x) + q + (IF x < r THEN 1 ELSE 0)
<1>1. nbThreads \in Nat /\ nbThreads > 0 /\ q \in Nat /\ r \in Nat
  BY OptimizedAssumption
<1>2. \A x \in Threads : x \in Nat /\ x * q \in Nat
  BY <1>1 DEF Threads
<1> HIDE DEF q, r
<1>3. ASSUME NEW x \in Threads, NEW y \in Threads, x < y
      PROVE  Beyond(x) <= First(y)
  <2>1. x * q + q <= y * q
    <3>1. (x + 1) * q <= y * q
      BY <1>1, <1>2, <1>3
    <3>2. (x + 1) * q = x * q + q
      BY <1>1, <1>2
    <3> QED BY <3>1, <3>2
  <2> QED BY <2>1, <1>1, <1>2, <1>3
<1>4. \A x \in Threads : First(x) \in Int /\ Beyond(x) \in Int
  BY <1>1, <1>2
<1>5. \A x \in Threads : StaticBlock(x, nbThreads, n) = First(x)..(Beyond(x) - 1)
  <2> TAKE x \in Threads
  <2>1. StaticBlock(x, nbThreads, n) = First(x)..(First(x) + q - (IF x < r THEN 0 ELSE 1))
    BY DEF StaticBlock, q, r
  <2>2. First(x) + q - (IF x < r THEN 0 ELSE 1) = Beyond(x) - 1
    <3> HIDE DEF First
    <3>1. First(x) \in Int
      BY <1>4
    <3> QED BY <3>1, <1>1
  <2> HIDE DEF First, Beyond
  <2> QED BY <2>1, <2>2
<1> HIDE DEF First, Beyond
<1>6. t < u \/ u < t
  BY <1>2
<1>7. CASE t < u
  BY <1>7, <1>3, <1>4, <1>5
<1>8. CASE u < t
  BY <1>8, <1>3, <1>4, <1>5
<1> QED BY <1>6, <1>7, <1>8

\* Every iteration is in the block of a thread.
LEMMA BlocksCover ==
  ASSUME NEW n \in Nat
  PROVE  /\ \A t \in Threads : StaticBlock(t, nbThreads, n) \subseteq 0 .. n - 1
         /\ \A i \in 0 .. n - 1 : \E t \in Threads : i \in StaticBlock(t, nbThreads, n)
<1> DEFINE q == n \div nbThreads
           r == n % nbThreads
           M == nbThreads
           First(x) == x * q + (IF x < r THEN x ELSE r)
<1>1. M \in Nat /\ M > 0
  BY OptimizedAssumption
<1>2. q \in Nat /\ r \in 0 .. M - 1 /\ n = M * q + r
  BY <1>1, Division
<1>3. \A t \in Threads : StaticBlock(t, nbThreads, n) = First(t) .. First(t) + q - (IF t < r THEN 0 ELSE 1)
  BY DEF StaticBlock
<1>4. Threads = 0 .. M - 1
  BY DEF Threads
<1> HIDE DEF q, r, M
<1>5. \A x \in 0 .. M : x * q \in Nat /\ First(x) \in Nat
  <2> TAKE x \in 0 .. M
  <2>1. x \in Nat
    BY <1>1
  <2>2. x * q \in Nat
    BY <2>1, <1>2
  <2> QED BY <2>1, <2>2, <1>2
<1>6. First(0) = 0 /\ First(M) = n
  <2>1. 0 * q = 0
    BY <1>2
  <2> QED BY <2>1, <1>1, <1>2
<1>7. \A x \in 0 .. M - 1 : First(x + 1) = First(x) + q + (IF x < r THEN 1 ELSE 0)
  <2> TAKE x \in 0 .. M - 1
  <2>1. (x + 1) * q = x * q + q
    BY <1>1, <1>2
  <2>2. x * q \in Nat /\ x \in Nat
    BY <1>1, <1>5
  <2> QED BY <2>1, <2>2, <1>1, <1>2
<1>8. \A x \in 0 .. M : x * q <= M * q
  BY <1>1, <1>2
<1>9. \A x \in 0 .. M : First(x) <= n
  <2> TAKE x \in 0 .. M
  <2>1. x * q <= M * q /\ x * q \in Nat /\ M * q \in Nat
    BY <1>1, <1>2, <1>5, <1>8
  <2> QED BY <2>1, <1>1, <1>2
<1> HIDE DEF First
<1>10. \A t \in Threads : StaticBlock(t, nbThreads, n) = First(t) .. First(t + 1) - 1
  <2> TAKE t \in Threads
  <2>1. t \in 0 .. M - 1 /\ First(t) \in Nat /\ First(t + 1) = First(t) + q + (IF t < r THEN 1 ELSE 0)
    BY <1>1, <1>4, <1>5, <1>7
  <2>2. First(t) + q - (IF t < r THEN 0 ELSE 1) = First(t + 1) - 1
    BY <2>1, <1>2
  <2> QED BY <2>2, <1>3
<1>11. \A t \in Threads : StaticBlock(t, nbThreads, n) \subseteq 0 .. n - 1
  <2> TAKE t \in Threads
  <2>1. First(t) \in Nat /\ First(t + 1) \in Nat /\ First(t + 1) <= n
    BY <1>1, <1>4, <1>5, <1>9
  <2> QED BY <2>1, <1>10
<1>12. ASSUME NEW i \in 0 .. n - 1 PROVE \E t \in Threads : i \in StaticBlock(t, nbThreads, n)
  <2> DEFINE S == {x \in 0 .. M - 1 : First(x) <= i}
             t == Max(S)
  <2>1. 0 \in S /\ S \subseteq 0 .. M - 1 /\ M - 1 \in Nat
    BY <1>1, <1>6
  <2>2. t \in S /\ \A m \in S : m <= t
    BY <2>1, MaxOf
  <2> HIDE DEF t
  <2>3. t \in 0 .. M - 1 /\ First(t) <= i /\ t + 1 \notin S
    BY <2>2, <1>1
  <2>4. i < First(t + 1)
    <3>1. CASE t + 1 = M
      BY <3>1, <1>2, <1>6, <1>12
    <3>2. CASE t + 1 # M
      <4>1. t + 1 \in 0 .. M - 1
        BY <2>3, <3>2, <1>1
      <4>2. First(t + 1) \in Nat /\ ~(First(t + 1) <= i)
        BY <2>3, <4>1, <1>5, <1>1
      <4> QED BY <4>2, <1>12
    <3> QED BY <3>1, <3>2
  <2>5. First(t) \in Nat /\ First(t + 1) \in Nat
    BY <2>3, <1>1, <1>5
  <2>6. i \in First(t) .. First(t + 1) - 1
    BY <2>3, <2>4, <2>5, <1>12
  <2> QED BY <2>3, <2>6, <1>4, <1>10
<1> QED BY <1>11, <1>12

-----------------------------------------------------------------------------
(* The charge of a cell, thread after thread, as in ParticlesProofs.         *)

ChargeTyped == depositThread \in [Threads -> [Cells -> Nat]]

AddsUp(f, j) == f = [t \in Threads |-> depositThread[t][j] + (IF t = 0 THEN 0 ELSE f[t - 1])]

ChargeAdds(f, j) ==
  /\ ChargeOf(j) = f[nbThreads - 1]
  /\ \A t \in Threads : f[t] \in Nat /\ f[t] = depositThread[t][j] + (IF t = 0 THEN 0 ELSE f[t - 1])

LEMMA AddsUpExist ==
  ASSUME ChargeTyped, NEW j \in Cells
  PROVE  \E f : AddsUp(f, j)
<1> DEFINE n == nbThreads - 1
           Step(k, x) == depositThread[k][j] + x
           step == [k \in 1 .. n |-> [x \in Nat |-> Step(k, x)]]
<1>1. n \in Nat /\ Threads = 0 .. n /\ \A t \in Threads : depositThread[t][j] \in Nat
  BY OptimizedAssumption DEF Threads, ChargeTyped
<1>2. \A k \in 1 .. n, x \in Nat : step[k][x] \in Nat
  <2>1. \A k \in 1 .. n, x \in Nat : Step(k, x) \in Nat
    BY <1>1
  <2> HIDE DEF Step
  <2> QED BY <2>1
<1>3. depositThread[0][j] \in Nat
  BY <1>1
<1>4. PICK f \in [0 .. n -> Nat] : f[0] = depositThread[0][j] /\ \A k \in 1 .. n : f[k] = step[k][f[k - 1]]
  <2> HIDE DEF step, n
  <2>1. \E f : Recurs(f, n, Nat, depositThread[0][j], step)
    BY <1>1, <1>2, <1>3, Recursion
  <2> QED BY <2>1 DEF Recurs
<1>5. \A k \in 1 .. n : f[k] = depositThread[k][j] + f[k - 1]
  <2> SUFFICES ASSUME NEW k \in 1 .. n PROVE f[k] = Step(k, f[k - 1])
    OBVIOUS
  <2>1. f[k - 1] \in Nat
    BY <1>1, <1>4
  <2> HIDE DEF Step
  <2> QED BY <2>1, <1>4
<1> HIDE DEF n, step
<1>6. \A t \in Threads : f[t] = depositThread[t][j] + (IF t = 0 THEN 0 ELSE f[t - 1])
  <2> TAKE t \in Threads
  <2>1. CASE t = 0
    BY <1>1, <1>4, <2>1
  <2>2. CASE t # 0
    BY <1>1, <1>5, <2>2
  <2> QED BY <2>1, <2>2
<1>7. f = [t \in Threads |-> f[t]]
  BY <1>1, <1>4
<1>8. AddsUp(f, j)
  BY <1>6, <1>7, Zenon DEF AddsUp
<1> QED BY <1>8

LEMMA ChargeAdded ==
  ChargeTyped => \A j \in Cells : \E f : ChargeAdds(f, j)
<1> SUFFICES ASSUME ChargeTyped, NEW j \in Cells PROVE \E f : ChargeAdds(f, j)
  OBVIOUS
<1> DEFINE f == CHOOSE g : AddsUp(g, j)
<1>1. AddsUp(f, j)
  BY AddsUpExist
<1>2. ChargeOf(j) = f[nbThreads - 1]
  BY DEF ChargeOf, AddsUp
<1> HIDE DEF f
<1>3. \A t \in Threads : f[t] = depositThread[t][j] + (IF t = 0 THEN 0 ELSE f[t - 1])
  <2> DEFINE g == [t \in Threads |-> depositThread[t][j] + (IF t = 0 THEN 0 ELSE f[t - 1])]
  <2>1. f = g
    BY <1>1, Zenon DEF AddsUp
  <2>2. \A t \in Threads : g[t] = depositThread[t][j] + (IF t = 0 THEN 0 ELSE f[t - 1])
    OBVIOUS
  <2> HIDE DEF g
  <2> QED BY <2>1, <2>2
<1>4. Threads \subseteq Nat /\ \A t \in Threads : (t # 0 => t - 1 \in Threads) /\ depositThread[t][j] \in Nat
  BY OptimizedAssumption DEF Threads, ChargeTyped
<1>5. \A t \in Threads : f[t] \in Nat
  <2> DEFINE Bad == {t \in Threads : f[t] \notin Nat}
  <2> SUFFICES ASSUME Bad # {} PROVE FALSE
    OBVIOUS
  <2>1. PICK k \in Bad : \A m \in Bad : k <= m
    <3>1. Bad \subseteq Nat
      BY <1>4
    <3> HIDE DEF Bad
    <3> QED BY <3>1, LeastNatural
  <2>2. k \in Threads /\ f[k] \notin Nat
    OBVIOUS
  <2>3. k # 0
    BY <1>3, <1>4, <2>2
  <2>4. k - 1 \in Threads /\ ~(k <= k - 1)
    BY <1>4, <2>2, <2>3
  <2>5. k - 1 \notin Bad
    <3> HIDE DEF Bad
    <3> QED BY <2>1, <2>4
  <2>6. f[k - 1] \in Nat
    BY <2>4, <2>5
  <2> QED BY <1>3, <1>4, <2>2, <2>3, <2>6
<1>6. ChargeAdds(f, j)
  BY <1>2, <1>3, <1>5, Zenon DEF ChargeAdds
<1> QED BY <1>6

LEMMA ChargeAddedNext ==
  (ChargeTyped => \A j \in Cells : \E f : ChargeAdds(f, j))'
<1>1. ChargeTyped => \A j \in Cells : \E f : ChargeAdds(f, j)
  BY ChargeAdded
<1> QED BY <1>1, PTL

\* Thread t deposits in cell c, and no other.
LEMMA ChargeGrows ==
  ASSUME ChargeTyped, NEW t \in Threads, NEW c \in Cells, depositThread' = [depositThread EXCEPT ![t][c] = @ + 1]
  PROVE  /\ ChargeTyped'
         /\ \A j \in Cells : /\ ChargeOf(j) \in Nat
                             /\ ChargeOf(j)' = ChargeOf(j) + (IF j = c THEN 1 ELSE 0)
<1> DEFINE More(x) == IF x THEN 1 ELSE 0
<1>1. depositThread' \in [Threads -> [Cells -> Nat]]
  BY DEF ChargeTyped
<1>2. \A u \in Threads, j \in Cells : depositThread'[u][j] = depositThread[u][j] + More(u = t /\ j = c)
  BY DEF ChargeTyped
<1>3. ChargeTyped'
  BY <1>1 DEF ChargeTyped
<1>4. ASSUME NEW j \in Cells
      PROVE  ChargeOf(j) \in Nat /\ ChargeOf(j)' = ChargeOf(j) + More(j = c)
  <2>1. PICK f : ChargeAdds(f, j)
    BY ChargeAdded
  <2>2. PICK g : ChargeAdds(g, j)'
    BY <1>3, ChargeAddedNext
  <2>3. /\ \A u \in Threads : f[u] \in Nat /\ f[u] = depositThread[u][j] + (IF u = 0 THEN 0 ELSE f[u - 1])
        /\ \A u \in Threads : g[u] \in Nat /\ g[u] = depositThread'[u][j] + (IF u = 0 THEN 0 ELSE g[u - 1])
        /\ ChargeOf(j) = f[nbThreads - 1] /\ ChargeOf(j)' = g[nbThreads - 1]
    BY <2>1, <2>2 DEF ChargeAdds
  <2>4. /\ Threads \subseteq Nat /\ nbThreads - 1 \in Threads
        /\ \A u \in Threads : u <= nbThreads - 1 /\ (u # 0 => u - 1 \in Threads) /\ depositThread[u][j] \in Nat
    BY OptimizedAssumption DEF Threads, ChargeTyped
  <2>5. \A u \in Threads : g[u] = f[u] + More(t <= u /\ j = c)
    <3> DEFINE Bad == {u \in Threads : g[u] # f[u] + More(t <= u /\ j = c)}
    <3> SUFFICES ASSUME Bad # {} PROVE FALSE
      OBVIOUS
    <3>1. PICK k \in Bad : \A m \in Bad : k <= m
      <4>1. Bad \subseteq Nat
        BY <2>4
      <4> HIDE DEF Bad
      <4> QED BY <4>1, LeastNatural
    <3>2. k \in Threads /\ k \in Nat /\ t \in Nat /\ g[k] # f[k] + More(t <= k /\ j = c)
      BY <2>4
    <3>3. depositThread[k][j] \in Nat /\ depositThread'[k][j] = depositThread[k][j] + More(k = t /\ j = c)
      BY <1>2, <2>4, <3>2
    <3>4. CASE k = 0
      BY <2>3, <3>2, <3>3, <3>4
    <3>5. CASE k # 0
      <4>1. k - 1 \in Threads /\ ~(k <= k - 1)
        BY <2>4, <3>2, <3>5
      <4>2. k - 1 \notin Bad
        <5> HIDE DEF Bad
        <5> QED BY <3>1, <4>1
      <4>3. g[k - 1] = f[k - 1] + More(t <= k - 1 /\ j = c)
        BY <4>1, <4>2
      <4>4. f[k - 1] \in Nat /\ f[k] = depositThread[k][j] + f[k - 1] /\ g[k] = depositThread'[k][j] + g[k - 1]
        BY <2>3, <3>2, <3>5, <4>1
      <4>5. More(t <= k /\ j = c) = More(t <= k - 1 /\ j = c) + More(k = t /\ j = c)
        BY <3>2
      <4>6. More(t <= k - 1 /\ j = c) \in Nat /\ More(k = t /\ j = c) \in Nat
        OBVIOUS
      <4> HIDE DEF More
      <4> QED BY <3>2, <3>3, <4>3, <4>4, <4>5, <4>6
    <3> QED BY <3>4, <3>5
  <2> QED BY <2>3, <2>4, <2>5
<1> QED BY <1>3, <1>4

\* At the beginning of a step there is none.
LEMMA ChargeReset ==
  ASSUME depositThread' = [t \in Threads |-> NoCharge]
  PROVE  ChargeTyped' /\ \A j \in Cells : ChargeOf(j)' = 0
<1>1. ChargeTyped' /\ \A t \in Threads, j \in Cells : depositThread'[t][j] = 0
  BY DEF ChargeTyped, NoCharge
<1>2. ASSUME NEW j \in Cells PROVE ChargeOf(j)' = 0
  <2>1. PICK g : ChargeAdds(g, j)'
    BY <1>1, ChargeAddedNext
  <2>2. Threads \subseteq Nat /\ nbThreads - 1 \in Threads /\ \A u \in Threads : u # 0 => u - 1 \in Threads
    BY OptimizedAssumption DEF Threads
  <2>3. \A u \in Threads : (u = 0 => g[u] = 0) /\ (u # 0 => g[u] = g[u - 1])
    <3>1. \A u \in Threads : g[u] \in Nat /\ g[u] = depositThread'[u][j] + (IF u = 0 THEN 0 ELSE g[u - 1])
      BY <2>1 DEF ChargeAdds
    <3>2. \A u \in Threads : g[u] = 0 + (IF u = 0 THEN 0 ELSE g[u - 1])
      BY <1>1, <3>1
    <3> QED BY <2>2, <3>1, <3>2
  <2>4. \A u \in Threads : g[u] = 0
    <3> DEFINE Bad == {u \in Threads : g[u] # 0}
    <3> SUFFICES ASSUME Bad # {} PROVE FALSE
      OBVIOUS
    <3>1. PICK k \in Bad : \A m \in Bad : k <= m
      <4>1. Bad \subseteq Nat
        BY <2>2
      <4> HIDE DEF Bad
      <4> QED BY <4>1, LeastNatural
    <3>2. k \in Threads /\ k \in Nat /\ g[k] # 0 /\ k # 0
      BY <2>2, <2>3
    <3>3. k - 1 \in Threads /\ ~(k <= k - 1)
      BY <2>2, <3>2
    <3>4. k - 1 \notin Bad
      <4> HIDE DEF Bad
      <4> QED BY <3>1, <3>3
    <3>5. g[k] = g[k - 1]
      BY <2>3, <3>2
    <3> QED BY <3>2, <3>3, <3>4, <3>5
  <2> QED BY <2>1, <2>2, <2>4 DEF ChargeAdds
<1> QED BY <1>1, <1>2

LEMMA ChargeSame ==
  ASSUME depositThread' = depositThread
  PROVE  (ChargeTyped' <=> ChargeTyped) /\ \A j : ChargeOf(j)' = ChargeOf(j)
BY DEF ChargeTyped, ChargeOf

-----------------------------------------------------------------------------
(* The particles written whose charge is not deposited yet.                  *)

Undeposited(j) == {t \in Threads : Moved(t) /\ push[t].cell = j}

LEMMA ThreadsCounted ==
  ASSUME NEW S, S \subseteq Threads, NEW t \in Threads, t \notin S
  PROVE  Cardinality(S) \in Nat /\ Cardinality(S \cup {t}) = Cardinality(S) + 1
<1>1. IsFiniteSet(Threads)
  BY OptimizedAssumption, FS_Interval DEF Threads
<1>2. IsFiniteSet(S)
  BY <1>1, FS_Subset
<1> QED BY <1>2, FS_AddElement, FS_CardinalityType

\* One more when thread t has written its particle, one less when it has deposited the charge.
LEMMA OneMoreMoved ==
  ASSUME NEW t \in Threads, ~Moved(t), Moved(t)', push'[t].cell = push[t].cell,
         \A u \in Threads : u # t => push'[u] = push[u]
  PROVE  \A j : /\ NotYetDeposited(j) \in Nat
                /\ NotYetDeposited(j)' = NotYetDeposited(j) + (IF j = push[t].cell THEN 1 ELSE 0)
<1> TAKE j
<1>1. \A u \in Threads : u # t => (Moved(u)' <=> Moved(u))
  BY DEF Moved
<1>2. Undeposited(j)' = IF j = push[t].cell THEN Undeposited(j) \cup {t} ELSE Undeposited(j)
  BY <1>1 DEF Undeposited
<1>3. t \notin Undeposited(j) /\ Undeposited(j) \subseteq Threads
  BY DEF Undeposited
<1>4. Cardinality(Undeposited(j)) \in Nat /\ Cardinality(Undeposited(j) \cup {t}) = Cardinality(Undeposited(j)) + 1
  BY <1>3, ThreadsCounted
<1>5. Cardinality(Undeposited(j)') = Cardinality(Undeposited(j)) + (IF j = push[t].cell THEN 1 ELSE 0)
  BY <1>2, <1>4
<1>6. NotYetDeposited(j) = Cardinality(Undeposited(j)) /\ NotYetDeposited(j)' = Cardinality(Undeposited(j)')
  BY DEF NotYetDeposited, Undeposited
<1> QED BY <1>4, <1>5, <1>6

LEMMA OneLessMoved ==
  ASSUME NEW t \in Threads, Moved(t), ~Moved(t)',
         \A u \in Threads : u # t => push'[u] = push[u]
  PROVE  \A j : /\ NotYetDeposited(j)' \in Nat
                /\ NotYetDeposited(j) = NotYetDeposited(j)' + (IF j = push[t].cell THEN 1 ELSE 0)
<1> TAKE j
<1>1. \A u \in Threads : u # t => (Moved(u)' <=> Moved(u))
  BY DEF Moved
<1>2. Undeposited(j) = IF j = push[t].cell THEN Undeposited(j)' \cup {t} ELSE Undeposited(j)'
  BY <1>1 DEF Undeposited
<1>3. t \notin Undeposited(j)' /\ Undeposited(j)' \subseteq Threads
  BY DEF Undeposited
<1>4. Cardinality(Undeposited(j)') \in Nat /\ Cardinality(Undeposited(j)' \cup {t}) = Cardinality(Undeposited(j)') + 1
  BY <1>3, ThreadsCounted
<1>5. Cardinality(Undeposited(j)) = Cardinality(Undeposited(j)') + (IF j = push[t].cell THEN 1 ELSE 0)
  BY <1>2, <1>4
<1>6. NotYetDeposited(j) = Cardinality(Undeposited(j)) /\ NotYetDeposited(j)' = Cardinality(Undeposited(j)')
  BY DEF NotYetDeposited, Undeposited
<1> QED BY <1>4, <1>5, <1>6

LEMMA AsManyMoved ==
  ASSUME \A u \in Threads : (Moved(u)' <=> Moved(u)) /\ (Moved(u) => push'[u].cell = push[u].cell)
  PROVE  \A j : NotYetDeposited(j)' = NotYetDeposited(j)
<1> TAKE j
<1>1. Undeposited(j)' = Undeposited(j)
  BY DEF Undeposited
<1>2. NotYetDeposited(j) = Cardinality(Undeposited(j)) /\ NotYetDeposited(j)' = Cardinality(Undeposited(j)')
  BY DEF NotYetDeposited, Undeposited
<1> QED BY <1>1, <1>2

LEMMA NoneMoved ==
  (\A u \in Threads : ~Moved(u)) => \A j : NotYetDeposited(j) = 0
<1>1. Cardinality({}) = 0
  BY FS_EmptySet
<1>2. (\A u \in Threads : ~Moved(u)) => \A j : Undeposited(j) = {}
  BY DEF Undeposited
<1>3. \A j : NotYetDeposited(j) = Cardinality(Undeposited(j))
  BY DEF NotYetDeposited, Undeposited
<1> QED BY <1>1, <1>2, <1>3

LEMMA NoneMovedNext ==
  ((\A u \in Threads : ~Moved(u)) => \A j : NotYetDeposited(j) = 0)'
<1>1. (\A u \in Threads : ~Moved(u)) => \A j : NotYetDeposited(j) = 0
  BY NoneMoved
<1> QED BY <1>1, PTL

-----------------------------------------------------------------------------
(* The inductive invariant.                                                  *)

Kinds == {PRIVATE, SHARED}
PushPC == {"idle", "serial_take", "serial_write", "concurrent", "returned"}
Push == [pc : PushPC, from : Cells, cell : Cells, p : Nat, index : Nat]
Colours == {0, 1} \X {0, 1} \X {0, 1}

TypesInv ==
  /\ phase \in {"create", "core", "append", "done"}
  /\ nbCreated \in 0 .. nbParticles /\ idStep \in Nat /\ color \in Colours
  /\ bagsCur \in [Cells -> Seq(Nat)]
  /\ bagsNexts \in [Kinds -> [Cells -> Seq(Nat)]]
  /\ push \in [Threads -> Push]
  /\ ChargeTyped /\ deposit \in [Cells -> Nat] /\ depositCells \in [Cells -> Nat]
  /\ appended \subseteq Threads

\* The cells of the colours that have been visited are empty ...
Rank(c) == 4 * c[1] + 2 * c[2] + c[3]
ColoursInv ==
  \A c \in Colours, j \in Cells :
    phase = "core" /\ Rank(c) < Rank(color) /\ BlockOf(j) \in Blocks(c) => bagsCur[j] = <<>>

\* ... and so are, in the append loop, the bags that are not filled or appended any more.
PhasesInv ==
  /\ phase # "create" => deposit = NoCharge
  /\ phase \in {"core", "append"} => idStep < nbSteps
  /\ phase \in {"create", "done"} => \A kind \in Kinds, j \in Cells : bagsNexts[kind][j] = <<>>
  /\ phase = "append" => \A j \in Cells :
       IF Appended(j) THEN depositCells[j] = ChargeOf(j) /\ \A kind \in Kinds : bagsNexts[kind][j] = <<>>
       ELSE bagsCur[j] = <<>>

\* A particle is at one place, or at two while its push has returned and it is not yet
\* removed from the bag that is read.
InCur(j, i) == j \in Cells /\ i \in 1 .. Len(bagsCur[j])
InNext(kind, j, i) == kind \in Kinds /\ j \in Cells /\ i \in 1 .. Len(bagsNexts[kind][j])
Passed(j, i) == i = 1 /\ \E t \in Threads : Moved(t) /\ push[t].from = j
CurNumbered == \A j, i : InCur(j, i) => bagsCur[j][i] \in 1 .. nbCreated
NextNumbered == \A kind, j, i : InNext(kind, j, i) => bagsNexts[kind][j][i] \in 1 .. nbCreated
OnceInCur == \A j, i, k, m : InCur(j, i) /\ InCur(k, m) /\ bagsCur[j][i] = bagsCur[k][m] => j = k /\ i = m
OnceInNext ==
  \A a, j, i, b, k, m :
    InNext(a, j, i) /\ InNext(b, k, m) /\ bagsNexts[a][j][i] = bagsNexts[b][k][m] => a = b /\ j = k /\ i = m
InBothPassed ==
  \A j, i, b, k, m : InCur(j, i) /\ InNext(b, k, m) /\ bagsCur[j][i] = bagsNexts[b][k][m] => Passed(j, i)
NumberedInv == CurNumbered /\ NextNumbered /\ OnceInCur /\ OnceInNext /\ InBothPassed

\* A push moves the first particle of a cell of its thread.
PushOf(t) ==
  /\ phase = "core"
  /\ BlockOf(push[t].from) \in BlocksOfThread(t)
  /\ bagsCur[push[t].from] # <<>> /\ push[t].p = Head(bagsCur[push[t].from])
  /\ \E d \in Displacements[push[t].p] : push[t].cell = Shift(push[t].from, d)
  /\ push[t].pc = "serial_write" => push[t].index = Len(bagsNexts[PRIVATE][push[t].cell])
PushInv == \A t \in Threads : push[t].pc # "idle" => PushOf(t)

OptInv == TypesInv /\ ColoursInv /\ PhasesInv /\ NumberedInv /\ PushInv

-----------------------------------------------------------------------------
(* The threads have cells of their own.                                      *)

LEMMA ColoursFinite ==
  ASSUME NEW c \in Colours
  PROVE  Cardinality(Blocks(c)) \in Nat
<1> DEFINE A == BlockStarts(c[1], ncx)
           B == BlockStarts(c[2], ncy)
           C == BlockStarts(c[3], ncz)
<1>1. \A n \in {ncx, ncy, ncz} : \A x : IsFiniteSet(BlockStarts(x, n))
  <2> TAKE n \in {ncx, ncy, ncz}
  <2> TAKE x
  <2>1. n \in Nat
    BY MeshSizes
  <2>2. IsFiniteSet(0 .. n - 1)
    BY <2>1, FS_Interval
  <2>3. BlockStarts(x, n) \subseteq 0 .. n - 1
    BY DEF BlockStarts
  <2> QED BY <2>2, <2>3, FS_Subset
<1>2. IsFiniteSet(A) /\ IsFiniteSet(B) /\ IsFiniteSet(C)
  BY <1>1
<1> HIDE DEF A, B, C
<1>3. IsFiniteSet(B \X C)
  BY <1>2, FS_Product
<1>4. IsFiniteSet(A \X (B \X C))
  BY <1>2, <1>3, FS_Product
<1>5. IsFiniteSet(A \X B \X C)
  <2> DEFINE f == [p \in A \X (B \X C) |-> <<p[1], p[2][1], p[2][2]>>]
  <2>1. f \in Surjection(A \X (B \X C), A \X B \X C)
    <3>1. \A y \in A \X B \X C : \E p \in A \X (B \X C) : f[p] = y
      <4> SUFFICES ASSUME NEW y \in A \X B \X C PROVE \E p \in A \X (B \X C) : f[p] = y
        OBVIOUS
      <4>1. <<y[1], <<y[2], y[3]>>>> \in A \X (B \X C)
        OBVIOUS
      <4>2. f[<<y[1], <<y[2], y[3]>>>>] = y
        BY <4>1
      <4> QED BY <4>1, <4>2
    <3>2. f \in [A \X (B \X C) -> A \X B \X C]
      OBVIOUS
    <3> QED BY <3>1, <3>2, Zenon DEF Surjection
  <2> QED BY <2>1, <1>4, FS_Surjection, Zenon
<1>6. IsFiniteSet(Blocks(c))
  BY <1>5 DEF Blocks, A, B, C
<1> QED BY <1>6, FS_CardinalityType

LEMMA ReadersApart ==
  ASSUME TypesInv, NEW t \in Threads, NEW u \in Threads, t # u,
         NEW b, b \in BlocksOfThread(t)
  PROVE  b \notin BlocksOfThread(u)
<1> DEFINE n == Cardinality(Blocks(color))
<1>1. n \in Nat
  BY ColoursFinite DEF TypesInv
<1> HIDE DEF n
<1>2. StaticBlock(t, nbThreads, n) \cap StaticBlock(u, nbThreads, n) = {}
  BY <1>1, BlocksApart
<1> QED BY <1>2 DEF BlocksOfThread, n

LEMMA PushesApart ==
  ASSUME OptInv, NEW t \in Threads, NEW u \in Threads, t # u, push[t].pc # "idle", push[u].pc # "idle"
  PROVE  push[t].from # push[u].from
BY ReadersApart DEF OptInv, PushInv, PushOf

\* The colour, the block of a cell and the shares of the threads depend on color only.
LEMMA SharesSame ==
  ASSUME color' = color
  PROVE  \A t : BlocksOfThread(t)' = BlocksOfThread(t)
BY DEF BlocksOfThread

-----------------------------------------------------------------------------
(* Bags are sequences without repetition.                                    *)

LEMMA AppendSlots ==
  ASSUME NEW s \in Seq(Nat), NEW x \in Nat
  PROVE  /\ Append(s, x) \in Seq(Nat) /\ Len(Append(s, x)) = Len(s) + 1 /\ Len(s) \in Nat
         /\ \A i \in 1 .. Len(s) + 1 : Append(s, x)[i] = IF i = Len(s) + 1 THEN x ELSE s[i]
         /\ Items(Append(s, x)) = Items(s) \cup {x}
<1>1. /\ Append(s, x) \in Seq(Nat) /\ Len(Append(s, x)) = Len(s) + 1 /\ Len(s) \in Nat
      /\ \A i \in 1 .. Len(s) + 1 : Append(s, x)[i] = IF i = Len(s) + 1 THEN x ELSE s[i]
  OBVIOUS
<1>2. DOMAIN Append(s, x) = 1 .. Len(s) + 1 /\ DOMAIN s = 1 .. Len(s)
  BY <1>1
<1>3. Items(Append(s, x)) \subseteq Items(s) \cup {x}
  BY <1>1, <1>2 DEF Items
<1>4. ASSUME NEW i \in 1 .. Len(s) PROVE s[i] \in Items(Append(s, x))
  <2>1. i \in 1 .. Len(s) + 1 /\ Append(s, x)[i] = s[i]
    BY <1>1
  <2> QED BY <1>2, <2>1 DEF Items
<1>5. x \in Items(Append(s, x))
  <2>1. Len(s) + 1 \in 1 .. Len(s) + 1
    BY <1>1
  <2> QED BY <1>1, <1>2, <2>1 DEF Items
<1> QED BY <1>1, <1>2, <1>3, <1>4, <1>5 DEF Items

LEMMA TailSlots ==
  ASSUME NEW s \in Seq(Nat), s # <<>>
  PROVE  /\ Tail(s) \in Seq(Nat) /\ Len(s) \in Nat /\ Len(s) > 0 /\ Len(Tail(s)) = Len(s) - 1
         /\ Head(s) = s[1]
         /\ \A i \in 1 .. Len(s) - 1 : Tail(s)[i] = s[i + 1]
OBVIOUS

LEMMA ConcatSlots ==
  ASSUME NEW s \in Seq(Nat), NEW u \in Seq(Nat)
  PROVE  /\ s \o u \in Seq(Nat) /\ Len(s \o u) = Len(s) + Len(u) /\ Len(s) \in Nat /\ Len(u) \in Nat
         /\ \A i \in 1 .. Len(s) + Len(u) : (s \o u)[i] = IF i <= Len(s) THEN s[i] ELSE u[i - Len(s)]
         /\ Items(s \o u) = Items(s) \cup Items(u)
<1>1. /\ s \o u \in Seq(Nat) /\ Len(s \o u) = Len(s) + Len(u) /\ Len(s) \in Nat /\ Len(u) \in Nat
      /\ \A i \in 1 .. Len(s) + Len(u) : (s \o u)[i] = IF i <= Len(s) THEN s[i] ELSE u[i - Len(s)]
  OBVIOUS
<1>2. DOMAIN (s \o u) = 1 .. Len(s) + Len(u) /\ DOMAIN s = 1 .. Len(s) /\ DOMAIN u = 1 .. Len(u)
  BY <1>1
<1>3. ASSUME NEW i \in 1 .. Len(s) + Len(u) PROVE (s \o u)[i] \in Items(s) \cup Items(u)
  <2>1. CASE i <= Len(s)
    BY <1>1, <1>2, <2>1 DEF Items
  <2>2. CASE ~(i <= Len(s))
    <3>1. i - Len(s) \in 1 .. Len(u) /\ (s \o u)[i] = u[i - Len(s)]
      BY <1>1, <2>2
    <3> QED BY <1>2, <3>1 DEF Items
  <2> QED BY <2>1, <2>2
<1>4. ASSUME NEW i \in 1 .. Len(s) PROVE s[i] \in Items(s \o u)
  <2>1. i \in 1 .. Len(s) + Len(u) /\ (s \o u)[i] = s[i]
    BY <1>1
  <2> QED BY <1>2, <2>1 DEF Items
<1>5. ASSUME NEW i \in 1 .. Len(u) PROVE u[i] \in Items(s \o u)
  <2>1. i + Len(s) \in 1 .. Len(s) + Len(u) /\ ~(i + Len(s) <= Len(s)) /\ i + Len(s) - Len(s) = i
    BY <1>1
  <2>2. (s \o u)[i + Len(s)] = u[i]
    BY <1>1, <2>1
  <2> QED BY <1>2, <2>1, <2>2 DEF Items
<1>6. Items(s \o u) = Items(s) \cup Items(u)
  <2>1. Items(s \o u) \subseteq Items(s) \cup Items(u)
    BY <1>2, <1>3 DEF Items
  <2>2. Items(s) \subseteq Items(s \o u)
    BY <1>2, <1>4 DEF Items
  <2>3. Items(u) \subseteq Items(s \o u)
    BY <1>2, <1>5 DEF Items
  <2> QED BY <2>1, <2>2, <2>3
<1> QED BY <1>1, <1>6

LEMMA EmptySlots ==
  <<>> \in Seq(Nat) /\ Len(<<>>) = 0 /\ Items(<<>>) = {} /\ \A s \in Seq(Nat) : <<>> \o s = s /\ s \o <<>> = s
<1>1. DOMAIN <<>> = {}
  OBVIOUS
<1> QED BY <1>1 DEF Items

LEMMA ItemsOf ==
  ASSUME NEW s \in Seq(Nat)
  PROVE  \A x : x \in Items(s) <=> \E i \in 1 .. Len(s) : s[i] = x
BY DEF Items

-----------------------------------------------------------------------------
(* Steps that move no particle.                                              *)

BagsSame == bagsCur' = bagsCur /\ bagsNexts' = bagsNexts /\ nbCreated' = nbCreated

LEMMA NumberedSame ==
  ASSUME NumberedInv, BagsSame, \A j, i : InCur(j, i) /\ Passed(j, i) => Passed(j, i)'
  PROVE  NumberedInv'
<1>1. \A j, i, k : (InCur(j, i)' <=> InCur(j, i)) /\ (InNext(k, j, i)' <=> InNext(k, j, i))
  BY DEF BagsSame, InCur, InNext
<1>2. bagsCur' = bagsCur /\ bagsNexts' = bagsNexts /\ nbCreated' = nbCreated
  BY DEF BagsSame
<1>3. CurNumbered'
  BY <1>1, <1>2 DEF NumberedInv, CurNumbered
<1>4. NextNumbered'
  BY <1>1, <1>2 DEF NumberedInv, NextNumbered
<1>5. OnceInCur'
  BY <1>1, <1>2 DEF NumberedInv, OnceInCur
<1>6. OnceInNext'
  BY <1>1, <1>2 DEF NumberedInv, OnceInNext
<1>7. InBothPassed'
  BY <1>1, <1>2 DEF NumberedInv, InBothPassed
<1> QED BY <1>3, <1>4, <1>5, <1>6, <1>7 DEF NumberedInv

\* As long as the registers of a push do not change, nor what they are compared with.
LEMMA PushSame ==
  ASSUME TypesInv, NEW u \in Threads, push[u].pc # "idle" => PushOf(u),
         push'[u] = push[u], UNCHANGED <<phase, color>>,
         bagsCur'[push[u].from] = bagsCur[push[u].from],
         push[u].pc = "serial_write" => Len(bagsNexts'[PRIVATE][push[u].cell]) = Len(bagsNexts[PRIVATE][push[u].cell])
  PROVE  (push[u].pc # "idle" => PushOf(u))'
<1>1. BlocksOfThread(u)' = BlocksOfThread(u)
  BY SharesSame
<1> QED BY <1>1 DEF PushOf

-----------------------------------------------------------------------------
(* Steps that move one.                                                      *)

\* A particle is created, in a cell.
Adds(j) ==
  /\ bagsCur' = [bagsCur EXCEPT ![j] = Append(@, nbCreated')]
  /\ nbCreated' = nbCreated + 1 /\ UNCHANGED <<bagsNexts, push>>

LEMMA NumberedAdd ==
  ASSUME TypesInv, NumberedInv, NEW j \in Cells, Adds(j)
  PROVE  NumberedInv'
<1> DEFINE n == nbCreated + 1
           New(k, i) == k = j /\ i = Len(bagsCur[j]) + 1
<1>1. bagsCur[j] \in Seq(Nat) /\ n \in Nat /\ bagsCur \in [Cells -> Seq(Nat)] /\ nbCreated \in Nat
  BY DEF TypesInv
<1>2. bagsCur'[j] = Append(bagsCur[j], n) /\ (\A k \in Cells : k # j => bagsCur'[k] = bagsCur[k])
      /\ nbCreated' = n /\ bagsNexts' = bagsNexts /\ push' = push
  BY <1>1 DEF Adds
<1> HIDE DEF n
<1>3. \A k, i : InCur(k, i)' => New(k, i) \/ InCur(k, i)
  <2> SUFFICES ASSUME NEW k, NEW i, InCur(k, i)', ~New(k, i) PROVE InCur(k, i)
    OBVIOUS
  <2>1. CASE k = j
    BY <1>1, <1>2, <2>1, AppendSlots DEF InCur
  <2>2. CASE k # j
    BY <1>2, <2>2 DEF InCur
  <2> QED BY <2>1, <2>2
<1>4. \A k, i : InCur(k, i)' => (New(k, i) /\ bagsCur'[k][i] = n) \/ (~New(k, i) /\ bagsCur'[k][i] = bagsCur[k][i])
  <2> SUFFICES ASSUME NEW k, NEW i, InCur(k, i)'
               PROVE  (New(k, i) => bagsCur'[k][i] = n) /\ (~New(k, i) => bagsCur'[k][i] = bagsCur[k][i])
    OBVIOUS
  <2>1. CASE k = j
    <3>1. i \in 1 .. Len(bagsCur[j]) + 1
      BY <1>1, <1>2, <2>1, AppendSlots DEF InCur
    <3>4. bagsCur'[k][i] = IF i = Len(bagsCur[j]) + 1 THEN n ELSE bagsCur[j][i]
      BY <1>1, <1>2, <2>1, <3>1, AppendSlots
    <3> QED BY <2>1, <3>4
  <2>2. CASE k # j
    BY <1>2, <2>2 DEF InCur
  <2> QED BY <2>1, <2>2
<1>5. \A k, i : ~New(k, i) /\ InCur(k, i) => bagsCur[k][i] \in 1 .. nbCreated
  BY DEF NumberedInv, CurNumbered
<1>6. n \notin 1 .. nbCreated /\ n \in 1 .. nbCreated' /\ 1 .. nbCreated \subseteq 1 .. nbCreated'
  BY <1>1, <1>2 DEF n
<1>7. \A kind, k, i : InNext(kind, k, i)' <=> InNext(kind, k, i)
  BY <1>2 DEF InNext
<1>8. \A k, i : Passed(k, i)' <=> Passed(k, i)
  BY <1>2 DEF Passed, Moved
<1> HIDE DEF New
<1>9. CurNumbered'
  BY <1>3, <1>4, <1>5, <1>6 DEF CurNumbered
<1>10. NextNumbered'
  BY <1>2, <1>6, <1>7 DEF NextNumbered, NumberedInv
<1>11. OnceInCur'
  <2> SUFFICES ASSUME NEW k, NEW i, NEW m, NEW o, InCur(k, i)', InCur(m, o)', bagsCur'[k][i] = bagsCur'[m][o]
               PROVE  k = m /\ i = o
    BY DEF OnceInCur
  <2>1. CASE New(k, i) /\ New(m, o)
    BY <2>1 DEF New
  <2>2. CASE New(k, i) /\ ~New(m, o)
    BY <2>2, <1>3, <1>4, <1>5, <1>6
  <2>3. CASE ~New(k, i) /\ New(m, o)
    BY <2>3, <1>3, <1>4, <1>5, <1>6
  <2>4. CASE ~New(k, i) /\ ~New(m, o)
    BY <2>4, <1>3, <1>4 DEF NumberedInv, OnceInCur
  <2> QED BY <2>1, <2>2, <2>3, <2>4
<1>12. OnceInNext'
  BY <1>2, <1>7 DEF OnceInNext, NumberedInv
<1>13. InBothPassed'
  <2> SUFFICES ASSUME NEW k, NEW i, NEW b, NEW m, NEW o, InCur(k, i)', InNext(b, m, o)',
                      bagsCur'[k][i] = bagsNexts'[b][m][o]
               PROVE  Passed(k, i)'
    BY DEF InBothPassed
  <2>1. InNext(b, m, o) /\ bagsNexts'[b][m][o] = bagsNexts[b][m][o] /\ bagsNexts[b][m][o] \in 1 .. nbCreated
    BY <1>2, <1>7 DEF NumberedInv, NextNumbered
  <2>2. ~New(k, i)
    BY <2>1, <1>4, <1>6
  <2>3. InCur(k, i) /\ bagsCur[k][i] = bagsNexts[b][m][o]
    BY <2>1, <2>2, <1>3, <1>4
  <2> QED BY <2>1, <2>3, <1>8 DEF NumberedInv, InBothPassed
<1> QED BY <1>9, <1>10, <1>11, <1>12, <1>13 DEF NumberedInv

LEMMA HeadSlot ==
  ASSUME TypesInv, NEW t \in Threads, PushOf(t)
  PROVE  /\ push[t].from \in Cells /\ push[t].cell \in Cells /\ push[t].p \in Nat
         /\ InCur(push[t].from, 1) /\ bagsCur[push[t].from][1] = push[t].p
<1>1. push[t] \in Push /\ bagsCur \in [Cells -> Seq(Nat)]
  BY DEF TypesInv
<1>2. push[t].from \in Cells /\ push[t].cell \in Cells /\ push[t].p \in Nat
  BY <1>1 DEF Push
<1>3. bagsCur[push[t].from] \in Seq(Nat) /\ bagsCur[push[t].from] # <<>> /\ push[t].p = Head(bagsCur[push[t].from])
  BY <1>1, <1>2 DEF PushOf
<1> QED BY <1>2, <1>3, TailSlots DEF InCur

\* The item of a push is written, at the end of a bag.
Writes(t, kind) ==
  /\ push[t].pc # "idle" /\ ~Moved(t) /\ Moved(t)'
  /\ bagsNexts' = [bagsNexts EXCEPT ![kind][push[t].cell] = Append(@, push[t].p)]
  /\ bagsCur' = bagsCur /\ nbCreated' = nbCreated
  /\ push'[t].from = push[t].from /\ push'[t].cell = push[t].cell /\ push'[t].p = push[t].p
  /\ \A u \in Threads : u # t => push'[u] = push[u]

LEMMA NextAfterWrite ==
  ASSUME TypesInv, NEW t \in Threads, NEW kind \in Kinds, PushOf(t), Writes(t, kind)
  PROVE  /\ bagsNexts' \in [Kinds -> [Cells -> Seq(Nat)]]
         /\ bagsNexts'[kind][push[t].cell] = Append(bagsNexts[kind][push[t].cell], push[t].p)
         /\ bagsNexts[kind][push[t].cell] \in Seq(Nat)
         /\ \A b \in Kinds, k \in Cells : b # kind \/ k # push[t].cell => bagsNexts'[b][k] = bagsNexts[b][k]
<1>1. bagsNexts \in [Kinds -> [Cells -> Seq(Nat)]] /\ push[t].cell \in Cells /\ push[t].p \in Nat
  BY HeadSlot DEF TypesInv
<1> DEFINE s == bagsNexts[kind][push[t].cell]
           v == Append(s, push[t].p)
<1>2. s \in Seq(Nat) /\ v \in Seq(Nat)
  <2>1. s \in Seq(Nat)
    BY <1>1
  <2> QED BY <1>1, <2>1, AppendSlots
<1>3. bagsNexts' = [bagsNexts EXCEPT ![kind] = [@ EXCEPT ![push[t].cell] = v]]
  BY DEF Writes
<1> HIDE DEF s, v
<1>4. /\ bagsNexts' \in [Kinds -> [Cells -> Seq(Nat)]] /\ bagsNexts'[kind][push[t].cell] = v
      /\ \A b \in Kinds, k \in Cells : b # kind \/ k # push[t].cell => bagsNexts'[b][k] = bagsNexts[b][k]
  BY <1>1, <1>2, <1>3
<1> QED BY <1>2, <1>4 DEF s, v

\* No bag that is filled has the particle already.
LEMMA WrittenOnce ==
  ASSUME OptInv, NEW t \in Threads, push[t].pc # "idle", ~Moved(t), NEW b, NEW k, NEW i, InNext(b, k, i)
  PROVE  bagsNexts[b][k][i] # push[t].p
<1> SUFFICES ASSUME bagsNexts[b][k][i] = push[t].p PROVE FALSE
  OBVIOUS
<1>1. PushOf(t)
  BY DEF OptInv, PushInv
<1>2. Passed(push[t].from, 1)
  BY <1>1, HeadSlot DEF OptInv, NumberedInv, InBothPassed
<1>3. PICK u \in Threads : Moved(u) /\ push[u].from = push[t].from
  BY <1>2 DEF Passed
<1>4. u # t /\ push[u].pc # "idle"
  BY <1>3 DEF Moved
<1> QED BY <1>3, <1>4, PushesApart

LEMMA NumberedWrite ==
  ASSUME OptInv, NEW t \in Threads, NEW kind \in Kinds, Writes(t, kind)
  PROVE  NumberedInv'
<1> DEFINE c == push[t].cell  p == push[t].p
           New(b, k, i) == b = kind /\ k = c /\ i = Len(bagsNexts[kind][c]) + 1
<1>1. TypesInv /\ NumberedInv /\ PushOf(t) /\ push[t].pc # "idle" /\ ~Moved(t)
  BY DEF OptInv, PushInv, Writes
<1>2. c \in Cells /\ p \in Nat /\ InCur(push[t].from, 1) /\ bagsCur[push[t].from][1] = p
  BY <1>1, HeadSlot
<1>3. /\ bagsNexts[kind][c] \in Seq(Nat) /\ bagsNexts'[kind][c] = Append(bagsNexts[kind][c], p)
      /\ \A b \in Kinds, k \in Cells : b # kind \/ k # c => bagsNexts'[b][k] = bagsNexts[b][k]
  BY <1>1, NextAfterWrite
<1>4. \A b, k, i : InNext(b, k, i) => bagsNexts[b][k][i] # p
  BY <1>1, WrittenOnce
<1>5. p \in 1 .. nbCreated
  BY <1>1, <1>2 DEF NumberedInv, CurNumbered
<1>6. bagsCur' = bagsCur /\ nbCreated' = nbCreated /\ \A u \in Threads : push'[u].from = push[u].from /\ (Moved(u) => Moved(u)')
  <2>1. \A u \in Threads : u # t => push'[u] = push[u]
    BY DEF Writes
  <2>2. \A u \in Threads : push'[u].from = push[u].from
    BY <2>1 DEF Writes
  <2>3. \A u \in Threads : Moved(u) => Moved(u)'
    BY <2>1, <1>1 DEF Moved
  <2> QED BY <2>2, <2>3 DEF Writes
<1>7. \A k, i : k = push[t].from /\ i = 1 => Passed(k, i)'
  BY <1>6 DEF Writes, Passed
<1>8. \A k, i : (InCur(k, i)' <=> InCur(k, i)) /\ (Passed(k, i) => Passed(k, i)')
  BY <1>6 DEF InCur, Passed
<1> HIDE DEF c, p
<1>9. \A b, k, i : InNext(b, k, i)' => New(b, k, i) \/ InNext(b, k, i)
  <2> SUFFICES ASSUME NEW b, NEW k, NEW i, InNext(b, k, i)', ~New(b, k, i) PROVE InNext(b, k, i)
    OBVIOUS
  <2>1. CASE b = kind /\ k = c
    BY <1>2, <1>3, <2>1, AppendSlots DEF InNext
  <2>2. CASE b # kind \/ k # c
    BY <1>3, <2>2 DEF InNext
  <2> QED BY <2>1, <2>2
<1>10. \A b, k, i : InNext(b, k, i)' =>
         (New(b, k, i) /\ bagsNexts'[b][k][i] = p) \/ (~New(b, k, i) /\ bagsNexts'[b][k][i] = bagsNexts[b][k][i])
  <2> SUFFICES ASSUME NEW b, NEW k, NEW i, InNext(b, k, i)'
               PROVE  (New(b, k, i) => bagsNexts'[b][k][i] = p) /\ (~New(b, k, i) => bagsNexts'[b][k][i] = bagsNexts[b][k][i])
    OBVIOUS
  <2>1. CASE b = kind /\ k = c
    <3>1. i \in 1 .. Len(bagsNexts[kind][c]) + 1
      BY <1>2, <1>3, <2>1, AppendSlots DEF InNext
    <3>2. \A s \in Seq(Nat) : i \in 1 .. Len(s) + 1 => Append(s, p)[i] = IF i = Len(s) + 1 THEN p ELSE s[i]
      BY <1>2, AppendSlots
    <3>3. bagsNexts'[b][k] = Append(bagsNexts[kind][c], p)
      BY <1>3, <2>1
    <3>4. bagsNexts'[b][k][i] = IF i = Len(bagsNexts[kind][c]) + 1 THEN p ELSE bagsNexts[kind][c][i]
      BY <1>3, <3>1, <3>2, <3>3
    <3> QED BY <2>1, <3>4
  <2>2. CASE b # kind \/ k # c
    BY <1>3, <2>2 DEF InNext
  <2> QED BY <2>1, <2>2
<1>11. \A b, k, i, a, m, o : New(b, k, i) /\ New(a, m, o) => b = a /\ k = m /\ i = o
  OBVIOUS
<1> HIDE DEF New
<1>12. CurNumbered'
  BY <1>1, <1>6, <1>8 DEF CurNumbered, NumberedInv
<1>13. NextNumbered'
  BY <1>1, <1>5, <1>6, <1>9, <1>10 DEF NextNumbered, NumberedInv
<1>14. OnceInCur'
  BY <1>1, <1>6, <1>8 DEF OnceInCur, NumberedInv
<1>15. OnceInNext'
  <2> SUFFICES ASSUME NEW a, NEW k, NEW i, NEW b, NEW m, NEW o, InNext(a, k, i)', InNext(b, m, o)',
                      bagsNexts'[a][k][i] = bagsNexts'[b][m][o]
               PROVE  a = b /\ k = m /\ i = o
    BY DEF OnceInNext
  <2>1. CASE New(a, k, i) /\ New(b, m, o)
    BY <2>1, <1>11
  <2>2. CASE New(a, k, i) /\ ~New(b, m, o)
    BY <2>2, <1>4, <1>9, <1>10
  <2>3. CASE ~New(a, k, i) /\ New(b, m, o)
    BY <2>3, <1>4, <1>9, <1>10
  <2>4. CASE ~New(a, k, i) /\ ~New(b, m, o)
    BY <2>4, <1>1, <1>9, <1>10 DEF NumberedInv, OnceInNext
  <2> QED BY <2>1, <2>2, <2>3, <2>4
<1>16. InBothPassed'
  <2> SUFFICES ASSUME NEW k, NEW i, NEW b, NEW m, NEW o, InCur(k, i)', InNext(b, m, o)',
                      bagsCur'[k][i] = bagsNexts'[b][m][o]
               PROVE  Passed(k, i)'
    BY DEF InBothPassed
  <2>1. CASE New(b, m, o)
    <3>1. InCur(k, i) /\ bagsCur[k][i] = p
      BY <2>1, <1>6, <1>8, <1>10
    <3>2. k = push[t].from /\ i = 1
      BY <3>1, <1>1, <1>2 DEF NumberedInv, OnceInCur
    <3> QED BY <3>2, <1>7
  <2>2. CASE ~New(b, m, o)
    BY <2>2, <1>1, <1>6, <1>8, <1>9, <1>10 DEF NumberedInv, InBothPassed
  <2> QED BY <2>1, <2>2
<1> QED BY <1>12, <1>13, <1>14, <1>15, <1>16 DEF NumberedInv

\* The charge of a particle is deposited and it leaves the bag that is read.
Leaves(t) ==
  /\ Moved(t) /\ ~Moved(t)'
  /\ bagsCur' = [bagsCur EXCEPT ![push[t].from] = Tail(@)]
  /\ bagsNexts' = bagsNexts /\ nbCreated' = nbCreated
  /\ \A u \in Threads : u # t => push'[u] = push[u]

LEMMA CurAfterLeave ==
  ASSUME TypesInv, NEW t \in Threads, PushOf(t), Leaves(t)
  PROVE  /\ bagsCur' \in [Cells -> Seq(Nat)]
         /\ bagsCur'[push[t].from] = Tail(bagsCur[push[t].from])
         /\ bagsCur[push[t].from] \in Seq(Nat) /\ bagsCur[push[t].from] # <<>>
         /\ \A k \in Cells : k # push[t].from => bagsCur'[k] = bagsCur[k]
<1> DEFINE j == push[t].from  s == bagsCur[j]
<1>1. bagsCur \in [Cells -> Seq(Nat)] /\ j \in Cells
  BY HeadSlot DEF TypesInv
<1>2. s \in Seq(Nat) /\ s # <<>>
  BY <1>1 DEF PushOf
<1>3. Tail(s) \in Seq(Nat)
  BY <1>2, TailSlots
<1>4. bagsCur' = [bagsCur EXCEPT ![j] = Tail(s)]
  BY DEF Leaves
<1> HIDE DEF s
<1>5. bagsCur' \in [Cells -> Seq(Nat)] /\ bagsCur'[j] = Tail(s) /\ \A k \in Cells : k # j => bagsCur'[k] = bagsCur[k]
  BY <1>1, <1>3, <1>4
<1> QED BY <1>2, <1>5 DEF s

LEMMA NumberedLeave ==
  ASSUME OptInv, NEW t \in Threads, Leaves(t)
  PROVE  NumberedInv'
<1> DEFINE j == push[t].from
           Old(k, i) == IF k = j THEN i + 1 ELSE i
<1>1. TypesInv /\ NumberedInv /\ PushOf(t) /\ Moved(t)
  BY DEF OptInv, PushInv, Leaves, Moved
<1>2. j \in Cells
  BY <1>1, HeadSlot
<1>3. /\ bagsCur'[j] = Tail(bagsCur[j]) /\ bagsCur[j] \in Seq(Nat) /\ bagsCur[j] # <<>>
      /\ \A k \in Cells : k # j => bagsCur'[k] = bagsCur[k]
  BY <1>1, CurAfterLeave
<1>4. bagsNexts' = bagsNexts /\ nbCreated' = nbCreated
  BY DEF Leaves
<1>5. \A u \in Threads : u # t /\ Moved(u) => Moved(u)' /\ push'[u].from = push[u].from
  BY DEF Leaves, Moved
<1> HIDE DEF j
<1>6. \A k, i : InCur(k, i)' => InCur(k, Old(k, i)) /\ bagsCur'[k][i] = bagsCur[k][Old(k, i)] /\ i \in Nat /\ i > 0
  <2> SUFFICES ASSUME NEW k, NEW i, InCur(k, i)'
               PROVE  InCur(k, Old(k, i)) /\ bagsCur'[k][i] = bagsCur[k][Old(k, i)] /\ i \in Nat /\ i > 0
    OBVIOUS
  <2>1. CASE k = j
    <3>1. \A s \in Seq(Nat) : s # <<>> => /\ Len(s) \in Nat /\ Len(Tail(s)) = Len(s) - 1
                                          /\ \A m \in 1 .. Len(s) - 1 : Tail(s)[m] = s[m + 1]
      BY TailSlots
    <3>2. Len(bagsCur[j]) \in Nat /\ i \in 1 .. Len(bagsCur[j]) - 1 /\ bagsCur'[k][i] = bagsCur[j][i + 1]
      BY <1>3, <2>1, <3>1 DEF InCur
    <3>3. i + 1 \in 1 .. Len(bagsCur[j])
      BY <3>2
    <3> QED BY <1>2, <2>1, <3>2, <3>3 DEF InCur
  <2>2. CASE k # j
    <3>1. k \in Cells /\ bagsCur'[k] = bagsCur[k] /\ i \in 1 .. Len(bagsCur[k])
      BY <1>3, <2>2 DEF InCur
    <3> QED BY <2>2, <3>1 DEF InCur
  <2> QED BY <2>1, <2>2
<1>7. \A k, i, m : i \in Nat /\ m \in Nat /\ Old(k, i) = Old(k, m) => i = m
  OBVIOUS
<1>8. \A b, k, i : InNext(b, k, i)' <=> InNext(b, k, i)
  BY <1>4 DEF InNext
<1>9. \A k, i : InCur(k, i)' /\ Passed(k, Old(k, i)) => Passed(k, i)'
  <2> SUFFICES ASSUME NEW k, NEW i, InCur(k, i)', Passed(k, Old(k, i)) PROVE Passed(k, i)'
    OBVIOUS
  <2>1. i \in Nat /\ i > 0 /\ Old(k, i) = 1
    BY <1>6 DEF Passed
  <2>2. k # j /\ i = 1
    BY <2>1
  <2>3. PICK u \in Threads : Moved(u) /\ push[u].from = k
    BY DEF Passed
  <2>4. u # t
    BY <2>2, <2>3 DEF j
  <2> QED BY <1>5, <2>2, <2>3, <2>4 DEF Passed
<1> HIDE DEF Old
<1>10. CurNumbered'
  BY <1>1, <1>4, <1>6 DEF CurNumbered, NumberedInv
<1>11. NextNumbered'
  BY <1>1, <1>4, <1>8 DEF NextNumbered, NumberedInv
<1>12. OnceInCur'
  <2> SUFFICES ASSUME NEW k, NEW i, NEW m, NEW o, InCur(k, i)', InCur(m, o)', bagsCur'[k][i] = bagsCur'[m][o]
               PROVE  k = m /\ i = o
    BY DEF OnceInCur
  <2>1. k = m /\ Old(k, i) = Old(m, o)
    BY <1>1, <1>6 DEF NumberedInv, OnceInCur
  <2> QED BY <2>1, <1>6, <1>7
<1>13. OnceInNext'
  BY <1>1, <1>4, <1>8 DEF OnceInNext, NumberedInv
<1>14. InBothPassed'
  BY <1>1, <1>4, <1>6, <1>8, <1>9 DEF InBothPassed, NumberedInv
<1> QED BY <1>10, <1>11, <1>12, <1>13, <1>14 DEF NumberedInv

\* The share of the append loop of a thread: the bags of its cells.
Appends(mine) ==
  /\ bagsCur' = [j \in Cells |-> IF j \in mine THEN WithNexts(j) ELSE bagsCur[j]]
  /\ bagsNexts' = [kind \in Kinds |-> [j \in Cells |-> IF j \in mine THEN <<>> ELSE bagsNexts[kind][j]]]
  /\ nbCreated' = nbCreated

LEMMA BagsAfterAppend ==
  ASSUME TypesInv, NEW mine, Appends(mine), \A j \in Cells : j \in mine => bagsCur[j] = <<>>
  PROVE  /\ bagsCur' \in [Cells -> Seq(Nat)] /\ bagsNexts' \in [Kinds -> [Cells -> Seq(Nat)]]
         /\ \A j \in Cells : /\ bagsNexts[PRIVATE][j] \in Seq(Nat) /\ bagsNexts[SHARED][j] \in Seq(Nat)
                             /\ j \in mine => /\ bagsCur'[j] = bagsNexts[PRIVATE][j] \o bagsNexts[SHARED][j]
                                              /\ \A kind \in Kinds : bagsNexts'[kind][j] = <<>>
                             /\ j \notin mine => /\ bagsCur'[j] = bagsCur[j]
                                                 /\ \A kind \in Kinds : bagsNexts'[kind][j] = bagsNexts[kind][j]
<1> DEFINE P(j) == bagsNexts[PRIVATE][j]  S(j) == bagsNexts[SHARED][j]
<1>1. bagsCur \in [Cells -> Seq(Nat)] /\ bagsNexts \in [Kinds -> [Cells -> Seq(Nat)]] /\ PRIVATE \in Kinds /\ SHARED \in Kinds
  BY DEF TypesInv, Kinds
<1>2. \A j \in Cells : P(j) \in Seq(Nat) /\ S(j) \in Seq(Nat) /\ bagsCur[j] \in Seq(Nat)
  BY <1>1
<1>3. \A j \in Cells : bagsCur'[j] = IF j \in mine THEN WithNexts(j) ELSE bagsCur[j]
  BY DEF Appends
<1>4. \A kind \in Kinds, j \in Cells : bagsNexts'[kind][j] = IF j \in mine THEN <<>> ELSE bagsNexts[kind][j]
  BY DEF Appends
<1>5. \A j \in Cells : j \in mine => WithNexts(j) = P(j) \o S(j)
  <2> SUFFICES ASSUME NEW j \in Cells, j \in mine PROVE WithNexts(j) = P(j) \o S(j)
    OBVIOUS
  <2>1. WithNexts(j) = (<<>> \o P(j)) \o S(j)
    BY DEF WithNexts
  <2>2. <<>> \o P(j) = P(j)
    BY <1>2, EmptySlots
  <2> QED BY <2>1, <2>2
<1>6. \A j \in Cells : P(j) \o S(j) \in Seq(Nat)
  BY <1>2, ConcatSlots
<1> HIDE DEF P, S
<1>7. \A j \in Cells : bagsCur'[j] \in Seq(Nat)
  BY <1>2, <1>3, <1>5, <1>6
<1>8. \A kind \in Kinds, j \in Cells : bagsNexts'[kind][j] \in Seq(Nat)
  BY <1>1, <1>4, EmptySlots
<1>9. bagsCur' \in [Cells -> Seq(Nat)]
  <2>1. bagsCur' = [j \in Cells |-> bagsCur'[j]]
    BY DEF Appends
  <2> QED BY <1>7, <2>1
<1>10. bagsNexts' \in [Kinds -> [Cells -> Seq(Nat)]]
  <2>1. \A kind \in Kinds : bagsNexts'[kind] = [j \in Cells |-> bagsNexts'[kind][j]]
    BY DEF Appends
  <2>2. \A kind \in Kinds : bagsNexts'[kind] \in [Cells -> Seq(Nat)]
    BY <1>8, <2>1
  <2>3. bagsNexts' = [kind \in Kinds |-> bagsNexts'[kind]]
    BY DEF Appends
  <2> QED BY <2>2, <2>3
<1> QED BY <1>2, <1>3, <1>4, <1>5, <1>9, <1>10 DEF P, S

LEMMA NumberedAppend ==
  ASSUME TypesInv, NumberedInv, NEW mine, Appends(mine), \A j \in Cells : j \in mine => bagsCur[j] = <<>>,
         \A t \in Threads : ~Moved(t)
  PROVE  NumberedInv'
<1> DEFINE P(j) == bagsNexts[PRIVATE][j]  S(j) == bagsNexts[SHARED][j]
           Stayed(k, i) == k \notin mine /\ InCur(k, i) /\ bagsCur'[k][i] = bagsCur[k][i]
           FromPrivate(k, i) == i <= Len(P(k)) /\ InNext(PRIVATE, k, i) /\ bagsCur'[k][i] = bagsNexts[PRIVATE][k][i]
           FromShared(k, i) ==
             InNext(SHARED, k, i - Len(P(k))) /\ bagsCur'[k][i] = bagsNexts[SHARED][k][i - Len(P(k))]
<1>1. /\ \A j \in Cells : P(j) \in Seq(Nat) /\ S(j) \in Seq(Nat)
      /\ \A j \in Cells : j \in mine => bagsCur'[j] = P(j) \o S(j) /\ \A kind \in Kinds : bagsNexts'[kind][j] = <<>>
      /\ \A j \in Cells : j \notin mine => bagsCur'[j] = bagsCur[j] /\ \A kind \in Kinds : bagsNexts'[kind][j] = bagsNexts[kind][j]
  BY BagsAfterAppend
<1>2. nbCreated' = nbCreated
  BY DEF Appends
<1>3. \A k, i : ~Passed(k, i)
  BY DEF Passed
<1>4. \A k, i : InCur(k, i)' =>
        k \in Cells /\ i \in Int /\ (Stayed(k, i) \/ (k \in mine /\ (FromPrivate(k, i) \/ FromShared(k, i))))
  <2> SUFFICES ASSUME NEW k, NEW i, InCur(k, i)'
               PROVE  k \in Cells /\ i \in Int /\ (Stayed(k, i) \/ (k \in mine /\ (FromPrivate(k, i) \/ FromShared(k, i))))
    OBVIOUS
  <2>1. k \in Cells /\ i \in 1 .. Len(bagsCur'[k])
    BY DEF InCur
  <2>2. CASE k \notin mine
    BY <1>1, <2>1, <2>2 DEF InCur
  <2>3. CASE k \in mine
    <3> DEFINE s == P(k)  u == S(k)
    <3>1. s \in Seq(Nat) /\ u \in Seq(Nat) /\ bagsCur'[k] = s \o u
      BY <1>1, <2>1, <2>3
    <3> HIDE DEF s, u
    <3>2. /\ Len(s) \in Nat /\ Len(u) \in Nat /\ i \in 1 .. Len(s) + Len(u)
          /\ bagsCur'[k][i] = IF i <= Len(s) THEN s[i] ELSE u[i - Len(s)]
      BY <2>1, <3>1, ConcatSlots
    <3>3. CASE i <= Len(s)
      <4>1. i \in 1 .. Len(s) /\ bagsCur'[k][i] = s[i]
        BY <3>2, <3>3
      <4>2. FromPrivate(k, i)
        BY <2>1, <3>3, <4>1 DEF InNext, Kinds, s
      <4> QED BY <2>1, <2>3, <4>1, <4>2
    <3>4. CASE ~(i <= Len(s))
      <4>1. i - Len(s) \in 1 .. Len(u) /\ bagsCur'[k][i] = u[i - Len(s)]
        BY <3>2, <3>4
      <4>2. FromShared(k, i)
        BY <2>1, <4>1 DEF InNext, Kinds, s, u
      <4> QED BY <2>1, <2>3, <3>2, <4>2
    <3> QED BY <3>3, <3>4
  <2> QED BY <2>2, <2>3
<1>5. \A b, k, i : InNext(b, k, i)' => k \notin mine /\ InNext(b, k, i) /\ bagsNexts'[b][k][i] = bagsNexts[b][k][i]
  <2> SUFFICES ASSUME NEW b, NEW k, NEW i, InNext(b, k, i)'
               PROVE  k \notin mine /\ InNext(b, k, i) /\ bagsNexts'[b][k][i] = bagsNexts[b][k][i]
    OBVIOUS
  <2>1. b \in Kinds /\ k \in Cells /\ i \in 1 .. Len(bagsNexts'[b][k])
    BY DEF InNext
  <2>2. CASE k \notin mine
    BY <1>1, <2>1, <2>2 DEF InNext
  <2>3. CASE k \in mine
    <3>1. i \in 1 .. 0
      BY <1>1, <2>1, <2>3, EmptySlots
    <3> QED BY <3>1
  <2> QED BY <2>2, <2>3
<1>6. \A k : k \in Cells => Len(P(k)) \in Nat
  BY <1>1
<1>7. PRIVATE # SHARED
  BY DEF PRIVATE, SHARED
<1> HIDE DEF P, S
<1>8. CurNumbered'
  BY <1>2, <1>4 DEF CurNumbered, NextNumbered, NumberedInv
<1>9. NextNumbered'
  BY <1>2, <1>5 DEF NextNumbered, NumberedInv
<1>10. OnceInCur'
  <2> SUFFICES ASSUME NEW k, NEW i, NEW m, NEW o, InCur(k, i)', InCur(m, o)', bagsCur'[k][i] = bagsCur'[m][o]
               PROVE  k = m /\ i = o
    BY DEF OnceInCur
  <2>1. CASE Stayed(k, i) /\ Stayed(m, o)
    BY <2>1 DEF NumberedInv, OnceInCur
  <2>2. CASE Stayed(k, i) /\ (FromPrivate(m, o) \/ FromShared(m, o))
    BY <1>3, <2>2 DEF NumberedInv, InBothPassed
  <2>3. CASE (FromPrivate(k, i) \/ FromShared(k, i)) /\ Stayed(m, o)
    BY <1>3, <2>3 DEF NumberedInv, InBothPassed
  <2>4. CASE FromPrivate(k, i) /\ FromPrivate(m, o)
    BY <2>4 DEF NumberedInv, OnceInNext
  <2>5. CASE FromPrivate(k, i) /\ FromShared(m, o)
    <3>1. InNext(PRIVATE, k, i) /\ InNext(SHARED, m, o - Len(P(m)))
      BY <2>5
    <3>2. bagsNexts[PRIVATE][k][i] = bagsNexts[SHARED][m][o - Len(P(m))]
      BY <2>5
    <3>3. PRIVATE = SHARED
      BY <3>1, <3>2, Zenon DEF NumberedInv, OnceInNext
    <3> QED BY <1>7, <3>3
  <2>6. CASE FromShared(k, i) /\ FromPrivate(m, o)
    <3>1. InNext(SHARED, k, i - Len(P(k))) /\ InNext(PRIVATE, m, o)
      BY <2>6
    <3>2. bagsNexts[SHARED][k][i - Len(P(k))] = bagsNexts[PRIVATE][m][o]
      BY <2>6
    <3>3. SHARED = PRIVATE
      BY <3>1, <3>2, Zenon DEF NumberedInv, OnceInNext
    <3> QED BY <1>7, <3>3
  <2>7. CASE FromShared(k, i) /\ FromShared(m, o)
    <3>1. k = m /\ i - Len(P(k)) = o - Len(P(m))
      BY <2>7 DEF NumberedInv, OnceInNext
    <3>2. i \in Int /\ o \in Int /\ Len(P(k)) \in Nat
      BY <1>4, <1>6
    <3> QED BY <3>1, <3>2
  <2> QED BY <1>4, <2>1, <2>2, <2>3, <2>4, <2>5, <2>6, <2>7
<1>11. OnceInNext'
  BY <1>5 DEF OnceInNext, NumberedInv
<1>12. InBothPassed'
  <2> SUFFICES ASSUME NEW k, NEW i, NEW b, NEW m, NEW o, InCur(k, i)', InNext(b, m, o)',
                      bagsCur'[k][i] = bagsNexts'[b][m][o]
               PROVE  FALSE
    BY DEF InBothPassed
  <2>1. m \notin mine /\ InNext(b, m, o) /\ bagsCur'[k][i] = bagsNexts[b][m][o]
    BY <1>5
  <2>2. CASE Stayed(k, i)
    BY <1>3, <2>1, <2>2 DEF NumberedInv, InBothPassed
  <2>3. CASE k \in mine /\ FromPrivate(k, i)
    BY <2>1, <2>3 DEF NumberedInv, OnceInNext
  <2>4. CASE k \in mine /\ FromShared(k, i)
    BY <2>1, <2>4 DEF NumberedInv, OnceInNext
  <2> QED BY <1>4, <2>2, <2>3, <2>4
<1> QED BY <1>8, <1>9, <1>10, <1>11, <1>12 DEF NumberedInv

-----------------------------------------------------------------------------
(* Cells, colours and shares of the threads.                                 *)

LEMMA NoPushes ==
  ASSUME PushInv, phase # "core"
  PROVE  \A u \in Threads : push[u].pc = "idle" /\ ~Moved(u)
BY DEF PushInv, PushOf, Moved

LEMMA CellsCounted ==
  /\ NumCells \in Nat
  /\ \A j \in Cells : \E t \in Threads : j \in StaticBlock(t, nbThreads, NumCells)
<1>1. NumCells \in Nat
  <2>1. ncx * ncy \in Nat
    BY MeshSizes
  <2> QED BY <2>1, MeshSizes DEF NumCells
<1> QED BY <1>1, BlocksCover DEF Cells

LEMMA StartOnAxis ==
  ASSUME NEW n \in Nat, n > 0, NEW x \in 0 .. n - 1
  PROVE  \E k \in {0, 1} : x - (x % block) \in BlockStarts(k, n)
<1> DEFINE b == x - (x % 2)
<1>1. b \in 0 .. n - 1 /\ b % 4 \in {0, 2}
  OBVIOUS
<1>2. b % 4 = 0 => b \in BlockStarts(0, n)
  BY <1>1 DEF BlockStarts, block
<1>3. b % 4 = 2 => b \in BlockStarts(1, n)
  BY <1>1 DEF BlockStarts, block
<1> QED BY <1>1, <1>2, <1>3 DEF block

LEMMA CoordinatesInMesh ==
  ASSUME NEW j \in Cells
  PROVE  CellX(j) \in 0 .. ncx - 1 /\ CellY(j) \in 0 .. ncy - 1 /\ CellZ(j) \in 0 .. ncz - 1
<1> DEFINE m == ncx * ncy
           k == j \div ncz
<1>1. /\ ncx \in Nat /\ ncx > 0 /\ ncy \in Nat /\ ncy > 0 /\ ncz \in Nat /\ ncz > 0
  BY MeshSizes
<1>2. m \in Nat /\ j \in Nat /\ j < m * ncz
  BY <1>1 DEF Cells, NumCells
<1> HIDE DEF m
<1>3. j = ncz * k + (j % ncz) /\ k \in Nat /\ j % ncz \in 0 .. ncz - 1
  BY <1>1, <1>2, Division
<1> HIDE DEF k
<1>4. k < m
  <2> SUFFICES ASSUME k >= m PROVE FALSE
    BY <1>2, <1>3
  <2>1. ncz * k >= ncz * m
    BY <1>1, <1>2, <1>3
  <2>2. ncz * m = m * ncz /\ ncz * m \in Nat /\ ncz * k \in Nat
    BY <1>1, <1>2, <1>3
  <2> QED BY <1>2, <1>3, <2>1, <2>2
<1> DEFINE i == k \div ncy
<1>5. k = ncy * i + (k % ncy) /\ i \in Nat /\ k % ncy \in 0 .. ncy - 1
  BY <1>1, <1>3, Division
<1> HIDE DEF i
<1>6. i < ncx
  <2> SUFFICES ASSUME i >= ncx PROVE FALSE
    BY <1>1, <1>5
  <2>1. ncy * i >= ncy * ncx
    BY <1>1, <1>5
  <2>2. ncy * ncx = m /\ ncy * i \in Nat
    BY <1>1, <1>5 DEF m
  <2> QED BY <1>2, <1>3, <1>4, <1>5, <2>1, <2>2
<1>7. CellX(j) = i /\ CellY(j) = k % ncy /\ CellZ(j) = j % ncz
  BY DEF CellX, CellY, CellZ, i, k
<1> QED BY <1>1, <1>3, <1>5, <1>6, <1>7

LEMMA EveryCellColoured ==
  ASSUME NEW j \in Cells
  PROVE  \E c \in Colours : BlockOf(j) \in Blocks(c)
<1>1. /\ CellX(j) \in 0 .. ncx - 1 /\ CellY(j) \in 0 .. ncy - 1 /\ CellZ(j) \in 0 .. ncz - 1
  BY CoordinatesInMesh
<1>2. PICK k1 \in {0, 1} : CellX(j) - (CellX(j) % block) \in BlockStarts(k1, ncx)
  BY <1>1, MeshSizes, StartOnAxis
<1>3. PICK k2 \in {0, 1} : CellY(j) - (CellY(j) % block) \in BlockStarts(k2, ncy)
  BY <1>1, MeshSizes, StartOnAxis
<1>4. PICK k3 \in {0, 1} : CellZ(j) - (CellZ(j) % block) \in BlockStarts(k3, ncz)
  BY <1>1, MeshSizes, StartOnAxis
<1> DEFINE c == <<k1, k2, k3>>
<1>5. c \in Colours /\ c[1] = k1 /\ c[2] = k2 /\ c[3] = k3
  BY DEF Colours
<1> HIDE DEF c
<1>6. BlockOf(j) \in Blocks(c)
  BY <1>2, <1>3, <1>4, <1>5 DEF BlockOf, Blocks
<1> QED BY <1>5, <1>6

LEMMA Ranks ==
  /\ \A c \in Colours : Rank(c) \in 0 .. 7
  /\ \A c, d \in Colours : Rank(c) = Rank(d) => c = d
  /\ Rank(<<0, 0, 0>>) = 0 /\ Rank(<<1, 1, 1>>) = 7
<1>1. \A c \in Colours : c = <<c[1], c[2], c[3]>> /\ c[1] \in {0, 1} /\ c[2] \in {0, 1} /\ c[3] \in {0, 1}
  BY DEF Colours
<1>2. \A c, d \in Colours : Rank(c) = Rank(d) => c[1] = d[1] /\ c[2] = d[2] /\ c[3] = d[3]
  BY <1>1 DEF Rank
<1>3. \A c, d \in Colours : Rank(c) = Rank(d) => c = d
  <2> SUFFICES ASSUME NEW c \in Colours, NEW d \in Colours, Rank(c) = Rank(d) PROVE c = d
    OBVIOUS
  <2>1. c[1] = d[1] /\ c[2] = d[2] /\ c[3] = d[3]
    BY <1>2
  <2>2. c = <<c[1], c[2], c[3]>> /\ d = <<d[1], d[2], d[3]>>
    BY <1>1
  <2> QED BY <2>1, <2>2
<1>4. \A c \in Colours : Rank(c) \in 0 .. 7
  BY <1>1 DEF Rank
<1> QED BY <1>3, <1>4 DEF Rank

LEMMA ChargeNatural ==
  ASSUME ChargeTyped
  PROVE  \A j \in Cells : ChargeOf(j) \in Nat
<1> SUFFICES ASSUME NEW j \in Cells PROVE ChargeOf(j) \in Nat
  OBVIOUS
<1>1. PICK f : ChargeAdds(f, j)
  BY ChargeAdded
<1>2. nbThreads - 1 \in Threads
  BY OptimizedAssumption DEF Threads
<1> QED BY <1>1, <1>2 DEF ChargeAdds

-----------------------------------------------------------------------------
(* The steps of the main program keep the invariant.                         *)

LEMMA CreateKeeps ==
  ASSUME OptInv, NEW j \in InitialCells[nbCreated + 1], addParticle,
         bagsCur' = [bagsCur EXCEPT ![j] = Append(@, nbCreated')], deposit' = [deposit EXCEPT ![j] = @ + 1]
  PROVE  j \in Cells /\ OptInv'
<1>1. /\ phase = "create" /\ nbCreated < nbParticles /\ nbCreated' = nbCreated + 1
      /\ UNCHANGED <<phase, idStep, color, bagsNexts, push, depositThread, depositCells, appended, field>>
  BY DEF addParticle
<1>2. /\ nbCreated \in 0 .. nbParticles /\ nbParticles \in Nat /\ bagsCur \in [Cells -> Seq(Nat)]
      /\ deposit \in [Cells -> Nat] /\ nbCreated + 1 \in Nat
  BY OptimizedAssumption DEF OptInv, TypesInv
<1>3. j \in Cells /\ nbCreated + 1 \in 1 .. nbParticles
  <2>1. nbCreated + 1 \in 1 .. nbParticles
    BY <1>1, <1>2
  <2>2. InitialCells[nbCreated + 1] \subseteq Cells
    BY <2>1, OptimizedAssumption
  <2> QED BY <2>1, <2>2
<1>4. NumberedInv'
  <2>1. Adds(j)
    BY <1>1 DEF Adds
  <2> QED BY <2>1, <1>3, NumberedAdd DEF OptInv
<1>5. bagsCur' \in [Cells -> Seq(Nat)]
  <2> DEFINE v == Append(bagsCur[j], nbCreated + 1)
  <2>1. bagsCur[j] \in Seq(Nat)
    BY <1>2, <1>3
  <2>2. v \in Seq(Nat)
    BY <1>2, <2>1, AppendSlots
  <2>3. bagsCur' = [bagsCur EXCEPT ![j] = v]
    BY <1>1
  <2> HIDE DEF v
  <2> QED BY <1>2, <2>2, <2>3
<1>6. deposit' \in [Cells -> Nat]
  BY <1>2, <1>3
<1>7. ChargeTyped'
  BY <1>1, ChargeSame DEF OptInv, TypesInv
<1>8. TypesInv'
  BY <1>1, <1>2, <1>3, <1>5, <1>6, <1>7 DEF OptInv, TypesInv
<1>9. ColoursInv' /\ PhasesInv'
  BY <1>1 DEF ColoursInv, OptInv, PhasesInv
<1>10. PushInv'
  BY <1>1, NoPushes DEF OptInv, PushInv
<1> QED BY <1>3, <1>4, <1>8, <1>9, <1>10 DEF OptInv

\* Common to the two steps that begin a step of the simulation.
Begins ==
  /\ deposit' = NoCharge /\ idStep' \in Nat /\ BeginStep
  /\ UNCHANGED <<nbCreated, bagsCur, bagsNexts, push, depositCells, appended>>

LEMMA BeginKeeps ==
  ASSUME OptInv, Begins, phase # "core", \A kind \in Kinds, j \in Cells : bagsNexts[kind][j] = <<>>
  PROVE  OptInv'
<1>1. /\ deposit' = NoCharge /\ idStep' \in Nat
      /\ UNCHANGED <<nbCreated, bagsCur, bagsNexts, push, depositCells, appended>>
      /\ phase' = IF idStep' < nbSteps THEN "core" ELSE "done"
      /\ color' = <<0, 0, 0>>
      /\ depositThread' = IF idStep' < nbSteps THEN [t \in Threads |-> NoCharge] ELSE depositThread
  BY DEF Begins, BeginStep
<1>2. ChargeTyped'
  BY <1>1, ChargeReset, ChargeSame DEF OptInv, TypesInv
<1>3. color' \in Colours
  BY <1>1 DEF Colours
<1>4. TypesInv'
  BY <1>1, <1>2, <1>3 DEF OptInv, TypesInv, NoCharge
<1>5. ColoursInv'
  <2>1. \A c \in Colours : ~(Rank(c) < Rank(color'))
    BY <1>1, Ranks
  <2>2. \A c : Rank(c)' = Rank(c)
    BY DEF Rank
  <2>3. Rank(color)' = Rank(color')
    BY DEF Rank
  <2> QED BY <2>1, <2>3 DEF ColoursInv
<1>6. PhasesInv'
  <2>1. (phase # "create" => deposit = NoCharge)'
    BY <1>1 DEF NoCharge
  <2>2. (phase \in {"core", "append"} => idStep < nbSteps)'
    BY <1>1
  <2>3. (\A kind \in Kinds, j \in Cells : bagsNexts[kind][j] = <<>>)'
    BY <1>1
  <2>4. phase' # "append"
    BY <1>1
  <2> QED BY <2>1, <2>2, <2>3, <2>4 DEF PhasesInv
<1>7. NumberedInv'
  BY <1>1, NumberedSame DEF OptInv, BagsSame, Passed, Moved
<1>8. PushInv'
  BY <1>1, NoPushes DEF OptInv, PushInv
<1> QED BY <1>4, <1>5, <1>6, <1>7, <1>8 DEF OptInv

LEMMA StartKeeps ==
  ASSUME OptInv, stepLeapFrog
  PROVE  OptInv'
<1>1. phase = "create" /\ Begins
  BY DEF stepLeapFrog, Begins, OptInv, TypesInv
<1>2. \A kind \in Kinds, j \in Cells : bagsNexts[kind][j] = <<>>
  BY <1>1 DEF OptInv, PhasesInv
<1> QED BY <1>1, <1>2, BeginKeeps

LEMMA AllAppended ==
  ASSUME OptInv, phase = "append", appended = Threads
  PROVE  \A j \in Cells : /\ Appended(j) /\ depositCells[j] = ChargeOf(j)
                          /\ \A kind \in Kinds : bagsNexts[kind][j] = <<>>
BY CellsCounted DEF Appended, OptInv, PhasesInv

LEMMA EndKeeps ==
  ASSUME OptInv, EndStep
  PROVE  OptInv'
<1>1. phase = "append" /\ appended = Threads /\ Begins
  BY DEF EndStep, Begins, OptInv, TypesInv
<1> QED BY <1>1, AllAppended, BeginKeeps

LEMMA CoreEmpty ==
  ASSUME OptInv, phase = "core", \A j \in Cells : BlockOf(j) \in Blocks(color) => bagsCur[j] = <<>>
  PROVE  \A c \in Colours, j \in Cells : Rank(c) < Rank(color) + 1 /\ BlockOf(j) \in Blocks(c) => bagsCur[j] = <<>>
<1> SUFFICES ASSUME NEW c \in Colours, NEW j \in Cells, Rank(c) < Rank(color) + 1, BlockOf(j) \in Blocks(c)
             PROVE  bagsCur[j] = <<>>
  OBVIOUS
<1>1. color \in Colours /\ Rank(c) \in 0 .. 7 /\ Rank(color) \in 0 .. 7
  BY Ranks DEF OptInv, TypesInv
<1>2. CASE Rank(c) < Rank(color)
  BY <1>2 DEF OptInv, ColoursInv
<1>3. CASE Rank(c) = Rank(color)
  BY <1>1, <1>3, Ranks
<1> QED BY <1>1, <1>2, <1>3

LEMMA AfterColour ==
  ASSUME OptInv, NextColor
  PROVE  \/ /\ color' \in Colours /\ Rank(color') = Rank(color) + 1 /\ UNCHANGED <<phase, appended>>
         \/ color = <<1, 1, 1>> /\ phase' = "append" /\ appended' = {} /\ UNCHANGED color
<1>1. color \in Colours
  BY DEF OptInv, TypesInv
<1>2. color[1] \in {0, 1} /\ color[2] \in {0, 1} /\ color[3] \in {0, 1} /\ color = <<color[1], color[2], color[3]>>
  BY <1>1 DEF Colours
<1>3. CASE color[3] = 0
  <2>1. color[3] # 1 /\ color # <<1, 1, 1>>
    BY <1>3
  <2>2. color' = <<color[1], color[2], 1>> /\ UNCHANGED <<phase, appended>>
    BY <1>3, <2>1, Zenon DEF NextColor
  <2> QED BY <2>2, <1>2, <1>3 DEF Colours, Rank
<1>4. CASE color[3] = 1 /\ color[2] = 0
  <2>1. color[3] # 0 /\ color[2] # 1 /\ color # <<1, 1, 1>>
    BY <1>4
  <2>2. color' = <<color[1], 1, 0>> /\ UNCHANGED <<phase, appended>>
    BY <1>4, <2>1, Zenon DEF NextColor
  <2> QED BY <2>2, <1>2, <1>4 DEF Colours, Rank
<1>5. CASE color[3] = 1 /\ color[2] = 1 /\ color[1] = 0
  <2>1. color[3] # 0 /\ color[2] # 0 /\ color # <<1, 1, 1>>
    BY <1>5
  <2>2. color' = <<1, 0, 0>> /\ UNCHANGED <<phase, appended>>
    BY <1>5, <2>1, Zenon DEF NextColor
  <2> QED BY <2>2, <1>2, <1>5 DEF Colours, Rank
<1>6. CASE color[3] = 1 /\ color[2] = 1 /\ color[1] = 1
  <2>1. color = <<1, 1, 1>>
    BY <1>2, <1>6
  <2> QED BY <2>1 DEF NextColor
<1> QED BY <1>2, <1>3, <1>4, <1>5, <1>6

LEMMA ColourKeeps ==
  ASSUME OptInv, NextColor
  PROVE  OptInv'
<1>1. /\ phase = "core" /\ (\A t \in Threads : push[t].pc = "idle")
      /\ \A j \in Cells : BlockOf(j) \in Blocks(color) => bagsCur[j] = <<>>
      /\ UNCHANGED <<nbCreated, idStep, bagsCur, bagsNexts, push, depositThread, depositCells, deposit, field>>
  BY DEF NextColor
<1>2. ChargeTyped'
  BY <1>1, ChargeSame DEF OptInv, TypesInv
<1>3. NumberedInv'
  BY <1>1, NumberedSame DEF OptInv, BagsSame, Passed, Moved
<1>4. PushInv'
  BY <1>1 DEF PushInv
<1>5. \A c \in Colours, j \in Cells : Rank(c) < Rank(color) + 1 /\ BlockOf(j) \in Blocks(c) => bagsCur[j] = <<>>
  BY <1>1, CoreEmpty
<1>6. CASE color' \in Colours /\ Rank(color') = Rank(color) + 1 /\ UNCHANGED <<phase, appended>>
  <2>1. TypesInv'
    BY <1>1, <1>2, <1>6 DEF OptInv, TypesInv
  <2>2. Rank(color)' = Rank(color')
    BY DEF Rank
  <2>3. ColoursInv'
    BY <1>1, <1>5, <1>6, <2>2 DEF ColoursInv
  <2>4. PhasesInv'
    BY <1>1, <1>6 DEF OptInv, PhasesInv
  <2> QED BY <1>3, <1>4, <2>1, <2>3, <2>4 DEF OptInv
<1>7. CASE color = <<1, 1, 1>> /\ phase' = "append" /\ appended' = {} /\ UNCHANGED color
  <2>1. TypesInv'
    BY <1>1, <1>2, <1>7 DEF OptInv, TypesInv
  <2>2. ColoursInv'
    BY <1>7 DEF ColoursInv
  <2>3. \A j \in Cells : bagsCur[j] = <<>>
    <3> SUFFICES ASSUME NEW j \in Cells PROVE bagsCur[j] = <<>>
      OBVIOUS
    <3>1. PICK c \in Colours : BlockOf(j) \in Blocks(c)
      BY EveryCellColoured
    <3>2. Rank(c) \in 0 .. 7 /\ Rank(color) = 7
      BY <1>7, Ranks
    <3>3. Rank(c) < Rank(color) + 1
      BY <3>2
    <3> QED BY <1>5, <3>1, <3>3
  <2>4. \A j : ~Appended(j)'
    BY <1>7 DEF Appended
  <2>5. PhasesInv'
    BY <1>1, <1>7, <2>3, <2>4 DEF OptInv, PhasesInv
  <2> QED BY <1>3, <1>4, <2>1, <2>2, <2>5 DEF OptInv
<1> QED BY <1>6, <1>7, AfterColour

-----------------------------------------------------------------------------
(* The steps of the threads keep the invariant.                              *)

LEMMA ShareApart ==
  ASSUME TypesInv, NEW t \in Threads, t \notin appended
  PROVE  \A j \in StaticBlock(t, nbThreads, NumCells) : ~Appended(j)
BY BlocksApart, CellsCounted DEF Appended, TypesInv

LEMMA ShareAppended ==
  ASSUME OptInv, NEW t \in Threads, AppendAndReduce(t)
  PROVE  /\ phase = "append" /\ phase' = "append" /\ Appends(StaticBlock(t, nbThreads, NumCells))
         /\ \A j \in Cells : j \in StaticBlock(t, nbThreads, NumCells) => bagsCur[j] = <<>> /\ ~Appended(j)
         /\ \A j : Appended(j)' <=> Appended(j) \/ j \in StaticBlock(t, nbThreads, NumCells)
         /\ \A j : ChargeOf(j)' = ChargeOf(j)
         /\ \A j \in Cells : depositCells'[j] = IF j \in StaticBlock(t, nbThreads, NumCells) THEN ChargeOf(j) ELSE depositCells[j]
<1> DEFINE mine == StaticBlock(t, nbThreads, NumCells)
<1>1. /\ phase = "append" /\ t \notin appended /\ appended' = appended \cup {t}
      /\ UNCHANGED <<phase, nbCreated, idStep, color, push, depositThread, deposit, field>>
  BY DEF AppendAndReduce
<1>2. /\ bagsCur' = [j \in Cells |-> IF j \in mine THEN WithNexts(j) ELSE bagsCur[j]]
      /\ bagsNexts' = [kind \in {PRIVATE, SHARED} |-> [j \in Cells |-> IF j \in mine THEN <<>> ELSE bagsNexts[kind][j]]]
      /\ depositCells' = [j \in Cells |-> IF j \in mine THEN ChargeOf(j) ELSE depositCells[j]]
  BY DEF AppendAndReduce
<1> HIDE DEF mine
<1>3. Appends(mine)
  BY <1>1, <1>2 DEF Appends, Kinds
<1>4. \A j \in Cells : j \in mine => ~Appended(j)
  BY <1>1, ShareApart DEF OptInv, mine
<1>5. \A j \in Cells : j \in mine => bagsCur[j] = <<>>
  BY <1>1, <1>4 DEF OptInv, PhasesInv
<1>6. \A j : Appended(j)' <=> Appended(j) \/ j \in mine
  BY <1>1 DEF Appended, mine
<1>7. \A j : ChargeOf(j)' = ChargeOf(j)
  BY <1>1, ChargeSame
<1>8. \A j \in Cells : depositCells'[j] = IF j \in mine THEN ChargeOf(j) ELSE depositCells[j]
  BY <1>2
<1> QED BY <1>1, <1>3, <1>4, <1>5, <1>6, <1>7, <1>8 DEF mine

LEMMA AppendKeeps ==
  ASSUME OptInv, NEW t \in Threads, AppendAndReduce(t)
  PROVE  OptInv'
<1> DEFINE mine == StaticBlock(t, nbThreads, NumCells)
<1>1. /\ phase = "append" /\ phase' = "append" /\ Appends(mine)
      /\ \A j \in Cells : j \in mine => bagsCur[j] = <<>> /\ ~Appended(j)
      /\ \A j : Appended(j)' <=> Appended(j) \/ j \in mine
      /\ \A j : ChargeOf(j)' = ChargeOf(j)
      /\ \A j \in Cells : depositCells'[j] = IF j \in mine THEN ChargeOf(j) ELSE depositCells[j]
  BY ShareAppended
<1>2. /\ appended' = appended \cup {t}
      /\ UNCHANGED <<phase, nbCreated, idStep, color, push, depositThread, deposit, field>>
      /\ depositCells' = [j \in Cells |-> depositCells'[j]]
  BY DEF AppendAndReduce
<1> HIDE DEF mine
<1>3. /\ bagsCur' \in [Cells -> Seq(Nat)] /\ bagsNexts' \in [Kinds -> [Cells -> Seq(Nat)]]
      /\ \A j \in Cells : j \in mine => \A kind \in Kinds : bagsNexts'[kind][j] = <<>>
      /\ \A j \in Cells : j \notin mine => bagsCur'[j] = bagsCur[j] /\ \A kind \in Kinds : bagsNexts'[kind][j] = bagsNexts[kind][j]
  BY <1>1, BagsAfterAppend DEF OptInv
<1>4. \A j \in Cells : depositCells'[j] \in Nat
  BY <1>1, ChargeNatural DEF OptInv, TypesInv
<1>5. depositCells' \in [Cells -> Nat]
  <2> DEFINE d == depositCells'
  <2>1. d = [j \in Cells |-> d[j]] /\ \A j \in Cells : d[j] \in Nat
    BY <1>2, <1>4
  <2> HIDE DEF d
  <2>2. d \in [Cells -> Nat]
    BY <2>1
  <2> QED BY <2>2 DEF d
<1>6. ChargeTyped'
  BY <1>2, ChargeSame DEF OptInv, TypesInv
<1>7. TypesInv'
  BY <1>2, <1>3, <1>5, <1>6 DEF OptInv, TypesInv
<1>8. ColoursInv'
  BY <1>1 DEF ColoursInv
<1>9. PhasesInv'
  <2>1. ASSUME NEW j \in Cells
        PROVE  IF Appended(j)' THEN depositCells'[j] = ChargeOf(j)' /\ \A kind \in Kinds : bagsNexts'[kind][j] = <<>>
               ELSE bagsCur'[j] = <<>>
    <3>1. CASE j \in mine
      BY <1>1, <1>3, <3>1
    <3>2. CASE j \notin mine
      <4>1. IF Appended(j) THEN depositCells[j] = ChargeOf(j) /\ \A kind \in Kinds : bagsNexts[kind][j] = <<>>
            ELSE bagsCur[j] = <<>>
        BY <1>1 DEF OptInv, PhasesInv
      <4> QED BY <1>1, <1>3, <3>2, <4>1
    <3> QED BY <3>1, <3>2
  <2> QED BY <1>1, <1>2, <2>1 DEF OptInv, PhasesInv
<1>10. NumberedInv'
  BY <1>1, NoPushes, NumberedAppend DEF OptInv
<1>11. PushInv'
  BY <1>1, <1>2, NoPushes DEF OptInv, PushInv
<1> QED BY <1>7, <1>8, <1>9, <1>10, <1>11 DEF OptInv

\* What a push leaves as it is.
PushUnchanged ==
  UNCHANGED <<phase, nbCreated, idStep, color, bagsCur, depositThread, depositCells, appended, deposit, field>>

LEMMA InCoreKeeps ==
  ASSUME OptInv, PushUnchanged, phase = "core", push' \in [Threads -> Push],
         bagsNexts' \in [Kinds -> [Cells -> Seq(Nat)]]
  PROVE  TypesInv' /\ ColoursInv' /\ PhasesInv'
<1>1. UNCHANGED <<phase, nbCreated, idStep, color, bagsCur, depositThread, depositCells, appended, deposit, field>>
  BY DEF PushUnchanged
<1>2. ChargeTyped'
  BY <1>1, ChargeSame DEF OptInv, TypesInv
<1>3. TypesInv'
  BY <1>1, <1>2 DEF OptInv, TypesInv
<1>4. ColoursInv'
  BY <1>1 DEF OptInv, ColoursInv
<1>5. PhasesInv'
  BY <1>1 DEF OptInv, PhasesInv
<1> QED BY <1>3, <1>4, <1>5

\* A particle to move, and where it goes.
Chosen(t, r) ==
  /\ r \in Push /\ r.pc \in {"serial_take", "concurrent"}
  /\ r.pc = "serial_take" => isDistFromBlockLessThanHalfABlock(r.cell, BlockOf(r.from))
  /\ BlockOf(r.from) \in BlocksOfThread(t) /\ bagsCur[r.from] # <<>> /\ r.p = Head(bagsCur[r.from])
  /\ \E d \in Displacements[r.p] : r.cell = Shift(r.from, d)
  /\ push' = [push EXCEPT ![t] = r]

LEMMA ParticleChosen ==
  ASSUME OptInv, NEW t \in Threads, MoveParticle(t)
  PROVE  /\ phase = "core" /\ push[t].pc = "idle" /\ PushUnchanged /\ bagsNexts' = bagsNexts
         /\ \E r : Chosen(t, r)
<1>1. /\ phase = "core" /\ push[t].pc = "idle" /\ PushUnchanged /\ bagsNexts' = bagsNexts
  BY DEF MoveParticle, PushUnchanged
<1>2. PICK j \in Cells :
       /\ BlockOf(j) \in BlocksOfThread(t) /\ bagsCur[j] # <<>>
       /\ \E d \in Displacements[Head(bagsCur[j])] :
            push' = [push EXCEPT ![t] =
              [NoPush EXCEPT !.from = j, !.cell = Shift(j, d), !.p = Head(bagsCur[j]),
                 !.pc = IF isDistFromBlockLessThanHalfABlock(Shift(j, d), BlockOf(j))
                        THEN "serial_take" ELSE "concurrent"]]
  BY DEF MoveParticle
<1>3. PICK d \in Displacements[Head(bagsCur[j])] :
            push' = [push EXCEPT ![t] =
              [NoPush EXCEPT !.from = j, !.cell = Shift(j, d), !.p = Head(bagsCur[j]),
                 !.pc = IF isDistFromBlockLessThanHalfABlock(Shift(j, d), BlockOf(j))
                        THEN "serial_take" ELSE "concurrent"]]
  BY <1>2
<1> DEFINE cell == Shift(j, d)  p == Head(bagsCur[j])
           near == isDistFromBlockLessThanHalfABlock(cell, BlockOf(j))
           pc == IF near THEN "serial_take" ELSE "concurrent"
           r == [NoPush EXCEPT !.from = j, !.cell = cell, !.p = p, !.pc = pc]
<1>4. p \in 1 .. nbParticles
  <2>1. bagsCur[j] \in Seq(Nat)
    BY DEF OptInv, TypesInv
  <2>2. p = bagsCur[j][1] /\ InCur(j, 1)
    BY <1>2, <2>1, TailSlots DEF InCur
  <2>3. p \in 1 .. nbCreated /\ nbCreated \in 0 .. nbParticles /\ nbParticles \in Nat
    BY <2>2, OptimizedAssumption DEF OptInv, NumberedInv, CurNumbered, TypesInv
  <2> HIDE DEF p
  <2> QED BY <2>3
<1>5. cell \in Cells
  <2>1. d[1] \in Int /\ d[2] \in Int /\ d[3] \in Int
    BY <1>3, <1>4, OptimizedAssumption
  <2> QED BY <2>1, ShiftInMesh
<1>6. pc \in {"serial_take", "concurrent"} /\ (pc = "serial_take" => near)
  <2> HIDE DEF near
  <2> QED OBVIOUS
<1> HIDE DEF near, cell, p, pc
<1>7. r.from = j /\ r.cell = cell /\ r.p = p /\ r.pc = pc /\ r.index = 0
  BY DEF NoPush
<1>8. r \in Push
  <2>1. 0 \in Cells /\ "idle" \in PushPC /\ pc \in PushPC /\ p \in Nat
    BY <1>4, <1>6, <1>5, CellsCounted, OptimizedAssumption DEF PushPC, Cells
  <2>2. NoPush \in Push
    BY <2>1 DEF NoPush, Push
  <2>3. [NoPush EXCEPT !.from = j] \in Push
    BY <2>2 DEF Push
  <2>4. [NoPush EXCEPT !.from = j, !.cell = cell] \in Push
    BY <1>5, <2>3 DEF Push
  <2>5. [NoPush EXCEPT !.from = j, !.cell = cell, !.p = p] \in Push
    BY <2>1, <2>4 DEF Push
  <2> QED BY <2>1, <2>5 DEF Push
<1>9. push' = [push EXCEPT ![t] = r]
  BY <1>3 DEF near, cell, p, pc
<1>10. near => isDistFromBlockLessThanHalfABlock(cell, BlockOf(j))
  BY DEF near
<1> HIDE DEF r
<1>11. BlockOf(j) \in BlocksOfThread(t) /\ bagsCur[j] # <<>> /\ p = Head(bagsCur[j])
  BY <1>2 DEF p
<1>12. d \in Displacements[p] /\ cell = Shift(j, d)
  BY <1>3 DEF p, cell
<1>13. Chosen(t, r)
  BY <1>6, <1>7, <1>8, <1>9, <1>10, <1>11, <1>12 DEF Chosen
<1> QED BY <1>1, <1>13

LEMMA MoveKeeps ==
  ASSUME OptInv, NEW t \in Threads, MoveParticle(t)
  PROVE  OptInv'
<1>1. phase = "core" /\ push[t].pc = "idle" /\ PushUnchanged /\ bagsNexts' = bagsNexts
  BY ParticleChosen
<1>2. PICK r : Chosen(t, r)
  BY ParticleChosen
<1>3. r \in Push /\ push' = [push EXCEPT ![t] = r] /\ push \in [Threads -> Push] /\ r.pc \in {"serial_take", "concurrent"}
  BY <1>2 DEF Chosen, OptInv, TypesInv
<1>4. UNCHANGED <<phase, nbCreated, idStep, color, bagsCur, depositThread, depositCells, appended, deposit, field>>
  BY <1>1 DEF PushUnchanged
<1>5. push' \in [Threads -> Push] /\ push'[t] = r /\ \A u \in Threads : u # t => push'[u] = push[u]
  BY <1>3
<1>6. TypesInv' /\ ColoursInv' /\ PhasesInv'
  BY <1>1, <1>4, <1>5, InCoreKeeps DEF OptInv, TypesInv
<1>7. NumberedInv'
  <2>1. \A u \in Threads : Moved(u) => Moved(u)' /\ push'[u].from = push[u].from
    BY <1>1, <1>5 DEF Moved
  <2>2. \A j, i : Passed(j, i) => Passed(j, i)'
    BY <2>1 DEF Passed
  <2> QED BY <1>1, <1>4, <2>2, NumberedSame DEF OptInv, BagsSame
<1>8. BlocksOfThread(t)' = BlocksOfThread(t)
  BY <1>4, SharesSame
<1>9. PushOf(t)'
  BY <1>1, <1>2, <1>3, <1>4, <1>5, <1>8 DEF Chosen, PushOf
<1>10. ASSUME NEW u \in Threads, u # t PROVE (push[u].pc # "idle" => PushOf(u))'
  BY <1>1, <1>4, <1>5, <1>10, PushSame DEF OptInv, PushInv
<1>11. PushInv'
  BY <1>9, <1>10 DEF PushInv
<1> QED BY <1>6, <1>7, <1>11 DEF OptInv

LEMMA TakeKeeps ==
  ASSUME OptInv, NEW t \in Threads, PushUnchanged, SerialTake(t)
  PROVE  OptInv'
<1> DEFINE r == [push[t] EXCEPT !.index = Len(bagsNexts[PRIVATE][push[t].cell]), !.pc = "serial_write"]
<1>1. push[t].pc = "serial_take" /\ bagsNexts' = bagsNexts
  BY DEF SerialTake
<1>2. PushOf(t) /\ push[t] \in Push /\ push \in [Threads -> Push] /\ phase = "core"
  BY <1>1 DEF OptInv, PushInv, PushOf, TypesInv
<1>3. push' = [push EXCEPT ![t] = r]
  BY DEF SerialTake
<1>4. UNCHANGED <<phase, nbCreated, idStep, color, bagsCur, depositThread, depositCells, appended, deposit, field>>
  BY DEF PushUnchanged
<1>5. Len(bagsNexts[PRIVATE][push[t].cell]) \in Nat
  <2>1. bagsNexts[PRIVATE][push[t].cell] \in Seq(Nat)
    BY <1>2, HeadSlot DEF OptInv, TypesInv, Kinds
  <2> QED BY <2>1
<1>6. r \in Push
  <2>1. [push[t] EXCEPT !.index = Len(bagsNexts[PRIVATE][push[t].cell])] \in Push
    BY <1>2, <1>5 DEF Push
  <2>2. "serial_write" \in PushPC
    BY DEF PushPC
  <2> QED BY <2>1, <2>2 DEF Push
<1>7. /\ r.pc = "serial_write" /\ r.from = push[t].from /\ r.cell = push[t].cell /\ r.p = push[t].p
      /\ r.index = Len(bagsNexts[PRIVATE][push[t].cell])
  BY <1>2 DEF Push
<1> HIDE DEF r
<1>8. push' \in [Threads -> Push] /\ push'[t] = r /\ \A u \in Threads : u # t => push'[u] = push[u]
  BY <1>2, <1>3, <1>6
<1>9. TypesInv' /\ ColoursInv' /\ PhasesInv'
  BY <1>1, <1>2, <1>8, InCoreKeeps DEF OptInv, TypesInv
<1>10. NumberedInv'
  <2>1. \A u \in Threads : Moved(u) => Moved(u)' /\ push'[u].from = push[u].from
    BY <1>1, <1>8 DEF Moved
  <2>2. \A j, i : Passed(j, i) => Passed(j, i)'
    BY <2>1 DEF Passed
  <2> QED BY <1>1, <1>4, <2>2, NumberedSame DEF OptInv, BagsSame
<1>11. BlocksOfThread(t)' = BlocksOfThread(t)
  BY <1>4, SharesSame
<1>12. PushOf(t)'
  BY <1>1, <1>2, <1>4, <1>7, <1>8, <1>11 DEF PushOf
<1>13. ASSUME NEW u \in Threads, u # t PROVE (push[u].pc # "idle" => PushOf(u))'
  BY <1>1, <1>4, <1>8, <1>13, PushSame DEF OptInv, PushInv
<1>14. PushInv'
  BY <1>12, <1>13 DEF PushInv
<1> QED BY <1>9, <1>10, <1>14 DEF OptInv

LEMMA WriteKeeps ==
  ASSUME OptInv, NEW t \in Threads, NEW kind \in Kinds, PushUnchanged, Writes(t, kind),
         push' = [push EXCEPT ![t].pc = "returned"],
         kind = PRIVATE => \A u \in Threads : u # t /\ push[u].pc = "serial_write" => push[u].cell # push[t].cell
  PROVE  OptInv'
<1>1. push[t].pc # "idle" /\ PushOf(t) /\ push[t] \in Push /\ push \in [Threads -> Push] /\ phase = "core"
  BY DEF Writes, OptInv, PushInv, PushOf, TypesInv
<1>2. UNCHANGED <<phase, nbCreated, idStep, color, bagsCur, depositThread, depositCells, appended, deposit, field>>
  BY DEF PushUnchanged
<1>3. /\ push' \in [Threads -> Push] /\ push'[t] = [push[t] EXCEPT !.pc = "returned"]
      /\ \A u \in Threads : u # t => push'[u] = push[u]
  <2>1. "returned" \in PushPC
    BY DEF PushPC
  <2>2. [push[t] EXCEPT !.pc = "returned"] \in Push
    BY <1>1, <2>1 DEF Push
  <2> QED BY <1>1, <2>2
<1>4. /\ bagsNexts' \in [Kinds -> [Cells -> Seq(Nat)]]
      /\ \A b \in Kinds, k \in Cells : b # kind \/ k # push[t].cell => bagsNexts'[b][k] = bagsNexts[b][k]
  BY <1>1, NextAfterWrite DEF OptInv
<1>5. TypesInv' /\ ColoursInv' /\ PhasesInv'
  BY <1>1, <1>3, <1>4, InCoreKeeps
<1>6. NumberedInv'
  BY NumberedWrite
<1>7. BlocksOfThread(t)' = BlocksOfThread(t)
  BY <1>2, SharesSame
<1>8. PushOf(t)'
  <2>1. /\ push'[t].from = push[t].from /\ push'[t].cell = push[t].cell /\ push'[t].p = push[t].p
        /\ push'[t].pc = "returned"
    BY <1>1, <1>3 DEF Push
  <2> QED BY <1>1, <1>2, <1>7, <2>1 DEF PushOf
<1>9. ASSUME NEW u \in Threads, u # t PROVE (push[u].pc # "idle" => PushOf(u))'
  <2>1. push[u].pc # "idle" => PushOf(u)
    BY DEF OptInv, PushInv
  <2>2. push[u].cell \in Cells /\ PRIVATE \in Kinds
    BY DEF OptInv, TypesInv, Push, Kinds
  <2>3. push[u].pc = "serial_write" => bagsNexts'[PRIVATE][push[u].cell] = bagsNexts[PRIVATE][push[u].cell]
    BY <1>4, <1>9, <2>2
  <2>4. TypesInv /\ push'[u] = push[u] /\ bagsCur'[push[u].from] = bagsCur[push[u].from] /\ UNCHANGED <<phase, color>>
    BY <1>2, <1>3, <1>9 DEF OptInv
  <2> QED BY <2>1, <2>3, <2>4, PushSame
<1>10. PushInv'
  BY <1>8, <1>9 DEF PushInv
<1> QED BY <1>5, <1>6, <1>10 DEF OptInv

\* A serial push writes at the end of the bag, as no other thread has pushed in it since.
LEMMA SerialWrites ==
  ASSUME OptInv, NEW t \in Threads, PushUnchanged, SerialWrite(t)
  PROVE  Writes(t, PRIVATE) /\ push' = [push EXCEPT ![t].pc = "returned"]
<1>1. push[t].pc = "serial_write" /\ PushOf(t) /\ push[t] \in Push /\ push \in [Threads -> Push]
  BY DEF SerialWrite, OptInv, PushInv, TypesInv
<1> DEFINE s == bagsNexts[PRIVATE][push[t].cell]
<1>2. s \in Seq(Nat) /\ push[t].cell \in Cells
  BY <1>1, HeadSlot DEF OptInv, TypesInv, Kinds
<1>3. SubSeq(s, 1, push[t].index) = s
  <2>1. push[t].index = Len(s)
    BY <1>1 DEF PushOf
  <2>2. \A u \in Seq(Nat) : SubSeq(u, 1, Len(u)) = u
    OBVIOUS
  <2> QED BY <1>2, <2>1, <2>2
<1>4. bagsNexts' = [bagsNexts EXCEPT ![PRIVATE][push[t].cell] = Append(SubSeq(s, 1, push[t].index), push[t].p)]
  BY DEF SerialWrite
<1>5. bagsNexts' = [bagsNexts EXCEPT ![PRIVATE][push[t].cell] = Append(s, push[t].p)]
  BY <1>3, <1>4
<1>6. push' = [push EXCEPT ![t].pc = "returned"] /\ bagsCur' = bagsCur /\ nbCreated' = nbCreated
  BY DEF SerialWrite, PushUnchanged
<1>7. push'[t] = [push[t] EXCEPT !.pc = "returned"] /\ \A u \in Threads : u # t => push'[u] = push[u]
  BY <1>1, <1>6
<1>8. /\ push'[t].pc = "returned" /\ push'[t].from = push[t].from /\ push'[t].cell = push[t].cell
      /\ push'[t].p = push[t].p
  BY <1>1, <1>7 DEF Push
<1> QED BY <1>1, <1>5, <1>6, <1>7, <1>8 DEF Writes, Moved

LEMMA ConcurrentWrites ==
  ASSUME OptInv, NEW t \in Threads, PushUnchanged, ConcurrentPush(t)
  PROVE  Writes(t, SHARED) /\ push' = [push EXCEPT ![t].pc = "returned"]
<1>1. push[t].pc = "concurrent" /\ push[t] \in Push /\ push \in [Threads -> Push]
  BY DEF ConcurrentPush, OptInv, TypesInv
<1>2. /\ bagsNexts' = [bagsNexts EXCEPT ![SHARED][push[t].cell] = Append(@, push[t].p)]
      /\ push' = [push EXCEPT ![t].pc = "returned"] /\ bagsCur' = bagsCur /\ nbCreated' = nbCreated
  BY DEF ConcurrentPush, PushUnchanged
<1>3. push'[t] = [push[t] EXCEPT !.pc = "returned"] /\ \A u \in Threads : u # t => push'[u] = push[u]
  BY <1>1, <1>2
<1>4. /\ push'[t].pc = "returned" /\ push'[t].from = push[t].from /\ push'[t].cell = push[t].cell
      /\ push'[t].p = push[t].p
  BY <1>1, <1>3 DEF Push
<1> QED BY <1>1, <1>2, <1>3, <1>4 DEF Writes, Moved

\* A push goes on without writing, or writes.
LEMMA PushWrites ==
  ASSUME OptInv, SerialPushExclusive, NEW t \in Threads, PushParticle(t), ~SerialTake(t)
  PROVE  /\ PushUnchanged
         /\ \E kind \in Kinds :
              /\ Writes(t, kind) /\ push' = [push EXCEPT ![t].pc = "returned"]
              /\ kind = PRIVATE => \A u \in Threads : u # t /\ push[u].pc = "serial_write" => push[u].cell # push[t].cell
<1>1. PushUnchanged /\ (SerialWrite(t) \/ ConcurrentPush(t))
  BY DEF PushParticle, PushUnchanged
<1>2. PRIVATE \in Kinds /\ SHARED \in Kinds /\ PRIVATE # SHARED
  BY DEF Kinds, PRIVATE, SHARED
<1>3. CASE SerialWrite(t)
  <2>1. Writes(t, PRIVATE) /\ push' = [push EXCEPT ![t].pc = "returned"]
    BY <1>1, <1>3, SerialWrites
  <2>2. \A u \in Threads : u # t /\ push[u].pc = "serial_write" => push[u].cell # push[t].cell
    BY <1>3 DEF SerialWrite, SerialPushExclusive, InSerialPush
  <2> QED BY <1>1, <1>2, <2>1, <2>2
<1>4. CASE ConcurrentPush(t)
  <2>1. Writes(t, SHARED) /\ push' = [push EXCEPT ![t].pc = "returned"]
    BY <1>1, <1>4, ConcurrentWrites
  <2> QED BY <1>1, <1>2, <2>1
<1> QED BY <1>1, <1>3, <1>4

LEMMA PushKeeps ==
  ASSUME OptInv, SerialPushExclusive, NEW t \in Threads, PushParticle(t)
  PROVE  OptInv'
<1>1. CASE SerialTake(t)
  <2>1. PushUnchanged
    BY DEF PushParticle, PushUnchanged
  <2> QED BY <1>1, <2>1, TakeKeeps
<1>2. CASE ~SerialTake(t)
  BY <1>2, PushWrites, WriteKeeps
<1> QED BY <1>1, <1>2

LEMMA ChargeLeaves ==
  ASSUME OptInv, NEW t \in Threads, DepositCharge(t)
  PROVE  /\ Leaves(t) /\ PushOf(t) /\ push' \in [Threads -> Push] /\ push'[t].pc = "idle"
         /\ UNCHANGED <<phase, nbCreated, idStep, color, bagsNexts, depositCells, appended, deposit, field>>
         /\ depositThread' = [depositThread EXCEPT ![t][push[t].cell] = @ + 1]
<1>1. /\ push[t].pc = "returned" /\ push' = [push EXCEPT ![t] = NoPush]
      /\ bagsCur' = [bagsCur EXCEPT ![push[t].from] = Tail(@)]
      /\ depositThread' = [depositThread EXCEPT ![t][push[t].cell] = @ + 1]
      /\ UNCHANGED <<phase, nbCreated, idStep, color, bagsNexts, depositCells, appended, deposit, field>>
  BY DEF DepositCharge
<1>2. push \in [Threads -> Push] /\ PushOf(t)
  BY <1>1 DEF OptInv, TypesInv, PushInv
<1>3. NoPush \in Push /\ NoPush.pc = "idle"
  <2>1. 0 \in Cells
    BY <1>2, HeadSlot, CellsCounted DEF Cells, OptInv
  <2> QED BY <2>1 DEF NoPush, Push, PushPC
<1>4. push' \in [Threads -> Push] /\ push'[t] = NoPush /\ \A u \in Threads : u # t => push'[u] = push[u]
  BY <1>1, <1>2, <1>3
<1>5. Leaves(t)
  BY <1>1, <1>3, <1>4 DEF Leaves, Moved
<1> QED BY <1>1, <1>2, <1>3, <1>4, <1>5

LEMMA DepositKeeps ==
  ASSUME OptInv, NEW t \in Threads, DepositCharge(t)
  PROVE  OptInv'
<1>1. /\ Leaves(t) /\ PushOf(t) /\ push' \in [Threads -> Push] /\ push'[t].pc = "idle"
      /\ UNCHANGED <<phase, nbCreated, idStep, color, bagsNexts, depositCells, appended, deposit, field>>
      /\ depositThread' = [depositThread EXCEPT ![t][push[t].cell] = @ + 1]
  BY ChargeLeaves
<1>2. push[t].from \in Cells /\ push[t].cell \in Cells /\ phase = "core" /\ push[t].pc = "returned"
  BY <1>1, HeadSlot DEF OptInv, PushOf, Leaves, Moved
<1>3. /\ bagsCur' \in [Cells -> Seq(Nat)] /\ bagsCur[push[t].from] # <<>>
      /\ \A k \in Cells : k # push[t].from => bagsCur'[k] = bagsCur[k]
  BY <1>1, CurAfterLeave DEF OptInv
<1>4. ChargeTyped'
  BY <1>1, <1>2, ChargeGrows DEF OptInv, TypesInv
<1>5. TypesInv'
  BY <1>1, <1>3, <1>4 DEF OptInv, TypesInv
<1>6. ColoursInv'
  <2> SUFFICES ASSUME NEW c \in Colours, NEW j \in Cells, Rank(c) < Rank(color), BlockOf(j) \in Blocks(c)
               PROVE  bagsCur'[j] = <<>>
    BY <1>1 DEF ColoursInv, Rank
  <2>1. bagsCur[j] = <<>>
    BY <1>2 DEF OptInv, ColoursInv
  <2> QED BY <1>3, <2>1
<1>7. PhasesInv'
  BY <1>1, <1>2 DEF OptInv, PhasesInv
<1>8. NumberedInv'
  BY <1>1, NumberedLeave
<1>9. ASSUME NEW u \in Threads PROVE (push[u].pc # "idle" => PushOf(u))'
  <2>1. CASE u = t
    BY <1>1, <2>1
  <2>2. CASE u # t
    <3>1. push[u].pc # "idle" => push[u].from # push[t].from
      BY <1>2, <2>2, PushesApart
    <3>2. push[u].pc # "idle" => PushOf(u)
      BY DEF OptInv, PushInv
    <3>3. push'[u] = push[u] /\ push[u].from \in Cells
      BY <1>1, <2>2 DEF Leaves, OptInv, TypesInv, Push
    <3>4. CASE push[u].pc = "idle"
      BY <3>3, <3>4
    <3>5. CASE push[u].pc # "idle"
      BY <1>1, <1>3, <3>1, <3>2, <3>3, <3>5, PushSame DEF OptInv
    <3> QED BY <3>4, <3>5
  <2> QED BY <2>1, <2>2
<1>10. PushInv'
  BY <1>9 DEF PushInv
<1> QED BY <1>5, <1>6, <1>7, <1>8, <1>10 DEF OptInv

LEMMA StutterKeeps ==
  ASSUME OptInv, UNCHANGED optVars
  PROVE  OptInv'
<1>1. UNCHANGED <<phase, nbCreated, idStep, color, bagsCur, bagsNexts, push, depositThread, depositCells, appended, deposit, field>>
  BY DEF optVars
<1>2. ChargeTyped' /\ \A j : ChargeOf(j)' = ChargeOf(j)
  BY <1>1, ChargeSame DEF OptInv, TypesInv
<1>3. TypesInv' /\ ColoursInv'
  BY <1>1, <1>2 DEF OptInv, TypesInv, ColoursInv
<1>4. PhasesInv'
  BY <1>1, <1>2 DEF OptInv, PhasesInv, Appended
<1>5. NumberedInv'
  BY <1>1, NumberedSame DEF OptInv, BagsSame, Passed, Moved
<1>6. PushInv'
  BY <1>1, PushSame DEF OptInv, PushInv
<1> QED BY <1>3, <1>4, <1>5, <1>6 DEF OptInv

LEMMA OptInvKept ==
  ASSUME OptInv, SerialPushExclusive, [OptNext]_optVars
  PROVE  OptInv'
<1>1. CASE addParticle
  <2>1. PICK j \in InitialCells[nbCreated'] : /\ bagsCur' = [bagsCur EXCEPT ![j] = Append(@, nbCreated')]
                                              /\ deposit' = [deposit EXCEPT ![j] = @ + 1]
    BY <1>1 DEF addParticle
  <2>2. nbCreated' = nbCreated + 1
    BY <1>1 DEF addParticle
  <2> QED BY <1>1, <2>1, <2>2, CreateKeeps
<1>2. CASE stepLeapFrog
  BY <1>2, StartKeeps
<1>3. CASE NextColor
  BY <1>3, ColourKeeps
<1>4. CASE EndStep
  BY <1>4, EndKeeps
<1>5. ASSUME NEW t \in Threads, OptThread(t)
      PROVE  OptInv'
  BY <1>5, MoveKeeps, PushKeeps, DepositKeeps, AppendKeeps DEF OptThread
<1>6. CASE UNCHANGED optVars
  BY <1>6, StutterKeeps
<1> QED BY <1>1, <1>2, <1>3, <1>4, <1>5, <1>6 DEF OptNext

LEMMA OptInvAtStart ==
  ASSUME OptInit
  PROVE  OptInv
<1>1. /\ phase = "create" /\ nbCreated = 0 /\ idStep = 0 /\ color = <<0, 0, 0>>
      /\ bagsCur = [j \in Cells |-> <<>>] /\ bagsNexts = [kind \in Kinds |-> [j \in Cells |-> <<>>]]
      /\ push = [t \in Threads |-> NoPush]
      /\ depositThread = [t \in Threads |-> NoCharge] /\ depositCells = NoCharge
      /\ appended = {} /\ deposit = NoCharge
  BY DEF OptInit, EmptyBags, Kinds
<1>2. 0 \in Cells
  <2>1. ncx * ncy \in Nat /\ ncx * ncy > 0
    BY MeshSizes
  <2>2. ncx * ncy * ncz > 0
    BY <2>1, MeshSizes
  <2> QED BY <2>2, CellsCounted DEF Cells, NumCells
<1>3. NoPush \in Push /\ NoPush.pc = "idle"
  BY <1>2 DEF NoPush, Push, PushPC
<1>4. push \in [Threads -> Push] /\ \A t \in Threads : push[t].pc = "idle"
  BY <1>1, <1>3
<1>5. color \in Colours
  BY <1>1 DEF Colours
<1>6. bagsCur \in [Cells -> Seq(Nat)] /\ bagsNexts \in [Kinds -> [Cells -> Seq(Nat)]]
  BY <1>1, EmptySlots
<1>7. ChargeTyped /\ deposit \in [Cells -> Nat] /\ depositCells \in [Cells -> Nat]
  BY <1>1 DEF ChargeTyped, NoCharge
<1>8. TypesInv
  BY <1>1, <1>4, <1>5, <1>6, <1>7, OptimizedAssumption DEF TypesInv
<1>9. \A j, i, kind : ~InCur(j, i) /\ ~InNext(kind, j, i)
  <2>1. \A j, i : ~InCur(j, i)
    BY <1>1, EmptySlots DEF InCur
  <2>2. \A kind, j, i : ~InNext(kind, j, i)
    BY <1>1, EmptySlots DEF InNext
  <2> QED BY <2>1, <2>2
<1>10. NumberedInv
  BY <1>9 DEF NumberedInv, CurNumbered, NextNumbered, OnceInCur, OnceInNext, InBothPassed
<1>11. ColoursInv /\ PhasesInv /\ PushInv
  BY <1>1, <1>4 DEF ColoursInv, PhasesInv, PushInv
<1> QED BY <1>8, <1>10, <1>11 DEF OptInv

-----------------------------------------------------------------------------
(* Steps of the naive program, and steps that are none.                      *)

LEMMA SameMesh ==
  /\ Demo!Cells = Cells /\ Demo!NoCharge = [j \in Cells |-> 0] /\ Demo!EmptyBags = [j \in Cells |-> {}]
  /\ \A j, d : Demo!Shift(j, d) = Shift(j, d)
<1>1. Demo!Cells = Cells
  BY DEF Demo!Cells, Demo!NumCells, Cells, NumCells
<1> QED BY <1>1 DEF Demo!NoCharge, Demo!EmptyBags, Demo!Shift, Demo!CellOf, Demo!CellX, Demo!CellY, Demo!CellZ,
                    Shift, CellOf, CellX, CellY, CellZ

\* The particles that have moved but are still in the bag that is read.
Movers == {push[t].p : t \in {u \in Threads : Moved(u)}}

LEMMA NoMovers ==
  ASSUME \A u \in Threads : ~Moved(u)
  PROVE  Movers = {}
BY DEF Movers

LEMMA MoversSame ==
  ASSUME \A u \in Threads : (Moved(u)' <=> Moved(u)) /\ (Moved(u) => push'[u] = push[u])
  PROVE  Movers' = Movers
BY DEF Movers

LEMMA BagsAre ==
  /\ \A j : BagCur(j) = IF phase = "append" THEN {} ELSE Items(bagsCur[j]) \ Movers
  /\ \A j : BagNext(j) = IF phase = "append" /\ Appended(j) THEN Items(bagsCur[j])
                         ELSE Items(bagsNexts[PRIVATE][j]) \cup Items(bagsNexts[SHARED][j])
BY DEF BagCur, BagNext, Movers

LEMMA BagsAreNext ==
  /\ \A j : BagCur(j)' = IF phase' = "append" THEN {} ELSE Items(bagsCur'[j]) \ Movers'
  /\ \A j : BagNext(j)' = IF phase' = "append" /\ Appended(j)' THEN Items(bagsCur'[j])
                          ELSE Items(bagsNexts'[PRIVATE][j]) \cup Items(bagsNexts'[SHARED][j])
BY DEF BagCur, BagNext, Movers, Items

LEMMA ItemsSame ==
  ASSUME UNCHANGED <<phase, bagsCur, bagsNexts, appended>>, Movers' = Movers
  PROVE  \A j : BagCur(j)' = BagCur(j) /\ BagNext(j)' = BagNext(j)
<1>1. \A j : Appended(j)' <=> Appended(j)
  BY DEF Appended
<1> QED BY <1>1, BagsAre, BagsAreNext

LEMMA DemoStays ==
  ASSUME \A j \in Cells : BagCur(j)' = BagCur(j) /\ BagNext(j)' = BagNext(j) /\ DepositAt(j)' = DepositAt(j),
         UNCHANGED <<nbCreated, field, idStep>>, phase = "create" <=> phase' = "create"
  PROVE  UNCHANGED Demo!demoVars
<1>1. BagsCur' = BagsCur /\ BagsNext' = BagsNext /\ DepositOfCells' = DepositOfCells
  BY DEF BagsCur, BagsNext, DepositOfCells
<1> QED BY <1>1 DEF Demo!demoVars

LEMMA CreateImplements ==
  ASSUME OptInv, addParticle
  PROVE  Demo!addParticle
<1>1. /\ phase = "create" /\ nbCreated < nbParticles /\ nbCreated' = nbCreated + 1
      /\ UNCHANGED <<phase, idStep, color, bagsNexts, push, depositThread, depositCells, appended, field>>
  BY DEF addParticle
<1>2. PICK j \in InitialCells[nbCreated'] : /\ bagsCur' = [bagsCur EXCEPT ![j] = Append(@, nbCreated')]
                                            /\ deposit' = [deposit EXCEPT ![j] = @ + 1]
  BY DEF addParticle
<1>3. j \in Cells /\ nbCreated' \in Nat
  <2>1. j \in InitialCells[nbCreated + 1]
    BY <1>1, <1>2
  <2>2. j \in Cells
    BY <1>2, <2>1, CreateKeeps
  <2>3. nbCreated \in Nat
    BY DEF OptInv, TypesInv
  <2> QED BY <1>1, <2>2, <2>3
<1>4. bagsCur \in [Cells -> Seq(Nat)] /\ deposit \in [Cells -> Nat]
  BY DEF OptInv, TypesInv
<1>5. Movers = {} /\ Movers' = {}
  BY <1>1, NoPushes, NoMovers, MoversSame DEF OptInv, Moved
<1>6. \A i \in Cells : BagCur(i)' = IF i = j THEN BagCur(i) \cup {nbCreated'} ELSE BagCur(i)
  <2> SUFFICES ASSUME NEW i \in Cells PROVE BagCur(i)' = IF i = j THEN BagCur(i) \cup {nbCreated'} ELSE BagCur(i)
    OBVIOUS
  <2>1. BagCur(i) = Items(bagsCur[i]) /\ BagCur(i)' = Items(bagsCur'[i])
    BY <1>1, <1>5, BagsAre, BagsAreNext
  <2>2. CASE i = j
    <3>1. bagsCur'[i] = Append(bagsCur[i], nbCreated') /\ bagsCur[i] \in Seq(Nat)
      BY <1>2, <1>4, <2>2
    <3>2. Items(bagsCur'[i]) = Items(bagsCur[i]) \cup {nbCreated'}
      BY <1>3, <3>1, AppendSlots
    <3> QED BY <2>1, <2>2, <3>2
  <2>3. CASE i # j
    BY <1>2, <1>4, <2>1, <2>3
  <2> QED BY <2>2, <2>3
<1>7. \A i \in Cells : BagNext(i)' = BagNext(i)
  BY <1>1, BagsAre, BagsAreNext
<1>8. \A i \in Cells : DepositAt(i)' = IF i = j THEN DepositAt(i) + 1 ELSE DepositAt(i)
  BY <1>1, <1>2, <1>4 DEF DepositAt
<1>9. BagsCur' = [BagsCur EXCEPT ![j] = @ \cup {nbCreated'}] /\ BagsNext' = BagsNext
  BY <1>6, <1>7 DEF BagsCur, BagsNext
<1>10. DepositOfCells' = [DepositOfCells EXCEPT ![j] = @ + 1]
  BY <1>3, <1>8 DEF DepositOfCells
<1> QED BY <1>1, <1>3, <1>9, <1>10, SameMesh DEF Demo!addParticle

\* At the beginning of a step nothing is deposited.
LEMMA NothingDeposited ==
  ASSUME Begins, \A u \in Threads : ~Moved(u)
  PROVE  phase' \in {"core", "done"} /\ \A j \in Cells : DepositAt(j)' = 0
<1>1. /\ deposit' = NoCharge /\ push' = push
      /\ phase' = IF idStep' < nbSteps THEN "core" ELSE "done"
      /\ depositThread' = IF idStep' < nbSteps THEN [t \in Threads |-> NoCharge] ELSE depositThread
  BY DEF Begins, BeginStep
<1>2. \A j : NotYetDeposited(j)' = 0
  <2>1. \A u \in Threads : ~Moved(u)'
    BY <1>1 DEF Moved
  <2> QED BY <2>1, NoneMovedNext
<1>3. CASE idStep' < nbSteps
  <2>1. \A j \in Cells : ChargeOf(j)' = 0
    BY <1>1, <1>3, ChargeReset
  <2> QED BY <1>1, <1>2, <1>3, <2>1 DEF DepositAt
<1>4. CASE ~(idStep' < nbSteps)
  BY <1>1, <1>4 DEF DepositAt, NoCharge
<1> QED BY <1>3, <1>4

LEMMA StartImplements ==
  ASSUME OptInv, stepLeapFrog
  PROVE  Demo!stepLeapFrog
<1>1. /\ phase = "create" /\ nbCreated = nbParticles /\ field' = deposit /\ Begins /\ idStep' = idStep
      /\ UNCHANGED <<nbCreated, bagsCur, bagsNexts, push, depositCells, appended>>
  BY DEF stepLeapFrog, Begins, OptInv, TypesInv
<1>2. \A u \in Threads : ~Moved(u)
  BY <1>1, NoPushes DEF OptInv
<1>3. phase' \in {"core", "done"} /\ \A j \in Cells : DepositAt(j)' = 0
  BY <1>1, <1>2, NothingDeposited
<1>4. Movers' = Movers
  BY <1>1, MoversSame DEF Moved
<1>5. \A j : BagCur(j)' = BagCur(j) /\ BagNext(j)' = BagNext(j)
  BY <1>1, <1>3, <1>4, BagsAre, BagsAreNext
<1>6. BagsCur' = BagsCur /\ BagsNext' = BagsNext
  BY <1>5 DEF BagsCur, BagsNext
<1>7. DepositOfCells = deposit /\ DepositOfCells' = [j \in Cells |-> 0]
  <2>1. deposit = [j \in Cells |-> deposit[j]]
    BY DEF OptInv, TypesInv
  <2> QED BY <1>1, <1>3, <2>1 DEF DepositOfCells, DepositAt
<1> QED BY <1>1, <1>3, <1>6, <1>7, SameMesh DEF Demo!stepLeapFrog, Demo!updateFieldUsingDeposit

LEMMA EndImplements ==
  ASSUME OptInv, EndStep
  PROVE  Demo!EndStep
<1>1. /\ phase = "append" /\ appended = Threads /\ field' = depositCells /\ Begins /\ idStep' = idStep + 1
      /\ UNCHANGED <<nbCreated, bagsCur, bagsNexts, push, depositCells, appended>>
  BY DEF EndStep, Begins, OptInv, TypesInv
<1>2. \A u \in Threads : ~Moved(u) /\ ~Moved(u)'
  BY <1>1, NoPushes DEF OptInv, Moved
<1>3. phase' \in {"core", "done"} /\ \A j \in Cells : DepositAt(j)' = 0
  BY <1>1, <1>2, NothingDeposited
<1>4. Movers = {} /\ Movers' = {}
  BY <1>2, NoMovers DEF Movers
<1>5. \A j \in Cells : /\ Appended(j) /\ depositCells[j] = ChargeOf(j)
                       /\ bagsNexts[PRIVATE][j] = <<>> /\ bagsNexts[SHARED][j] = <<>>
  BY <1>1, AllAppended DEF Kinds
<1>6. \A j \in Cells : BagCur(j) = {} /\ BagNext(j)' = {} /\ BagCur(j)' = BagNext(j)
  <2> SUFFICES ASSUME NEW j \in Cells PROVE BagCur(j) = {} /\ BagNext(j)' = {} /\ BagCur(j)' = BagNext(j)
    OBVIOUS
  <2>1. BagCur(j) = {} /\ BagNext(j) = Items(bagsCur[j])
    BY <1>1, <1>5, BagsAre
  <2>2. BagCur(j)' = Items(bagsCur[j])
    BY <1>1, <1>3, <1>4, BagsAreNext
  <2>3. BagNext(j)' = Items(<<>>) \cup Items(<<>>)
    BY <1>1, <1>3, <1>5, BagsAreNext
  <2> QED BY <2>1, <2>2, <2>3, EmptySlots
<1>7. BagsCur = [j \in Cells |-> {}] /\ BagsNext' = [j \in Cells |-> {}] /\ BagsCur' = BagsNext
  BY <1>6 DEF BagsCur, BagsNext
<1>8. \A j \in Cells : DepositAt(j) = depositCells[j]
  <2>1. \A j : NotYetDeposited(j) = 0
    BY <1>2, NoneMoved
  <2> QED BY <1>1, <1>5, <2>1 DEF DepositAt, OptInv, TypesInv
<1>9. field' = DepositOfCells /\ DepositOfCells' = [j \in Cells |-> 0]
  <2>1. depositCells = [j \in Cells |-> depositCells[j]]
    BY DEF OptInv, TypesInv
  <2> QED BY <1>1, <1>3, <1>8, <2>1 DEF DepositOfCells
<1>10. idStep < nbSteps /\ phase # "create" /\ phase' # "create"
  BY <1>1, <1>3 DEF OptInv, PhasesInv
<1> QED BY <1>1, <1>7, <1>9, <1>10, SameMesh DEF Demo!EndStep, Demo!updateFieldUsingDeposit

\* What is known of a particle at its place.
LEMMA MoverIsHead ==
  ASSUME OptInv, NEW u \in Threads, Moved(u)
  PROVE  PushOf(u) /\ InCur(push[u].from, 1) /\ bagsCur[push[u].from][1] = push[u].p
BY HeadSlot DEF OptInv, PushInv, Moved

LEMMA WriteImplements ==
  ASSUME OptInv, NEW t \in Threads, NEW kind \in Kinds, PushUnchanged, Writes(t, kind)
  PROVE  Demo!MoveParticle
<1> DEFINE j == push[t].from  cell == push[t].cell  p == push[t].p
<1>1. PushOf(t) /\ phase = "core" /\ push[t].pc # "idle" /\ ~Moved(t) /\ TypesInv
  BY DEF OptInv, PushInv, PushOf, Writes
<1>2. j \in Cells /\ cell \in Cells /\ p \in Nat /\ InCur(j, 1) /\ bagsCur[j][1] = p
  BY <1>1, HeadSlot
<1>3. UNCHANGED <<phase, nbCreated, idStep, color, bagsCur, depositThread, depositCells, appended, deposit, field>>
  BY DEF PushUnchanged
<1>4. PICK d \in Displacements[p] : cell = Shift(j, d)
  BY <1>1 DEF PushOf
<1>5. \A i \in Cells : bagsCur[i] \in Seq(Nat) /\ bagsNexts[PRIVATE][i] \in Seq(Nat) /\ bagsNexts[SHARED][i] \in Seq(Nat)
  BY <1>1 DEF TypesInv, Kinds
<1>6. Movers' = Movers \cup {p}
  <2>1. \A u \in Threads : u # t => (Moved(u)' <=> Moved(u)) /\ push'[u].p = push[u].p
    BY DEF Writes, Moved
  <2>2. Moved(t)' /\ push'[t].p = p
    BY DEF Writes
  <2> QED BY <1>1, <2>1, <2>2 DEF Movers
<1>7. p \notin Movers
  <2> SUFFICES ASSUME NEW u \in Threads, Moved(u), push[u].p = p PROVE FALSE
    BY DEF Movers
  <2>1. InCur(push[u].from, 1) /\ bagsCur[push[u].from][1] = p /\ push[u].pc # "idle"
    BY MoverIsHead DEF Moved
  <2>2. push[u].from = j
    BY <1>2, <2>1 DEF OptInv, NumberedInv, OnceInCur
  <2>3. u # t
    BY <1>1
  <2> QED BY <1>1, <2>1, <2>2, <2>3, PushesApart
<1>8. \A i \in Cells : p \in Items(bagsCur[i]) <=> i = j
  <2> SUFFICES ASSUME NEW i \in Cells PROVE p \in Items(bagsCur[i]) <=> i = j
    OBVIOUS
  <2>1. p \in Items(bagsCur[i]) => i = j
    <3> SUFFICES ASSUME p \in Items(bagsCur[i]) PROVE i = j
      OBVIOUS
    <3>1. PICK m \in 1 .. Len(bagsCur[i]) : bagsCur[i][m] = p
      BY <1>5, ItemsOf
    <3>2. InCur(i, m)
      BY DEF InCur
    <3> QED BY <1>2, <3>1, <3>2 DEF OptInv, NumberedInv, OnceInCur
  <2>2. p \in Items(bagsCur[j])
    BY <1>2, <1>5, ItemsOf DEF InCur
  <2> QED BY <2>1, <2>2
<1>9. /\ bagsNexts'[kind][cell] = Append(bagsNexts[kind][cell], p)
      /\ bagsNexts[kind][cell] \in Seq(Nat)
      /\ \A b \in Kinds, k \in Cells : b # kind \/ k # cell => bagsNexts'[b][k] = bagsNexts[b][k]
  BY <1>1, NextAfterWrite
<1>10. \A i : NotYetDeposited(i) \in Nat /\ NotYetDeposited(i)' = NotYetDeposited(i) + (IF i = cell THEN 1 ELSE 0)
  BY OneMoreMoved DEF Writes
<1> HIDE DEF j, cell, p
<1>11. p \in BagCur(j) /\ \A i \in Cells : BagCur(i)' = IF i = j THEN BagCur(i) \ {p} ELSE BagCur(i)
  <2>1. phase # "append" /\ phase' # "append" /\ bagsCur' = bagsCur
    BY <1>1, <1>3
  <2>2. \A i : BagCur(i) = Items(bagsCur[i]) \ Movers
    BY <2>1, BagsAre
  <2>3. \A i : BagCur(i)' = Items(bagsCur[i]) \ Movers'
    BY <2>1, BagsAreNext
  <2>4. p \in BagCur(j)
    BY <1>2, <1>7, <1>8, <2>2
  <2>5. ASSUME NEW i \in Cells PROVE BagCur(i)' = IF i = j THEN BagCur(i) \ {p} ELSE BagCur(i)
    BY <1>6, <1>8, <2>2, <2>3
  <2> QED BY <2>4, <2>5
<1>12. \A i \in Cells : BagNext(i)' = IF i = cell THEN BagNext(i) \cup {p} ELSE BagNext(i)
  <2> SUFFICES ASSUME NEW i \in Cells PROVE BagNext(i)' = IF i = cell THEN BagNext(i) \cup {p} ELSE BagNext(i)
    OBVIOUS
  <2>1. BagNext(i) = Items(bagsNexts[PRIVATE][i]) \cup Items(bagsNexts[SHARED][i])
    BY <1>1, BagsAre
  <2>2. BagNext(i)' = Items(bagsNexts'[PRIVATE][i]) \cup Items(bagsNexts'[SHARED][i])
    BY <1>1, <1>3, BagsAreNext
  <2>3. PRIVATE \in Kinds /\ SHARED \in Kinds /\ PRIVATE # SHARED /\ kind \in {PRIVATE, SHARED}
    BY DEF Kinds, PRIVATE, SHARED
  <2>4. CASE i # cell
    BY <1>9, <2>1, <2>2, <2>3, <2>4
  <2>5. CASE i = cell
    <3>1. Items(bagsNexts'[kind][cell]) = Items(bagsNexts[kind][cell]) \cup {p}
      BY <1>2, <1>9, AppendSlots
    <3>2. \A b \in Kinds : b # kind => bagsNexts'[b][cell] = bagsNexts[b][cell]
      BY <1>2, <1>9
    <3> QED BY <2>1, <2>2, <2>3, <2>5, <3>1, <3>2
  <2> QED BY <2>4, <2>5
<1>13. \A i \in Cells : DepositAt(i)' = IF i = cell THEN DepositAt(i) + 1 ELSE DepositAt(i)
  <2> SUFFICES ASSUME NEW i \in Cells PROVE DepositAt(i)' = IF i = cell THEN DepositAt(i) + 1 ELSE DepositAt(i)
    OBVIOUS
  <2>1. ChargeOf(i) \in Nat /\ ChargeOf(i)' = ChargeOf(i)
    BY <1>1, <1>3, ChargeNatural, ChargeSame DEF TypesInv
  <2>2. DepositAt(i) = ChargeOf(i) + NotYetDeposited(i) /\ DepositAt(i)' = ChargeOf(i)' + NotYetDeposited(i)'
    BY <1>1, <1>3 DEF DepositAt
  <2> QED BY <1>10, <2>1, <2>2
<1>14. BagsCur' = [BagsCur EXCEPT ![j] = @ \ {p}] /\ p \in BagsCur[j]
  BY <1>2, <1>11 DEF BagsCur
<1>15. BagsNext' = [BagsNext EXCEPT ![cell] = @ \cup {p}]
  BY <1>12 DEF BagsNext
<1>16. DepositOfCells' = [DepositOfCells EXCEPT ![cell] = @ + 1]
  BY <1>13 DEF DepositOfCells
<1>17. idStep < nbSteps /\ phase # "create" /\ phase' # "create"
  BY <1>1, <1>3 DEF OptInv, PhasesInv
<1>18. UNCHANGED <<nbCreated, field, idStep>>
  BY <1>3
<1> QED BY <1>2, <1>4, <1>14, <1>15, <1>16, <1>17, <1>18, SameMesh DEF Demo!MoveParticle

\* A push that begins or goes on.
LEMMA PushGoesOnStays ==
  ASSUME PushUnchanged, phase = "core", bagsNexts' = bagsNexts,
         \A u \in Threads : (Moved(u)' <=> Moved(u)) /\ (Moved(u) => push'[u] = push[u])
  PROVE  UNCHANGED Demo!demoVars
<1>1. UNCHANGED <<phase, nbCreated, idStep, color, bagsCur, depositThread, depositCells, appended, deposit, field>>
  BY DEF PushUnchanged
<1>2. \A j : BagCur(j)' = BagCur(j) /\ BagNext(j)' = BagNext(j)
  BY <1>1, MoversSame, ItemsSame
<1>3. \A j : DepositAt(j)' = DepositAt(j)
  <2>1. \A j : NotYetDeposited(j)' = NotYetDeposited(j)
    BY AsManyMoved
  <2>2. \A j : ChargeOf(j)' = ChargeOf(j)
    BY <1>1, ChargeSame
  <2> QED BY <1>1, <2>1, <2>2 DEF DepositAt
<1> QED BY <1>1, <1>2, <1>3, DemoStays

LEMMA MoveStays ==
  ASSUME OptInv, NEW t \in Threads, MoveParticle(t)
  PROVE  UNCHANGED Demo!demoVars
<1>1. phase = "core" /\ push[t].pc = "idle" /\ PushUnchanged /\ bagsNexts' = bagsNexts
  BY ParticleChosen
<1>2. PICK r : Chosen(t, r)
  BY ParticleChosen
<1>3. r.pc \in {"serial_take", "concurrent"} /\ push' = [push EXCEPT ![t] = r] /\ push \in [Threads -> Push]
  BY <1>2 DEF Chosen, OptInv, TypesInv
<1>4. \A u \in Threads : (Moved(u)' <=> Moved(u)) /\ (Moved(u) => push'[u] = push[u])
  BY <1>1, <1>3 DEF Moved
<1> QED BY <1>1, <1>4, PushGoesOnStays

LEMMA TakeStays ==
  ASSUME OptInv, NEW t \in Threads, PushUnchanged, SerialTake(t)
  PROVE  UNCHANGED Demo!demoVars
<1>1. push[t].pc = "serial_take" /\ bagsNexts' = bagsNexts /\ push \in [Threads -> Push] /\ push[t] \in Push
  BY DEF SerialTake, OptInv, TypesInv
<1>2. phase = "core"
  BY <1>1 DEF OptInv, PushInv, PushOf
<1>3. \A u \in Threads : (Moved(u)' <=> Moved(u)) /\ (Moved(u) => push'[u] = push[u])
  <2> DEFINE r == [push[t] EXCEPT !.index = Len(bagsNexts[PRIVATE][push[t].cell]), !.pc = "serial_write"]
  <2>1. push' = [push EXCEPT ![t] = r] /\ r.pc = "serial_write"
    BY <1>1 DEF SerialTake, Push
  <2> HIDE DEF r
  <2>2. push'[t].pc = "serial_write" /\ \A u \in Threads : u # t => push'[u] = push[u]
    BY <1>1, <2>1
  <2> QED BY <1>1, <2>2 DEF Moved
<1> QED BY <1>1, <1>2, <1>3, PushGoesOnStays

\* The particle has left already: it is the first of the bag, and at one place in it.
LEMMA DepositStays ==
  ASSUME OptInv, NEW t \in Threads, DepositCharge(t)
  PROVE  UNCHANGED Demo!demoVars
<1> DEFINE j == push[t].from  cell == push[t].cell  p == push[t].p
<1>1. /\ Leaves(t) /\ PushOf(t)
      /\ UNCHANGED <<phase, nbCreated, idStep, color, bagsNexts, depositCells, appended, deposit, field>>
      /\ depositThread' = [depositThread EXCEPT ![t][cell] = @ + 1]
  BY ChargeLeaves
<1>2. j \in Cells /\ cell \in Cells /\ InCur(j, 1) /\ bagsCur[j][1] = p /\ phase = "core" /\ TypesInv
  BY <1>1, HeadSlot DEF OptInv, PushOf
<1>3. /\ bagsCur'[j] = Tail(bagsCur[j]) /\ bagsCur[j] \in Seq(Nat) /\ bagsCur[j] # <<>>
      /\ \A k \in Cells : k # j => bagsCur'[k] = bagsCur[k]
  BY <1>1, <1>2, CurAfterLeave
<1>4. Movers = Movers' \cup {p}
  <2>1. \A u \in Threads : u # t => (Moved(u)' <=> Moved(u)) /\ push'[u].p = push[u].p
    BY <1>1 DEF Leaves, Moved
  <2>2. Moved(t) /\ ~Moved(t)'
    BY <1>1 DEF Leaves
  <2> QED BY <2>1, <2>2 DEF Movers
<1>5. \A i \in Cells : bagsCur[i] \in Seq(Nat)
  BY <1>2 DEF TypesInv
<1>6. \A i \in Cells : i # j => p \notin Items(bagsCur[i])
  <2> SUFFICES ASSUME NEW i \in Cells, i # j, p \in Items(bagsCur[i]) PROVE FALSE
    OBVIOUS
  <2>1. PICK m \in 1 .. Len(bagsCur[i]) : bagsCur[i][m] = p
    BY <1>5, ItemsOf
  <2>2. InCur(i, m)
    BY DEF InCur
  <2> QED BY <1>2, <2>1, <2>2 DEF OptInv, NumberedInv, OnceInCur
<1>7. Items(Tail(bagsCur[j])) = Items(bagsCur[j]) \ {p}
  <2> DEFINE s == bagsCur[j]
  <2>1. /\ Tail(s) \in Seq(Nat) /\ Len(s) \in Nat /\ Len(s) > 0 /\ Len(Tail(s)) = Len(s) - 1 /\ s[1] = p
        /\ \A i \in 1 .. Len(s) - 1 : Tail(s)[i] = s[i + 1]
    BY <1>2, <1>3, TailSlots
  <2>2. \A i \in 1 .. Len(s) : s[i] = p => i = 1
    BY <1>2 DEF OptInv, NumberedInv, OnceInCur, InCur
  <2>3. s \in Seq(Nat)
    BY <1>3
  <2> HIDE DEF s
  <2>4. ASSUME NEW x \in Items(Tail(s)) PROVE x \in Items(s) /\ x # p
    <3>0. \E i \in 1 .. Len(Tail(s)) : Tail(s)[i] = x
      <4> DEFINE u == Tail(s)
      <4>1. u \in Seq(Nat) /\ x \in Items(u)
        BY <2>1
      <4> HIDE DEF u
      <4>2. \E i \in 1 .. Len(u) : u[i] = x
        BY <4>1, ItemsOf
      <4> QED BY <4>2 DEF u
    <3>1. PICK i \in 1 .. Len(s) - 1 : Tail(s)[i] = x
      BY <2>1, <3>0, Zenon
    <3>2. i + 1 \in 1 .. Len(s) /\ i + 1 # 1 /\ s[i + 1] = x
      BY <2>1, <3>1
    <3> QED BY <2>2, <2>3, <3>2, ItemsOf
  <2>5. ASSUME NEW x \in Items(s), x # p PROVE x \in Items(Tail(s))
    <3>1. PICK i \in 1 .. Len(s) : s[i] = x
      BY <2>3, ItemsOf
    <3>2. i # 1
      BY <2>1, <2>5, <3>1
    <3>3. i - 1 \in 1 .. Len(s) - 1 /\ (i - 1) + 1 = i
      BY <2>1, <3>2
    <3>4. Tail(s)[i - 1] = x
      BY <2>1, <3>1, <3>3
    <3> QED BY <2>1, <3>3, <3>4, ItemsOf
  <2>6. Items(Tail(s)) = Items(s) \ {p}
    BY <2>4, <2>5
  <2> QED BY <2>6 DEF s
<1>8. p \notin Movers'
  <2> SUFFICES ASSUME NEW u \in Threads, Moved(u)', push'[u].p = p PROVE FALSE
    BY DEF Movers
  <2>1. u # t /\ Moved(u) /\ push[u].p = p /\ Moved(t)
    BY <1>1 DEF Leaves, Moved
  <2>2. InCur(push[u].from, 1) /\ bagsCur[push[u].from][1] = p
    BY <2>1, MoverIsHead
  <2>3. push[u].from = j
    BY <1>2, <2>2 DEF OptInv, NumberedInv, OnceInCur
  <2> QED BY <2>1, <2>3, PushesApart DEF Moved
<1>9. \A i : NotYetDeposited(i)' \in Nat /\ NotYetDeposited(i) = NotYetDeposited(i)' + (IF i = cell THEN 1 ELSE 0)
  BY <1>1, OneLessMoved DEF Leaves
<1>10. \A i \in Cells : ChargeOf(i) \in Nat /\ ChargeOf(i)' = ChargeOf(i) + (IF i = cell THEN 1 ELSE 0)
  BY <1>1, <1>2, ChargeGrows DEF TypesInv
<1> HIDE DEF j, cell, p
<1>11. \A i \in Cells : BagCur(i)' = BagCur(i)
  <2> SUFFICES ASSUME NEW i \in Cells PROVE BagCur(i)' = BagCur(i)
    OBVIOUS
  <2>1. BagCur(i) = Items(bagsCur[i]) \ Movers /\ BagCur(i)' = Items(bagsCur'[i]) \ Movers'
    BY <1>1, <1>2, BagsAre, BagsAreNext
  <2>2. CASE i = j
    BY <1>3, <1>4, <1>7, <2>1, <2>2
  <2>3. CASE i # j
    <3>1. bagsCur'[i] = bagsCur[i] /\ p \notin Items(bagsCur[i])
      BY <1>3, <1>6, <2>3
    <3> QED BY <1>4, <2>1, <3>1
  <2> QED BY <2>2, <2>3
<1>12. \A i \in Cells : BagNext(i)' = BagNext(i)
  BY <1>1, <1>2, BagsAre, BagsAreNext
<1>13. \A i \in Cells : DepositAt(i)' = DepositAt(i)
  <2> SUFFICES ASSUME NEW i \in Cells PROVE DepositAt(i)' = DepositAt(i)
    OBVIOUS
  <2>1. DepositAt(i) = ChargeOf(i) + NotYetDeposited(i) /\ DepositAt(i)' = ChargeOf(i)' + NotYetDeposited(i)'
    BY <1>1, <1>2 DEF DepositAt
  <2> QED BY <1>9, <1>10, <2>1
<1> QED BY <1>1, <1>11, <1>12, <1>13, DemoStays

LEMMA ColourStays ==
  ASSUME OptInv, NextColor
  PROVE  UNCHANGED Demo!demoVars
<1>1. /\ phase = "core" /\ (\A t \in Threads : push[t].pc = "idle")
      /\ \A j \in Cells : BlockOf(j) \in Blocks(color) => bagsCur[j] = <<>>
      /\ UNCHANGED <<nbCreated, idStep, bagsCur, bagsNexts, push, depositThread, depositCells, deposit, field>>
  BY DEF NextColor
<1>2. \A u \in Threads : (Moved(u)' <=> Moved(u)) /\ ~Moved(u)
  BY <1>1 DEF Moved
<1>3. Movers = {} /\ Movers' = {}
  BY <1>2, NoMovers, MoversSame
<1>4. \A j : ChargeOf(j)' = ChargeOf(j) /\ NotYetDeposited(j)' = NotYetDeposited(j)
  BY <1>1, <1>2, ChargeSame, AsManyMoved
<1>5. CASE UNCHANGED <<phase, appended>>
  <2>1. \A j : BagCur(j)' = BagCur(j) /\ BagNext(j)' = BagNext(j)
    BY <1>1, <1>3, <1>5, ItemsSame
  <2>2. \A j : DepositAt(j)' = DepositAt(j)
    BY <1>1, <1>4, <1>5 DEF DepositAt
  <2> QED BY <1>1, <1>5, <2>1, <2>2, DemoStays
<1>6. CASE color = <<1, 1, 1>> /\ phase' = "append" /\ appended' = {}
  <2>1. \A j \in Cells : bagsCur[j] = <<>>
    <3> SUFFICES ASSUME NEW j \in Cells PROVE bagsCur[j] = <<>>
      OBVIOUS
    <3>1. PICK c \in Colours : BlockOf(j) \in Blocks(c)
      BY EveryCellColoured
    <3>2. Rank(c) \in 0 .. 7 /\ Rank(color) = 7
      BY <1>6, Ranks
    <3>3. Rank(c) < Rank(color) + 1
      BY <3>2
    <3> QED BY <1>1, <3>1, <3>3, CoreEmpty
  <2>2. \A j \in Cells : BagCur(j) = {} /\ BagCur(j)' = {}
    <3>1. \A j \in Cells : BagCur(j) = Items(<<>>) \ Movers
      BY <1>1, <2>1, BagsAre
    <3>2. \A j : BagCur(j)' = {}
      BY <1>6, BagsAreNext
    <3> QED BY <3>1, <3>2, EmptySlots
  <2>3. \A j : ~Appended(j)'
    BY <1>6 DEF Appended
  <2>4. \A j \in Cells : BagNext(j)' = BagNext(j)
    BY <1>1, <2>3, BagsAre, BagsAreNext
  <2>5. \A j \in Cells : DepositAt(j)' = DepositAt(j)
    BY <1>1, <1>4, <1>6 DEF DepositAt
  <2> QED BY <1>1, <1>6, <2>2, <2>4, <2>5, DemoStays
<1> QED BY <1>5, <1>6, AfterColour

LEMMA AppendStays ==
  ASSUME OptInv, NEW t \in Threads, AppendAndReduce(t)
  PROVE  UNCHANGED Demo!demoVars
<1> DEFINE mine == StaticBlock(t, nbThreads, NumCells)
<1>1. /\ phase = "append" /\ phase' = "append" /\ Appends(mine)
      /\ \A j \in Cells : j \in mine => bagsCur[j] = <<>> /\ ~Appended(j)
      /\ \A j : Appended(j)' <=> Appended(j) \/ j \in mine
      /\ \A j : ChargeOf(j)' = ChargeOf(j)
  BY ShareAppended
<1>2. UNCHANGED <<nbCreated, idStep, push, deposit, field>>
  BY DEF AppendAndReduce
<1> HIDE DEF mine
<1>3. \A j \in Cells : /\ bagsNexts[PRIVATE][j] \in Seq(Nat) /\ bagsNexts[SHARED][j] \in Seq(Nat)
                       /\ j \in mine => bagsCur'[j] = bagsNexts[PRIVATE][j] \o bagsNexts[SHARED][j]
                       /\ j \notin mine => /\ bagsCur'[j] = bagsCur[j]
                                           /\ bagsNexts'[PRIVATE][j] = bagsNexts[PRIVATE][j]
                                           /\ bagsNexts'[SHARED][j] = bagsNexts[SHARED][j]
  BY <1>1, BagsAfterAppend DEF OptInv, Kinds
<1>4. \A j : BagCur(j)' = BagCur(j)
  BY <1>1, BagsAre, BagsAreNext
<1>5. \A j \in Cells : BagNext(j)' = BagNext(j)
  <2> SUFFICES ASSUME NEW j \in Cells PROVE BagNext(j)' = BagNext(j)
    OBVIOUS
  <2>1. CASE j \in mine
    <3>1. BagNext(j) = Items(bagsNexts[PRIVATE][j]) \cup Items(bagsNexts[SHARED][j])
      BY <1>1, <2>1, BagsAre
    <3>2. BagNext(j)' = Items(bagsNexts[PRIVATE][j] \o bagsNexts[SHARED][j])
      BY <1>1, <1>3, <2>1, BagsAreNext
    <3> QED BY <1>3, <3>1, <3>2, ConcatSlots
  <2>2. CASE j \notin mine
    BY <1>1, <1>3, <2>2, BagsAre, BagsAreNext
  <2> QED BY <2>1, <2>2
<1>6. \A j : DepositAt(j)' = DepositAt(j)
  <2>1. \A j : NotYetDeposited(j)' = NotYetDeposited(j)
    BY <1>2, AsManyMoved DEF Moved
  <2> QED BY <1>1, <1>2, <2>1 DEF DepositAt
<1> QED BY <1>1, <1>2, <1>4, <1>5, <1>6, DemoStays

LEMMA StutterStays ==
  ASSUME UNCHANGED optVars
  PROVE  UNCHANGED Demo!demoVars
<1>1. UNCHANGED <<phase, nbCreated, idStep, color, bagsCur, bagsNexts, push, depositThread, depositCells, appended, deposit, field>>
  BY DEF optVars
<1>2. \A j : BagCur(j)' = BagCur(j) /\ BagNext(j)' = BagNext(j)
  BY <1>1, MoversSame, ItemsSame DEF Moved
<1>3. \A j : DepositAt(j)' = DepositAt(j)
  <2>1. \A j : NotYetDeposited(j)' = NotYetDeposited(j)
    BY <1>1, AsManyMoved DEF Moved
  <2>2. \A j : ChargeOf(j)' = ChargeOf(j)
    BY <1>1, ChargeSame
  <2> QED BY <1>1, <2>1, <2>2 DEF DepositAt
<1> QED BY <1>1, <1>2, <1>3, DemoStays

LEMMA StepsImplement ==
  ASSUME OptInv, SerialPushExclusive, [OptNext]_optVars
  PROVE  OptInv' /\ [Demo!Next]_Demo!demoVars
<1>1. OptInv'
  BY OptInvKept
<1>2. CASE addParticle
  BY <1>1, <1>2, CreateImplements DEF Demo!Next
<1>3. CASE stepLeapFrog
  BY <1>1, <1>3, StartImplements DEF Demo!Next
<1>4. CASE NextColor
  BY <1>1, <1>4, ColourStays
<1>5. CASE EndStep
  BY <1>1, <1>5, EndImplements DEF Demo!Next
<1>6. ASSUME NEW t \in Threads, OptThread(t)
      PROVE  [Demo!Next]_Demo!demoVars
  <2>1. CASE MoveParticle(t)
    BY <2>1, MoveStays
  <2>2. CASE PushParticle(t)
    <3>1. CASE SerialTake(t)
      <4>1. PushUnchanged
        BY <2>2 DEF PushParticle, PushUnchanged
      <4> QED BY <3>1, <4>1, TakeStays
    <3>2. CASE ~SerialTake(t)
      <4>1. Demo!MoveParticle
        BY <2>2, <3>2, PushWrites, WriteImplements
      <4> QED BY <4>1 DEF Demo!Next
    <3> QED BY <3>1, <3>2
  <2>3. CASE DepositCharge(t)
    BY <2>3, DepositStays
  <2>4. CASE AppendAndReduce(t)
    BY <2>4, AppendStays
  <2> QED BY <1>6, <2>1, <2>2, <2>3, <2>4 DEF OptThread
<1>7. CASE UNCHANGED optVars
  BY <1>1, <1>7, StutterStays
<1> QED BY <1>1, <1>2, <1>3, <1>4, <1>5, <1>6, <1>7 DEF OptNext

LEMMA DemoAtStart ==
  ASSUME OptInit
  PROVE  OptInv /\ Demo!Init
<1>1. OptInv
  BY OptInvAtStart
<1>2. /\ phase = "create" /\ nbCreated = 0 /\ idStep = 0 /\ bagsCur = [j \in Cells |-> <<>>]
      /\ bagsNexts = [kind \in Kinds |-> [j \in Cells |-> <<>>]]
      /\ deposit = [j \in Cells |-> 0] /\ field = [j \in Cells |-> 0]
  BY DEF OptInit, EmptyBags, NoCharge, Kinds
<1>3. Movers = {}
  BY <1>1, <1>2, NoPushes, NoMovers DEF OptInv
<1>4. \A j \in Cells : BagCur(j) = {} /\ BagNext(j) = {} /\ DepositAt(j) = 0
  <2>1. \A j \in Cells : BagCur(j) = Items(<<>>)
    BY <1>2, <1>3, BagsAre
  <2>2. \A j \in Cells : BagNext(j) = Items(<<>>) \cup Items(<<>>)
    BY <1>2, BagsAre DEF Kinds
  <2>3. \A j \in Cells : DepositAt(j) = 0
    BY <1>2 DEF DepositAt
  <2> QED BY <2>1, <2>2, <2>3, EmptySlots
<1>5. BagsCur = [j \in Cells |-> {}] /\ BagsNext = [j \in Cells |-> {}] /\ DepositOfCells = [j \in Cells |-> 0]
  BY <1>4 DEF BagsCur, BagsNext, DepositOfCells
<1>6. nbSteps \in Nat
  BY OptimizedAssumption
<1> QED BY <1>1, <1>2, <1>5, <1>6, SameMesh DEF Demo!Init

\* As long as no two threads push serially into one bag, which the comment on
\* bag_push_serial asks for, the particles of each cell, the charge and the field that the
\* program output by OptiTrust computes are those of a run of the naive program, whatever
\* the number of threads, the mesh and the schedule (demo/pic_demo_exp.cpp,
\* simulations/pic_demo.c).
THEOREM ExclusivePushesImplementDemo ==
  OptSpec /\ []SerialPushExclusive => ImplementsDemo
<1>1. OptInit => OptInv /\ Demo!Init
  BY DemoAtStart
<1>2. OptInv /\ SerialPushExclusive /\ [OptNext]_optVars => OptInv' /\ [Demo!Next]_Demo!demoVars
  BY StepsImplement
<1> QED BY <1>1, <1>2, PTL DEF OptSpec, ImplementsDemo, Demo!Spec

-----------------------------------------------------------------------------
(* When no two threads push serially into one bag.                           *)

\* On each axis the mesh is a multiple of two blocks, or one pair of blocks: every power of
\* two is.
EvenBlocks == \A n \in {ncx, ncy, ncz} : n <= 2 * block \/ n % (2 * block) = 0

\* A particle that moves by more than half a block, on one axis, moves along the X axis only,
\* in a mesh that has several blocks on the other two.
MovesAlongX ==
  \A p \in 1 .. nbParticles : \A d \in Displacements[p] :
    \/ d[1] \in -halfBlock .. halfBlock /\ d[2] \in -halfBlock .. halfBlock /\ d[3] \in -halfBlock .. halfBlock
    \/ d[2] = 0 /\ d[3] = 0 /\ ncy > block /\ ncz > block

LEMMA Quotient ==
  ASSUME NEW d \in Nat, NEW s \in Nat, NEW r \in 0 .. d - 1
  PROVE  (s * d + r) \div d = s /\ (s * d + r) % d = r
<1> DEFINE x == s * d + r
           q == x \div d
<1>1. x \in Nat /\ d > 0
  <2>1. s * d \in Nat
    OBVIOUS
  <2> QED BY <2>1
<1>2. x = d * q + (x % d) /\ q \in Nat /\ x % d \in 0 .. d - 1
  <2> HIDE DEF x
  <2> QED BY <1>1, Division
<1>3. x = d * s + r
  <2>1. s * d = d * s
    OBVIOUS
  <2> QED BY <2>1
<1> HIDE DEF x, q
<1>4. ~(q + 1 <= s)
  <2> SUFFICES ASSUME q + 1 <= s PROVE FALSE
    OBVIOUS
  <2>1. d * (q + 1) <= d * s
    BY <1>2
  <2>2. d * (q + 1) = d * q + d /\ d * q \in Nat /\ d * s \in Nat
    BY <1>2
  <2> QED BY <2>1, <2>2, <1>1, <1>2, <1>3
<1>5. ~(s + 1 <= q)
  <2> SUFFICES ASSUME s + 1 <= q PROVE FALSE
    OBVIOUS
  <2>1. d * (s + 1) <= d * q
    BY <1>2
  <2>2. d * (s + 1) = d * s + d /\ d * q \in Nat /\ d * s \in Nat
    BY <1>2
  <2> QED BY <2>1, <2>2, <1>1, <1>2, <1>3
<1>6. q = s
  BY <1>2, <1>4, <1>5
<1>7. x % d = r
  <2>1. d * q = d * s /\ d * s \in Nat
    BY <1>6
  <2> QED BY <2>1, <1>1, <1>2, <1>3
<1> QED BY <1>6, <1>7 DEF q, x

LEMMA ShiftCoordinates ==
  ASSUME NEW j \in Cells, NEW d, d[1] \in Int, d[2] \in Int, d[3] \in Int
  PROVE  /\ CellX(Shift(j, d)) = (CellX(j) + d[1]) % ncx
         /\ CellY(Shift(j, d)) = (CellY(j) + d[2]) % ncy
         /\ CellZ(Shift(j, d)) = (CellZ(j) + d[3]) % ncz
<1> DEFINE x == (CellX(j) + d[1]) % ncx
           y == (CellY(j) + d[2]) % ncy
           z == (CellZ(j) + d[3]) % ncz
           w == x * ncy + y
<1>1. ncx \in Nat /\ ncx > 0 /\ ncy \in Nat /\ ncy > 0 /\ ncz \in Nat /\ ncz > 0
  BY MeshSizes
<1>2. x \in 0 .. ncx - 1 /\ y \in 0 .. ncy - 1 /\ z \in 0 .. ncz - 1
  BY <1>1, Coordinates
<1>3. Shift(j, d) = w * ncz + z
  BY DEF Shift, CellOf
<1> HIDE DEF x, y, z
<1>4. w \in Nat
  <2>1. x * ncy \in Nat
    BY <1>1, <1>2
  <2> QED BY <2>1, <1>2
<1>5. w \div ncy = x /\ w % ncy = y
  BY <1>1, <1>2, Quotient
<1> HIDE DEF w
<1>6. (w * ncz + z) \div ncz = w /\ (w * ncz + z) % ncz = z
  BY <1>1, <1>2, <1>4, Quotient
<1> QED BY <1>3, <1>5, <1>6 DEF CellX, CellY, CellZ, x, y, z

\* The cells of an axis at half a block, or less, of the block that starts at b.
Around(i, b, n) == \E e \in -1 .. 2 : i = (b + e) % n

LEMMA Wrapped ==
  ASSUME NEW n \in Nat, n > 0, NEW x \in Int, -n <= x, x < 2 * n
  PROVE  x % n = IF x < 0 THEN x + n ELSE IF x < n THEN x ELSE x - n
OBVIOUS

LEMMA AroundApart ==
  ASSUME NEW n \in Nat, n > 0, n <= 2 * block \/ n % (2 * block) = 0,
         NEW k \in {0, 1}, NEW b \in BlockStarts(k, n), NEW c \in BlockStarts(k, n), b # c, NEW i
  PROVE  ~(Around(i, b, n) /\ Around(i, c, n))
<1> SUFFICES ASSUME NEW e \in -1 .. 2, NEW f \in -1 .. 2, (b + e) % n = (c + f) % n PROVE FALSE
  BY DEF Around
<1>1. b \in 0 .. n - 1 /\ c \in 0 .. n - 1 /\ b % 4 = k * 2 /\ c % 4 = k * 2
  BY DEF BlockStarts, block
<1>2. n > 4
  BY <1>1 DEF block
<1>3. n % 4 = 0
  BY <1>2 DEF block
<1>4. b + e \in Int /\ -n <= b + e /\ b + e < 2 * n /\ c + f \in Int /\ -n <= c + f /\ c + f < 2 * n
  BY <1>1, <1>2
<1>5. PICK q \in {-1, 0, 1} : (b + e) % n = b + e + q * n
  BY <1>4, Wrapped
<1>6. PICK r \in {-1, 0, 1} : (c + f) % n = c + f + r * n
  BY <1>4, Wrapped
<1>7. b + e + q * n = c + f + r * n
  BY <1>5, <1>6
<1>8. PICK s \in {-2, -1, 0, 1, 2} : b + e - (c + f) = s * n
  BY <1>1, <1>7
<1>9. (b - c) % 4 = 0 /\ (s * n) % 4 = 0
  BY <1>1, <1>3
<1>10. e - f = s * n - (b - c)
  BY <1>1, <1>8
<1>11. (e - f) % 4 = 0
  BY <1>1, <1>9, <1>10
<1>12. e = f
  BY <1>11
<1> QED BY <1>1, <1>8, <1>12

\* On each axis, the destination of a serial push is around the block of the thread.
LEMMA CellAround ==
  ASSUME MovesAlongX, NEW j \in Cells, NEW p \in 1 .. nbParticles, NEW d \in Displacements[p],
         isDistFromBlockLessThanHalfABlock(Shift(j, d), BlockOf(j))
  PROVE  /\ Around(CellX(Shift(j, d)), BlockOf(j)[1], ncx)
         /\ Around(CellY(Shift(j, d)), BlockOf(j)[2], ncy)
         /\ Around(CellZ(Shift(j, d)), BlockOf(j)[3], ncz)
<1> DEFINE x == CellX(j)  y == CellY(j)  z == CellZ(j)
           bx == x - (x % 2)  by == y - (y % 2)  bz == z - (z % 2)
           i == CellX(Shift(j, d))
<1>1. x \in 0 .. ncx - 1 /\ y \in 0 .. ncy - 1 /\ z \in 0 .. ncz - 1
  BY CoordinatesInMesh
<1>2. d[1] \in Int /\ d[2] \in Int /\ d[3] \in Int
  BY OptimizedAssumption
<1>3. ncx \in Nat /\ ncx > 0 /\ ncy \in Nat /\ ncy > 0 /\ ncz \in Nat /\ ncz > 0
  BY MeshSizes
<1>4. /\ i = (x + d[1]) % ncx
      /\ CellY(Shift(j, d)) = (y + d[2]) % ncy
      /\ CellZ(Shift(j, d)) = (z + d[3]) % ncz
  BY <1>2, ShiftCoordinates
<1>5. BlockOf(j)[1] = bx /\ BlockOf(j)[2] = by /\ BlockOf(j)[3] = bz
  BY DEF BlockOf, block
<1>6. \A n \in Nat : \A v \in 0 .. n - 1 : \A e \in -1 .. 1 : \E f \in -1 .. 2 : v + e = (v - (v % 2)) + f
  <2> TAKE n \in Nat
  <2> TAKE v \in 0 .. n - 1
  <2> TAKE e \in -1 .. 1
  <2>1. v % 2 \in {0, 1} /\ v \in Nat
    OBVIOUS
  <2>2. (v % 2) + e \in -1 .. 2 /\ v + e = (v - (v % 2)) + ((v % 2) + e)
    BY <2>1
  <2> QED BY <2>2
<1>7. \A n \in Nat : \A v \in 0 .. n - 1 : \A e \in -1 .. 1 : Around((v + e) % n, v - (v % 2), n)
  <2> TAKE n \in Nat
  <2> TAKE v \in 0 .. n - 1
  <2> TAKE e \in -1 .. 1
  <2>1. PICK f \in -1 .. 2 : v + e = (v - (v % 2)) + f
    BY <1>6
  <2> QED BY <2>1 DEF Around
<1>8. CASE d[1] \in -halfBlock .. halfBlock /\ d[2] \in -halfBlock .. halfBlock /\ d[3] \in -halfBlock .. halfBlock
  BY <1>1, <1>3, <1>4, <1>5, <1>7, <1>8 DEF halfBlock
<1>9. CASE d[2] = 0 /\ d[3] = 0 /\ ncy > block /\ ncz > block
  <2>1. Around(CellY(Shift(j, d)), by, ncy) /\ Around(CellZ(Shift(j, d)), bz, ncz)
    BY <1>1, <1>3, <1>4, <1>7, <1>9
  <2>2. CellY(Shift(j, d)) = y /\ CellZ(Shift(j, d)) = z
    BY <1>1, <1>3, <1>4, <1>9
  <2>3. ~AtLowEdge(y, by, ncy) /\ ~AtHighEdge(y, by, ncy) /\ ~AtLowEdge(z, bz, ncz) /\ ~AtHighEdge(z, bz, ncz)
    BY <1>1, <1>3, <1>9 DEF AtLowEdge, AtHighEdge, block, halfBlock
  <2>4. InRange(i, bx) \/ AtLowEdge(i, bx, ncx) \/ AtHighEdge(i, bx, ncx)
    BY <1>5, <2>2, <2>3 DEF isDistFromBlockLessThanHalfABlock
  <2>5. i \in 0 .. ncx - 1 /\ bx \in 0 .. ncx - 1
    BY <1>1, <1>2, <1>3, <1>4
  <2> HIDE DEF i, bx
  <2>6. CASE InRange(i, bx)
    <3>1. i - bx \in -1 .. 2 /\ i = (bx + (i - bx)) % ncx
      BY <1>3, <2>5, <2>6 DEF InRange, block, halfBlock
    <3> QED BY <1>5, <2>1, <3>1 DEF Around, i, bx
  <2>7. CASE AtLowEdge(i, bx, ncx)
    <3>1. bx = 0 /\ i = ncx - 1
      BY <1>3, <2>5, <2>7 DEF AtLowEdge, halfBlock
    <3>2. (0 + (-1)) % ncx = ncx - 1
      BY <1>3
    <3>3. i = (bx + (-1)) % ncx
      BY <3>1, <3>2
    <3> QED BY <1>5, <2>1, <3>3 DEF Around, i, bx
  <2>8. CASE AtHighEdge(i, bx, ncx)
    <3>1. bx = ncx - 2 /\ i = 0
      BY <1>3, <2>5, <2>8 DEF AtHighEdge, block, halfBlock
    <3>2. (ncx - 2 + 2) % ncx = 0
      BY <1>3
    <3>3. i = (bx + 2) % ncx
      BY <3>1, <3>2
    <3> QED BY <1>5, <2>1, <3>3 DEF Around, i, bx
  <2> QED BY <2>4, <2>6, <2>7, <2>8
<1> QED BY <1>8, <1>9 DEF MovesAlongX

\* The test that a serial push has passed.
NearInv ==
  \A t \in Threads : InSerialPush(t) => isDistFromBlockLessThanHalfABlock(push[t].cell, BlockOf(push[t].from))

LEMMA PushAround ==
  ASSUME MovesAlongX, OptInv, NearInv, NEW t \in Threads, InSerialPush(t)
  PROVE  /\ Around(CellX(push[t].cell), BlockOf(push[t].from)[1], ncx)
         /\ Around(CellY(push[t].cell), BlockOf(push[t].from)[2], ncy)
         /\ Around(CellZ(push[t].cell), BlockOf(push[t].from)[3], ncz)
         /\ BlockOf(push[t].from) \in BlocksOfThread(t)
<1>1. PushOf(t)
  BY DEF OptInv, PushInv, InSerialPush
<1>2. push[t].from \in Cells /\ InCur(push[t].from, 1) /\ bagsCur[push[t].from][1] = push[t].p
  BY <1>1, HeadSlot DEF OptInv
<1>3. push[t].p \in 1 .. nbParticles
  <2>1. push[t].p \in 1 .. nbCreated /\ nbCreated \in 0 .. nbParticles /\ nbParticles \in Nat
    BY <1>2, OptimizedAssumption DEF OptInv, NumberedInv, CurNumbered, TypesInv
  <2> QED BY <2>1
<1>4. PICK d \in Displacements[push[t].p] : push[t].cell = Shift(push[t].from, d)
  BY <1>1 DEF PushOf
<1>5. isDistFromBlockLessThanHalfABlock(Shift(push[t].from, d), BlockOf(push[t].from))
  BY <1>4 DEF NearInv
<1> QED BY <1>1, <1>2, <1>3, <1>4, <1>5, CellAround DEF PushOf

LEMMA NearPushesExclusive ==
  ASSUME EvenBlocks, MovesAlongX, OptInv, NearInv
  PROVE  SerialPushExclusive
<1> SUFFICES ASSUME NEW t \in Threads, NEW u \in Threads, t # u, InSerialPush(t), InSerialPush(u),
                    push[t].cell = push[u].cell
             PROVE  FALSE
  BY DEF SerialPushExclusive
<1> DEFINE b == BlockOf(push[t].from)  c == BlockOf(push[u].from)  i == push[t].cell
<1>1. /\ Around(CellX(i), b[1], ncx) /\ Around(CellY(i), b[2], ncy) /\ Around(CellZ(i), b[3], ncz)
      /\ Around(CellX(i), c[1], ncx) /\ Around(CellY(i), c[2], ncy) /\ Around(CellZ(i), c[3], ncz)
      /\ b \in BlocksOfThread(t) /\ c \in BlocksOfThread(u)
  BY PushAround
<1>2. b # c
  BY <1>1, ReadersApart DEF OptInv
<1>3. b \in Blocks(color) /\ c \in Blocks(color) /\ color \in Colours
  BY <1>1 DEF BlocksOfThread, OptInv, TypesInv
<1>4. b = <<b[1], b[2], b[3]>> /\ c = <<c[1], c[2], c[3]>>
  BY DEF BlockOf
<1>5. color[1] \in {0, 1} /\ color[2] \in {0, 1} /\ color[3] \in {0, 1}
  BY <1>3 DEF Colours
<1> HIDE DEF b, c, i
<1>6. /\ b[1] \in BlockStarts(color[1], ncx) /\ b[2] \in BlockStarts(color[2], ncy) /\ b[3] \in BlockStarts(color[3], ncz)
      /\ c[1] \in BlockStarts(color[1], ncx) /\ c[2] \in BlockStarts(color[2], ncy) /\ c[3] \in BlockStarts(color[3], ncz)
  BY <1>3 DEF Blocks
<1>7. \A n \in {ncx, ncy, ncz} : n \in Nat /\ n > 0 /\ (n <= 2 * block \/ n % (2 * block) = 0)
  BY MeshSizes DEF EvenBlocks
<1>8. b[1] = c[1]
  BY <1>1, <1>5, <1>6, <1>7, AroundApart
<1>9. b[2] = c[2]
  BY <1>1, <1>5, <1>6, <1>7, AroundApart
<1>10. b[3] = c[3]
  BY <1>1, <1>5, <1>6, <1>7, AroundApart
<1> QED BY <1>2, <1>4, <1>8, <1>9, <1>10

LEMMA NearInvKept ==
  ASSUME OptInv, NearInv, [OptNext]_optVars
  PROVE  NearInv'
<1>1. ASSUME push' = push
      PROVE  NearInv'
  BY <1>1 DEF NearInv, InSerialPush
<1>2. ASSUME NEW t \in Threads, NEW r, push' = [push EXCEPT ![t] = r],
             r.pc \in {"serial_take", "serial_write"} => isDistFromBlockLessThanHalfABlock(r.cell, BlockOf(r.from))
      PROVE  NearInv'
  <2>1. push \in [Threads -> Push]
    BY DEF OptInv, TypesInv
  <2>2. push'[t] = r /\ \A u \in Threads : u # t => push'[u] = push[u]
    BY <1>2, <2>1
  <2> QED BY <1>2, <2>2 DEF NearInv, InSerialPush
<1>3. ASSUME NEW t \in Threads, OptThread(t)
      PROVE  NearInv'
  <2>1. push[t] \in Push
    BY DEF OptInv, TypesInv
  <2>2. CASE MoveParticle(t)
    <3>1. PICK r : Chosen(t, r)
      BY <2>2, ParticleChosen
    <3>2. r.pc \in {"serial_take", "serial_write"} => isDistFromBlockLessThanHalfABlock(r.cell, BlockOf(r.from))
      BY <3>1 DEF Chosen
    <3> QED BY <1>2, <3>1, <3>2 DEF Chosen
  <2>3. CASE SerialTake(t)
    <3> DEFINE r == [push[t] EXCEPT !.index = Len(bagsNexts[PRIVATE][push[t].cell]), !.pc = "serial_write"]
    <3>1. push[t].pc = "serial_take" /\ push' = [push EXCEPT ![t] = r]
      BY <2>3 DEF SerialTake
    <3>2. r.cell = push[t].cell /\ r.from = push[t].from
      BY <2>1 DEF Push
    <3>3. isDistFromBlockLessThanHalfABlock(push[t].cell, BlockOf(push[t].from))
      BY <3>1 DEF NearInv, InSerialPush
    <3> HIDE DEF r
    <3>4. isDistFromBlockLessThanHalfABlock(r.cell, BlockOf(r.from))
      BY <3>2, <3>3
    <3> QED BY <1>2, <3>1, <3>4
  <2>4. CASE SerialWrite(t) \/ ConcurrentPush(t)
    <3> DEFINE r == [push[t] EXCEPT !.pc = "returned"]
    <3>1. push' = [push EXCEPT ![t] = r]
      BY <2>4 DEF SerialWrite, ConcurrentPush
    <3>2. r.pc = "returned"
      BY <2>1 DEF Push
    <3> HIDE DEF r
    <3> QED BY <1>2, <3>1, <3>2
  <2>5. CASE DepositCharge(t)
    <3>1. push' = [push EXCEPT ![t] = NoPush]
      BY <2>5 DEF DepositCharge
    <3> QED BY <1>2, <3>1 DEF NoPush
  <2>6. CASE AppendAndReduce(t)
    BY <1>1, <2>6 DEF AppendAndReduce
  <2> QED BY <1>3, <2>2, <2>3, <2>4, <2>5, <2>6 DEF OptThread, PushParticle
<1> QED BY <1>1, <1>3 DEF OptNext, addParticle, stepLeapFrog, NextColor, EndStep, optVars

LEMMA NearInvAtStart ==
  ASSUME OptInit
  PROVE  NearInv
BY DEF OptInit, NearInv, InSerialPush, NoPush

\* When particles move to neighbour cells, or along the X axis, no two threads push serially
\* into one bag (bag_push_serial, demo/pic_demo_exp.cpp): the test on the destination, as C
\* reads it, then keeps a thread at half a block of the block it visits.
THEOREM SerialPushesExclusive ==
  ASSUME EvenBlocks, MovesAlongX
  PROVE  OptSpec => []SerialPushExclusive
<1>1. OptInit => OptInv /\ NearInv
  BY OptInvAtStart, NearInvAtStart
<1>2. OptInv /\ NearInv => SerialPushExclusive
  BY NearPushesExclusive
<1>3. OptInv /\ NearInv /\ SerialPushExclusive /\ [OptNext]_optVars => OptInv' /\ NearInv'
  BY OptInvKept, NearInvKept
<1> QED BY <1>1, <1>2, <1>3, PTL DEF OptSpec

\* So what OptiTrust outputs then computes what the naive program does, whatever the number of
\* threads and the schedule.
THEOREM OutputImplementsDemo ==
  ASSUME EvenBlocks, MovesAlongX
  PROVE  OptSpec => ImplementsDemo
<1>1. OptSpec => []SerialPushExclusive
  BY SerialPushesExclusive
<1>2. OptSpec /\ []SerialPushExclusive => ImplementsDemo
  BY ExclusivePushesImplementDemo
<1> QED BY <1>1, <1>2

=============================================================================
