---------------------------- MODULE ChargeDensity ----------------------------
(***************************************************************************)
(* From the charge that the threads of each MPI process have accumulated   *)
(* at the corners of their cells to the density on the nodes of the        *)
(* periodic mesh, and back to the field at the corners of each cell:       *)
(* pic/src/rho.c and pic/src/fields.c, in one, two and three dimensions.   *)
(*                                                                         *)
(* A mesh of nc cells on an axis has nc + 1 nodes there, of which the      *)
(* first and the last are the same point.  A cell and a node are tuples,   *)
(* and a corner of a cell is the tuple of its offsets: LEFT, SOUTH, FRONT  *)
(* and DOWN are 0, RIGHT, NORTH, EAST, BACK and TOP are 1.  The solver of  *)
(* the field is not modelled: the density stands for a component of E, and *)
(* the constant factors are left out.                                      *)
(***************************************************************************)
EXTENDS Integers, Sequences, FiniteSets, FiniteSetsExt

CONSTANT Meshes    \* records with nc, num_threads, mpi_world_size, and non_blocking

VARIABLES
  mesh,
  stage,           \* of each process: "deposited", "converted", "launched", "reduced" or "gathered"
  rho,             \* by process and node
  send_buf,        \* by process and cell
  corner_field,    \* by process, cell and corner
  corner_coefs     \* the coefficients of the interpolation

densityVars == <<mesh, stage, rho, send_buf, corner_field, corner_coefs>>

Dims == 1 .. Len(mesh.nc)
Ranks == 0 .. mesh.mpi_world_size - 1
ThreadIds == 0 .. mesh.num_threads - 1
Largest == Max({mesh.nc[a] : a \in Dims})
MeshNodes == {v \in [Dims -> 0 .. Largest] : \A a \in Dims : v[a] <= mesh.nc[a]}
MeshCells == {v \in MeshNodes : \A a \in Dims : v[a] < mesh.nc[a]}
Corners == [Dims -> {0, 1}]
Zero == [a \in Dims |-> 0]
Wrap(v) == [a \in Dims |-> v[a] % mesh.nc[a]]
Minus(v, corner) == [a \in Dims |-> v[a] - corner[a]]
Plus(v, corner) == [a \in Dims |-> v[a] + corner[a]]

\* What each thread has accumulated: values that tell the corners apart.
charge_accu(p, t, v, corner) ==
  LET code == MapThenSumSet(LAMBDA a : (5 * v[a] + 2 * corner[a]) * 3 ^ a, Dims) + 37 * p + 11 * t + 1
  IN  (code * code) % 499
AllThreads(p, v, corner) == MapThenSumSet(LAMBDA t : charge_accu(p, t, v, corner), ThreadIds)

-----------------------------------------------------------------------------
\* convert_charge_to_rho_*_per_per.  On one axis the inner nodes have two
\* cells, and the first and the last node get one each, then their sum.
convert_1d(p) ==
  LET L(i) == AllThreads(p, <<i>>, <<0>>)
      R(i) == AllThreads(p, <<i - 1>>, <<1>>)
      last == mesh.nc[1]
  IN  [v \in MeshNodes |-> IF v[1] \in {0, last} THEN L(0) + R(last) ELSE L(v[1]) + R(v[1])]

\* Faulty: the coordinates of the cells before a node are not brought back in
\* the mesh, and the charge of the last cells is lost at the first node.
Unwrapped2d(p) ==
  LET reduced == [v \in MeshCells, corner \in Corners |-> AllThreads(p, v, corner)]
  IN  [v \in MeshNodes |->
         MapThenSumSet(LAMBDA corner : IF Minus(v, corner) \in MeshCells THEN reduced[Minus(v, corner), corner] ELSE 0,
                       Corners)]

\* On two axes the threads' accumulators are added up first; then each node
\* takes from each of its four cells the corner that it is of that cell.
convert_2d(p) ==
  LET reduced == [v \in MeshCells, corner \in Corners |-> AllThreads(p, v, corner)]
  IN  [v \in MeshNodes |-> MapThenSumSet(LAMBDA corner : reduced[Wrap(Minus(v, corner)), corner], Corners)]

\* On three axes there is only one accumulator, and eight cells.
convert_3d(p) ==
  [v \in MeshNodes |-> MapThenSumSet(LAMBDA corner : charge_accu(p, 0, Wrap(Minus(v, corner)), corner), Corners)]

\* Periodicity, after a reduction: the nodes at the end of axis a are copied.
\* Faulty: without those that are at the end of another axis.
CopyInner(r, a) ==
  [v \in MeshNodes |-> IF v[a] = mesh.nc[a] /\ \A b \in Dims \ {a} : v[b] < mesh.nc[b]
                       THEN r[[v EXCEPT ![a] = 0]] ELSE r[v]]

CopyFace(r, a) == [v \in MeshNodes |-> IF v[a] = mesh.nc[a] THEN r[[v EXCEPT ![a] = 0]] ELSE r[v]]

\* recv_buf of MPI_Allreduce: the sum over the processes.
received == [v \in MeshCells |-> MapThenSumSet(LAMBDA p : send_buf[p][v], Ranks)]
Inner(p) == [v \in MeshNodes |-> IF v \in MeshCells THEN received[v] ELSE rho[p][v]]

reduced_1d(p) == CopyFace(Inner(p), 1)
reduced_2d(p) == CopyFace(CopyFace(Inner(p), 2), 1)
reduced_3d(p) == CopyFace(CopyFace(CopyFace(Inner(p), 2), 1), 3)

-----------------------------------------------------------------------------
DensityInit ==
  /\ mesh \in Meshes
  /\ stage = [p \in Ranks |-> "deposited"]
  /\ rho = [p \in Ranks |-> <<>>] /\ send_buf = [p \in Ranks |-> <<>>]
  /\ corner_field = [p \in Ranks |-> <<>>] /\ corner_coefs = [p \in Ranks |-> <<>>]

Convert(p) ==
  /\ stage[p] = "deposited"
  /\ rho' = [rho EXCEPT ![p] = CASE Len(mesh.nc) = 1 -> convert_1d(p)
                                 [] Len(mesh.nc) = 2 -> convert_2d(p)
                                 [] Len(mesh.nc) = 3 -> convert_3d(p)]
  /\ stage' = [stage EXCEPT ![p] = "converted"]
  /\ UNCHANGED <<mesh, send_buf, corner_field, corner_coefs>>

\* With one process the functions that follow do nothing.
Alone(p) ==
  /\ stage[p] = "converted" /\ mesh.mpi_world_size = 1
  /\ stage' = [stage EXCEPT ![p] = "reduced"]
  /\ UNCHANGED <<mesh, rho, send_buf, corner_field, corner_coefs>>

\* launch_non_blocking_reduce_rho_*, and the beginning of mpi_reduce_rho_*: the
\* send buffer is filled and the process enters MPI_Allreduce.
Launch(p) ==
  /\ stage[p] = "converted" /\ mesh.mpi_world_size > 1
  /\ send_buf' = [send_buf EXCEPT ![p] = [v \in MeshCells |-> rho[p][v]]]
  /\ stage' = [stage EXCEPT ![p] = "launched"]
  /\ UNCHANGED <<mesh, rho, corner_field, corner_coefs>>

\* The end of the reduction, which needs that every process has launched it.
Complete(p) ==
  /\ stage[p] = "launched"
  /\ \A q \in Ranks : stage[q] \notin {"deposited", "converted"}
  /\ stage' = [stage EXCEPT ![p] = "reduced"]
  /\ UNCHANGED <<mesh, send_buf, corner_field, corner_coefs>>

mpi_reduce_rho_1d(p) ==
  ~mesh.non_blocking /\ Len(mesh.nc) = 1 /\ Complete(p) /\ rho' = [rho EXCEPT ![p] = reduced_1d(p)]
mpi_reduce_rho_2d(p) ==
  ~mesh.non_blocking /\ Len(mesh.nc) = 2 /\ Complete(p) /\ rho' = [rho EXCEPT ![p] = reduced_2d(p)]
mpi_reduce_rho_3d(p) ==
  ~mesh.non_blocking /\ Len(mesh.nc) = 3 /\ Complete(p) /\ rho' = [rho EXCEPT ![p] = reduced_3d(p)]
wait_non_blocking_reduce_rho_2d(p) ==
  mesh.non_blocking /\ Len(mesh.nc) = 2 /\ Complete(p) /\ rho' = [rho EXCEPT ![p] = reduced_2d(p)]
wait_non_blocking_reduce_rho_3d(p) ==
  mesh.non_blocking /\ Len(mesh.nc) = 3 /\ Complete(p) /\ rho' = [rho EXCEPT ![p] = reduced_3d(p)]

\* accumulate_field_*: the values at the corners of each cell.
corners_of(E, v) == [corner \in Corners |-> E[Plus(v, corner)]]

\* accumulate_field_*_opt: the coefficient of a product of axes (dx, dx dy, ...,
\* named by a corner) is a sum with alternating signs over the corners below.
Below(corner) == {b \in Corners : \A a \in Dims : b[a] <= corner[a]}
Parity(corner) == MapThenSumSet(LAMBDA a : corner[a], Dims) % 2
coefficients(E, v) ==
  [corner \in Corners |->
     MapThenSumSet(LAMBDA b : IF Parity(b) = Parity(corner) THEN E[Plus(v, b)] ELSE -E[Plus(v, b)], Below(corner))]

Gather(p) ==
  /\ stage[p] = "reduced" /\ Len(mesh.nc) > 1
  /\ corner_field' = [corner_field EXCEPT ![p] = [v \in MeshCells |-> corners_of(rho[p], v)]]
  /\ corner_coefs' = [corner_coefs EXCEPT ![p] = [v \in MeshCells |-> coefficients(rho[p], v)]]
  /\ stage' = [stage EXCEPT ![p] = "gathered"]
  /\ UNCHANGED <<mesh, rho, send_buf>>

Reduce(p) ==
  \/ mpi_reduce_rho_1d(p) \/ mpi_reduce_rho_2d(p) \/ mpi_reduce_rho_3d(p)
  \/ wait_non_blocking_reduce_rho_2d(p) \/ wait_non_blocking_reduce_rho_3d(p)
DensityNext == \E p \in Ranks : Convert(p) \/ Alone(p) \/ Launch(p) \/ Reduce(p) \/ Gather(p)
DensitySpec == DensityInit /\ [][DensityNext]_densityVars

-----------------------------------------------------------------------------
\* After the reduction every process knows on every node, those at the periodic
\* ends included, all the charge that any thread of any process has put there:
\* each corner of each cell counts once, at the point where it is.
Deposits == Ranks \X ThreadIds \X MeshCells \X Corners
ChargeAt(v) ==
  MapThenSumSet(LAMBDA d : charge_accu(d[1], d[2], d[3], d[4]),
                {d \in Deposits : Wrap(Plus(d[3], d[4])) = Wrap(v)})
DensityRight ==
  \A p \in Ranks : stage[p] \in {"reduced", "gathered"} => \A v \in MeshNodes : rho[p][v] = ChargeAt(v)

\* Cells that meet at a point, also across the periodic ends, see the same field
\* there, and the interpolation by coefficients gives that value at the corner.
FieldsAgree ==
  \A p \in Ranks : stage[p] = "gathered" =>
    \A v \in MeshCells, corner \in Corners :
      /\ corner_field[p][v][corner] = corner_field[p][Wrap(Plus(v, corner))][Zero]
      /\ corner_field[p][v][corner] = MapThenSumSet(LAMBDA b : corner_coefs[p][v][b], Below(corner))

=============================================================================
