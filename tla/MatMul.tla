------------------------------- MODULE MatMul -------------------------------
(***************************************************************************)
(* The products of matrices of case_studies/matmul, on flat arrays: the    *)
(* naive one, what OptiTrust outputs, and hand-written variants.  They are *)
(* written for matrices of size N = 1024, blocks of T = 32 and unrolling   *)
(* by K = 4; the constants of their addresses, and the shifts, are         *)
(* products of these, which are the parameters here.                       *)
(***************************************************************************)
EXTENDS Integers

\* The array of a size after the assignment of a value for each index of a loop
\* nest: a cell that none of them reaches has no value.
NoValue == -1
Stored(size, Nest, Address(_), Value(_)) ==
  [c \in 0 .. size - 1 |-> LET writes == {t \in Nest : Address(t) = c}
                           IN  IF writes = {} THEN NoValue ELSE Value(CHOOSE t \in writes : TRUE)]
Sum(n, Term(_)) ==
  LET upto[k \in 0 .. n] == IF k = 0 THEN 0 ELSE upto[k - 1] + Term(k - 1)
  IN  upto[n]
Below(n) == 0 .. n - 1

\* matmul.cpp, the program given to OptiTrust.
mm(a, m, n, p) ==
  Stored(m * n, Below(m) \X Below(n), LAMBDA t : t[1] * n + t[2],
         LAMBDA t : Sum(p, LAMBDA k : a.A[t[1] * p + k] * a.B[k * n + t[2]]))
mm1024(a) == mm(a, a.N, a.N, a.N)

\* The loops on blocks: B is packed by columns of blocks, for t = bj, bk, k, j; then
\* each block is summed and stored, for t = bi, bj, i, j.
PackNest(a) == Below(a.N \div a.T) \X Below(a.N \div a.K) \X Below(a.K) \X Below(a.T)
BlockNest(a) == Below(a.N \div a.T) \X Below(a.N \div a.T) \X Below(a.T) \X Below(a.T)
\* Sums go over bk and the K unrolled loops.
BlockSum(a, Term(_, _)) == Sum(a.N \div a.K, LAMBDA bk : Sum(a.K, LAMBDA k : Term(bk, k)))

PackedB(a) == Stored(a.N * a.N, PackNest(a),
  LAMBDA t : a.N * a.T * t[1] + a.T * a.K * t[2] + a.T * t[3] + t[4],
  LAMBDA t : a.B[a.N * (a.K * t[2] + t[3]) + a.T * t[1] + t[4]])
matmul_exp(a) ==
  LET pB == PackedB(a)
  IN  Stored(a.N * a.N, BlockNest(a),
        LAMBDA t : a.N * (a.T * t[1] + t[3]) + a.T * t[2] + t[4],
        LAMBDA t : BlockSum(a, LAMBDA bk, k : a.A[a.N * (a.T * t[1] + t[3]) + a.K * bk + k]
                                              * pB[a.N * a.T * t[2] + a.T * a.K * bk + a.T * k + t[4]]))

\* matmul_check_exp.cpp, the output with all resources checked: the addresses are expanded.
CheckPackedB(a) == Stored(a.N * a.N, PackNest(a),
  LAMBDA t : a.N * a.T * t[1] + a.T * a.K * t[2] + a.T * t[3] + t[4],
  LAMBDA t : a.B[a.T * t[1] + a.N * a.K * t[2] + a.N * t[3] + t[4]])
matmul_check_exp(a) ==
  LET pB == CheckPackedB(a)
  IN  Stored(a.N * a.N, BlockNest(a),
        LAMBDA t : a.N * a.T * t[1] + a.T * t[2] + a.N * t[3] + t[4],
        LAMBDA t : BlockSum(a, LAMBDA bk, k : a.A[a.N * a.T * t[1] + a.K * bk + a.N * t[3] + k]
                                              * pB[a.N * a.T * t[2] + a.T * a.K * bk + t[4] + a.T * k]))

\* matmul_out_*.c: by the schedule of the loops on blocks and the place of the sums.
matmul_out(a) ==
  LET pB == PackedB(a)
      row(t) == a.N * (a.T * t[1] + t[3])
  IN  Stored(a.N * a.N, BlockNest(a), LAMBDA t : row(t) + a.T * t[2] + t[4],
        LAMBDA t : BlockSum(a, LAMBDA bk, k : a.A[row(t) + a.K * bk + k]
                                              * pB[a.N * a.T * t[2] + a.T * a.K * bk + a.T * k + t[4]]))
\* matmul_out_goal.c copies T elements at once, into rows of pB and of the result.
RowsOf(a, length, Nest, Address(_), Row(_)) ==
  Stored(length, Nest \X Below(a.T), LAMBDA u : Address(u[1]) + u[2], LAMBDA u : Row(u[1])[u[2]])
matmul_out_goal(a) ==
  LET pB == RowsOf(a, a.N * a.N, Below(a.N \div a.T) \X Below(a.N \div a.K) \X Below(a.K),
              LAMBDA t : a.N * a.T * t[1] + a.T * a.K * t[2] + a.T * t[3],
              LAMBDA t : [j \in Below(a.T) |-> a.B[a.N * (a.K * t[2] + t[3]) + a.T * t[1] + j]])
      tmp(t) == [j \in Below(a.T) |-> BlockSum(a, LAMBDA bk, k :
                   a.A[a.N * (a.T * t[1] + t[3]) + a.K * bk + k] * pB[a.N * a.T * t[2] + a.T * a.K * bk + a.T * k + j])]
  IN  RowsOf(a, a.N * a.N, Below(a.N \div a.T) \X Below(a.N \div a.T) \X Below(a.T),
        LAMBDA t : a.N * (a.T * t[1] + t[3]) + a.T * t[2], tmp)

\* matmul_opt_inner_transpose.c: only the block column that is read is packed, and
\* matmul_opt_inner_transpose2.c: only K rows of it, again for each bk.
inner_transpose(a) ==
  LET pB(bj) == RowsOf(a, a.N * a.T, Below(a.N \div a.K) \X Below(a.K),
                  LAMBDA t : a.T * a.K * t[1] + a.T * t[2],
                  LAMBDA t : [j \in Below(a.T) |-> a.B[a.N * (a.K * t[1] + t[2]) + a.T * bj + j]])
      row(t) == a.N * (a.T * t[1] + t[3])
  IN  Stored(a.N * a.N, BlockNest(a), LAMBDA t : row(t) + a.T * t[2] + t[4],
        LAMBDA t : BlockSum(a, LAMBDA bk, k : a.A[row(t) + a.K * bk + k] * pB(t[2])[a.T * a.K * bk + a.T * k + t[4]]))
inner_transpose2(a) ==
  LET pB(bj, bk) == RowsOf(a, a.K * a.T, Below(a.K), LAMBDA k : a.T * k,
                      LAMBDA k : [j \in Below(a.T) |-> a.B[a.N * (a.K * bk + k) + a.T * bj + j]])
      row(t) == a.N * (a.T * t[1] + t[3])
  IN  Stored(a.N * a.N, BlockNest(a), LAMBDA t : row(t) + a.T * t[2] + t[4],
        LAMBDA t : BlockSum(a, LAMBDA bk, k : a.A[row(t) + a.K * bk + k] * pB(t[2], bk)[a.T * k + t[4]]))

\* matmul_opt_spec_cse_*.c: common parts of addresses are computed once; with sums in
\* a buffer of each thread, and with the rows of B packed in a single loop.
cse_bits_hsum(a) ==
  LET pB == Stored(a.N * a.N, PackNest(a),
              LAMBDA t : t[4] + t[3] * a.T + t[2] * a.T * a.K + t[1] * a.T * a.N,
              LAMBDA t : a.B[t[4] + t[1] * a.T + (t[2] * a.K + t[3]) * a.N])
      c3(t, bk) == bk * a.K + (t[1] * a.T + t[3]) * a.N
      c4(t, bk) == bk * a.T * a.K + t[2] * a.T * a.N
  IN  Stored(a.N * a.N, BlockNest(a), LAMBDA t : t[2] * a.T + t[4] + (t[1] * a.T + t[3]) * a.N,
        LAMBDA t : BlockSum(a, LAMBDA bk, k : a.A[k + c3(t, bk)] * pB[t[4] + k * a.T + c4(t, bk)]))
cse_ssum_tmp(a) ==
  LET pB == Stored(a.N * a.N, Below(a.N \div a.T) \X Below(a.N) \X Below(a.T),
              LAMBDA t : t[2] * a.T + t[1] * a.T * a.N + t[3], LAMBDA t : a.B[t[1] * a.T + t[2] * a.N + t[3]])
      c3(t, bk) == bk * a.K + t[1] * a.T * a.N + t[3] * a.N
      c4(t, bk) == bk * a.T * a.K + t[2] * a.T * a.N
  IN  Stored(a.N * a.N, BlockNest(a), LAMBDA t : t[2] * a.T + t[1] * a.T * a.N + t[3] * a.N + t[4],
        LAMBDA t : BlockSum(a, LAMBDA bk, k : a.A[c3(t, bk) + k] * pB[k * a.T + c4(t, bk) + t[4]]))

\* matmul_rise*.c, the output of another compiler; x0 is A, x1 is B.
rise(a) ==
  LET t1 == Stored(a.N * a.N, Below(a.N \div a.T) \X Below(a.N) \X Below(a.T),
              LAMBDA t : t[3] + a.T * t[2] + a.N * a.T * t[1], LAMBDA t : a.B[t[3] + a.T * t[1] + a.N * t[2]])
  IN  Stored(a.N * a.N, BlockNest(a), LAMBDA t : t[4] + a.T * t[2] + a.N * t[3] + a.N * a.T * t[1],
        LAMBDA t : BlockSum(a, LAMBDA i7, k : a.A[k + a.K * i7 + a.N * t[3] + a.N * a.T * t[1]]
                                              * t1[a.T * k + t[4] + a.T * a.K * i7 + a.N * a.T * t[2]]))

Versions == {"exp", "check_exp", "out", "out_goal", "inner_transpose", "inner_transpose2", "cse_bits_hsum", "cse_ssum_tmp", "rise"}
Product(version, a) ==
  CASE version = "exp" -> matmul_exp(a)
    [] version = "check_exp" -> matmul_check_exp(a)
    [] version = "out" -> matmul_out(a)
    [] version = "out_goal" -> matmul_out_goal(a)
    [] version = "inner_transpose" -> inner_transpose(a)
    [] version = "inner_transpose2" -> inner_transpose2(a)
    [] version = "cse_bits_hsum" -> cse_bits_hsum(a)
    [] version = "cse_ssum_tmp" -> cse_ssum_tmp(a)
    [] version = "rise" -> rise(a)

=============================================================================
