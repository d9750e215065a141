---------------------------- MODULE CliftKernels ----------------------------
(***************************************************************************)
(* The kernels of case_studies/clift/verif and clift/demo as they run: on  *)
(* a memory where arrays lie one after the other, through pointers, each   *)
(* of them updating some cells in place.  Module CliftForward gives the    *)
(* vectors that they must compute.  A cell of malloc is not initialised;   *)
(* what is computed from it is not either.                                 *)
(***************************************************************************)
EXTENDS Integers, Sequences

LOCAL Vec == INSTANCE CliftForward

Uninit == -1
Value(cells, v) == IF Uninit \in cells THEN Uninit ELSE v % Vec!P
Set(mem, address, v) == [mem EXCEPT ![address] = v]
\* What a loop of n iterations makes of a value, the counter starting at 0; each of
\* them is given the value of the one before (a set of one, so that it is evaluated).
For(n, first, Body(_, _)) ==
  LET upto[k \in 0 .. n] ==
        IF k = 0 THEN first ELSE CHOOSE v \in {Body(before, k - 1) : before \in {upto[k - 1]}} : TRUE
  IN  upto[n]

MINDEX2(n1, n2, i, j) == i * n2 + j
MINDEX4(n1, n2, n3, n4, i, j, k, l) == ((i * n2 + j) * n3 + k) * n4 + l

\* Pairs of cells are rotated in place: col_count is even, which no contract says.
rope(mem, col_count, x, pos) ==
  For(col_count \div 2, mem, LAMBDA m, pair :
    LET j == 2 * pair
        val == pos * 2
        v0 == m[x + j]
        v1 == m[x + j + 1]
    IN  Set(Set(m, x + j, Value({v0, v1}, v0 * Vec!cosf(val) - v1 * Vec!sinf(val))),
            x + j + 1, Value({v0, v1}, v0 * Vec!sinf(val) + v1 * Vec!cosf(val))))

\* Three passes over the same cells, the last two writing them.
softmax(mem, col_count, x) ==
  LET max_val == For(col_count, mem[x], LAMBDA highest, j : IF mem[x + j] > highest THEN mem[x + j] ELSE highest)
      powers == For(col_count, mem, LAMBDA m, j : Set(m, x + j, Value({m[x + j], max_val}, Vec!expf(m[x + j] - max_val))))
      sum == For(col_count, 0, LAMBDA total, j : Value({total, powers[x + j]}, total + powers[x + j]))
  IN  For(col_count, powers, LAMBDA m, j : Set(m, x + j, Value({m[x + j], sum}, Vec!Quotient(m[x + j], sum))))

\* y is written, from x and w.
rmsnorm(mem, col_count, y, x, w, epsilon) ==
  LET squares == For(col_count, 0, LAMBDA total, j : Value({total, mem[x + j]}, total + mem[x + j] * mem[x + j]))
      ss == Value({squares}, Vec!inv_sqrt(Vec!Quotient(squares, col_count) + epsilon))
  IN  For(col_count, mem, LAMBDA m, j : Set(m, y + j, Value({m[w + j], m[x + j], ss}, m[w + j] * (ss * m[x + j]))))

\* x is written: each cell is set to 0, then products of cells of y and w are added to it.
matvec(mem, col_count, red_count, x, y, w) ==
  For(col_count, mem, LAMBDA m, j :
    For(red_count, Set(m, x + j, 0), LAMBDA inner, k :
      LET factors == {inner[x + j], inner[y + k], inner[w + MINDEX2(col_count, red_count, j, k)]}
      IN  Set(inner, x + j, Value(factors, inner[x + j] + inner[y + k] * inner[w + MINDEX2(col_count, red_count, j, k)]))))
\* The rows of y are multiplied one after the other.
matmul(mem, row_count, col_count, red_count, x, y, w) ==
  For(row_count, mem, LAMBDA rows, i :
    For(col_count, rows, LAMBDA m, j :
      LET cell == x + MINDEX2(row_count, col_count, i, j)
      IN  For(red_count, Set(m, cell, 0), LAMBDA inner, k :
            LET yk == inner[y + MINDEX2(row_count, red_count, i, k)]
                wk == inner[w + MINDEX2(col_count, red_count, j, k)]
            IN  Set(inner, cell, Value({inner[cell], yk, wk}, inner[cell] + yk * wk)))))

-----------------------------------------------------------------------------
\* Layout of the memory: the weights, then the buffers of a call of forward, which
\* malloc gives without a value.
Sizes(m) ==
  LET dim == m.embedding_dim
      q_dim == m.q_head_count * m.head_dim
  IN  [embedding_weight |-> m.vocabulary_len * dim, mha_norm_weight |-> m.layer_count * dim,
       mha_q_weight |-> m.layer_count * q_dim * dim, embedding |-> dim, mha_norm |-> dim, mha_q |-> q_dim]
Layout == <<"embedding_weight", "mha_norm_weight", "mha_q_weight", "embedding", "mha_norm", "mha_q">>
Pointer(m, array) ==
  LET position == CHOOSE k \in DOMAIN Layout : Layout[k] = array
  IN  For(position - 1, 0, LAMBDA total, k : total + Sizes(m)[Layout[k + 1]])
MemorySize(m) == Pointer(m, "mha_q") + Sizes(m)["mha_q"]
Malloc(m, mem) ==
  [c \in DOMAIN mem |-> IF c >= Pointer(m, "embedding") THEN Uninit ELSE mem[c]]

\* forward of verif/kernels.cpp, until it frees its buffers.
forward(m, memory, token) ==
  LET P(array) == Pointer(m, array)
      dim == m.embedding_dim
      embedded == For(dim, Malloc(m, memory), LAMBDA mem, e :
        Set(mem, P("embedding") + e, mem[P("embedding_weight") + MINDEX2(m.vocabulary_len, dim, token, e)]))
      Layer(mem, l) ==
        LET normed == rmsnorm(mem, dim, P("mha_norm"), P("embedding"),
                              P("mha_norm_weight") + MINDEX2(m.layer_count, dim, l, 0), m.epsilon)
        IN  For(m.q_head_count, normed, LAMBDA at, q :
              matvec(at, m.head_dim, dim, P("mha_q") + MINDEX2(m.q_head_count, m.head_dim, q, 0), P("mha_norm"),
                     P("mha_q_weight") + MINDEX4(m.layer_count, m.q_head_count, m.head_dim, dim, l, q, 0, 0)))
  IN  For(m.layer_count, embedded, Layer)
\* The queries that each call of generate_prompt_proc leaves; sequence[i] counts from 0.
QueriesOf(m, mem) == [c \in 0 .. Sizes(m)["mha_q"] - 1 |-> mem[Pointer(m, "mha_q") + c]]
generate_prompt_proc(m, memory, sequence) ==
  LET after[i \in 0 .. Len(sequence)] == IF i = 0 THEN memory ELSE forward(m, after[i - 1], sequence[i])
  IN  [i \in DOMAIN sequence |-> QueriesOf(m, after[i])]

-----------------------------------------------------------------------------
\* quantization/matvec_to_quantize.cpp: matrices are flat, and their groups too.
quantize(x, n, GS) ==
  LET scale == [group \in 0 .. n \div GS - 1 |->
                  For(GS, 0, LAMBDA wmax, i : LET val == Vec!Abs(x[group * GS + i]) IN IF val > wmax THEN val ELSE wmax)]
  IN  [s |-> scale, qx |-> [c \in 0 .. (n \div GS) * GS - 1 |-> Vec!Rounded(x[c] * Vec!Q_MAX, scale[c \div GS])]]
matvec_quantized(q_x, q_w, n, d, GS) ==
  LET ival(i, j) == For(GS, 0, LAMBDA sum, k : sum + q_x.qx[j + k] * q_w.qx[i * n + j + k])
      val(i) == For(n \div GS, 0, LAMBDA sum, group :
                  LET j == group * GS
                  IN  sum + ival(i, j) * ((q_w.s[(i * n + j) \div GS] * q_x.s[j \div GS]) \div (Vec!Q_MAX * Vec!Q_MAX)))
  IN  [i \in 0 .. d - 1 |-> val(i)]
flat_matvec(x, w, n, d) == [i \in 0 .. d - 1 |-> For(n, 0, LAMBDA sum, k : sum + x[k] * w[i * n + k])]

=============================================================================
