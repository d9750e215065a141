----------------------------- MODULE SmallKernels -----------------------------
(***************************************************************************)
(* The short programs of the case studies with what OptiTrust makes of     *)
(* them: case_studies/quicksort, floyd_warshall, box_blur, vectvectmul and *)
(* gpu.  Sizes that are fixed in a program (the length under which a part  *)
(* is sorted by insertion, those of blocks) are in its arguments.          *)
(***************************************************************************)
EXTENDS Integers, Sequences, FiniteSetsExt

\* State after the iterations first, first + 1, ... of a loop, n of them.
Loop(n, state, Iteration(_, _)) ==
  LET after[k \in 0 .. n] == IF k = 0 THEN state ELSE Iteration(after[k - 1], k - 1)
  IN  after[n]
Sum(n, Term(_)) == Loop(n, 0, LAMBDA s, k : s + Term(k))

-----------------------------------------------------------------------------
\* quicksort.cpp: arr[0 .. rightLimit - 1] of the part of data that starts at base.
swap(data, i, j) == [data EXCEPT ![i] = data[j], ![j] = data[i]]

Partition(data, base, rightLimit) ==
  LET pivot == data[base + rightLimit - 1]
      Iteration(s, idxIter) ==
        IF s.data[base + idxIter] < pivot
        THEN [idxLeft |-> s.idxLeft + 1, data |-> swap(s.data, base + s.idxLeft + 1, base + idxIter)]
        ELSE s
      last == Loop(rightLimit - 1, [idxLeft |-> -1, data |-> data], Iteration)
  IN  [pivot |-> last.idxLeft + 1, data |-> swap(last.data, base + last.idxLeft + 1, base + rightLimit - 1)]

\* The first of the least elements is brought to the front of what is left.
InsertionSort(data, base, rightLimit) ==
  LET Iteration(arr, idx) ==
        LET idxMin == CHOOSE i \in idx .. rightLimit - 1 :
                        \A j \in idx .. rightLimit - 1 : arr[base + i] < arr[base + j] \/ (arr[base + i] = arr[base + j] /\ i <= j)
        IN  swap(arr, base + idx, base + idxMin)
  IN  Loop(Max({0, rightLimit - 1}), data, Iteration)

RECURSIVE SortCore(_, _, _, _)
SortCore(data, base, rightLimit, cutoff) ==
  IF 0 >= rightLimit THEN data
  ELSE IF rightLimit <= cutoff THEN InsertionSort(data, base, rightLimit)
  ELSE LET parts == Partition(data, base, rightLimit)
           left == SortCore(parts.data, base, parts.pivot, cutoff)
       IN  SortCore(left, base + parts.pivot + 1, rightLimit - (parts.pivot + 1), cutoff)
Sort(a) == SortCore(a.data, 0, a.size, a.cutoff)

\* main checks the order; no element may be lost either.
Sorted(a, data) ==
  /\ \A idx \in 1 .. a.size - 1 : data[idx - 1] <= data[idx]
  /\ \A i \in DOMAIN data : Quantify(DOMAIN data, LAMBDA j : data[j] = data[i])
                            = Quantify(DOMAIN data, LAMBDA j : a.data[j] = data[i])

-----------------------------------------------------------------------------
\* floyd_warshall.cpp: A holds the N * N weights of edges, then of shortest paths.
\* Words are of 16 bits instead of 32; no sum of two weights reaches their limit,
\* where the programs would differ.
uint32(x) == x % 65536

\* A is updated in place, for k, i and j.
floyd(a) ==
  Loop(a.N * a.N * a.N, a.A,
       LAMBDA A, t : LET k == t \div (a.N * a.N)
                         i == (t \div a.N) % a.N
                         j == t % a.N
                         through == uint32(A[i * a.N + k] + A[k * a.N + j])
                     IN  IF A[i * a.N + j] > through THEN [A EXCEPT ![i * a.N + j] = through] ELSE A)

\* "floyd_warshall_out copy.cpp": row k is copied before it is used.
default_floyd(a) ==
  LET Cell(kj, k, A, t) ==
        LET i == t \div a.N
            j == t % a.N
            sum == uint32(A[i * a.N + k] + kj[j])
        IN  IF A[i * a.N + j] > sum THEN [A EXCEPT ![i * a.N + j] = sum] ELSE A
  IN  Loop(a.N, a.A, LAMBDA A, k : LET kj == [j \in 0 .. a.N - 1 |-> A[k * a.N + j]]
                                   IN  Loop(a.N * a.N, A, LAMBDA B, t : Cell(kj, k, B, t)))

\* floyd_warshall_exp.cpp: row and column k are copied, and the loops on i and j are
\* split at k; the copies follow the cells of the column and the row k.
Relaxed(a, k, s, Is, Js) ==
  LET sum(i, j) == uint32(s.ik[i] + s.kj[j])
      Shorter(i, j) == i \in Is /\ j \in Js /\ s.A[i * a.N + j] > sum(i, j)
  IN  [A |-> [c \in DOMAIN s.A |-> IF Shorter(c \div a.N, c % a.N) THEN sum(c \div a.N, c % a.N) ELSE s.A[c]],
       ik |-> [i \in DOMAIN s.ik |-> IF Js = {k} /\ Shorter(i, k) THEN sum(i, k) ELSE s.ik[i]],
       kj |-> [j \in DOMAIN s.kj |-> IF Is = {k} /\ Shorter(k, j) THEN sum(k, j) ELSE s.kj[j]]]
floyd_exp(a) ==
  LET Iteration(A, k) ==
        LET before == 0 .. k - 1
            after == k + 1 .. a.N - 1
            s == [A |-> A, ik |-> [i \in 0 .. a.N - 1 |-> A[i * a.N + k]], kj |-> [j \in 0 .. a.N - 1 |-> A[k * a.N + j]]]
            nests == <<<<before, before>>, <<before, {k}>>, <<before, after>>, <<{k}, 0 .. a.N - 1>>,
                       <<after, before>>, <<after, {k}>>, <<after, after>>>>
        IN  Loop(Len(nests), s, LAMBDA r, t : Relaxed(a, k, r, nests[t + 1][1], nests[t + 1][2])).A
  IN  Loop(a.N, a.A, Iteration)

\* The least weight of the paths with 1 to N edges.
ShortestPaths(a) ==
  LET Longer(W, m) == [c \in DOMAIN W |->
        Min({W[c]} \cup {W[(c \div a.N) * a.N + k] + a.A[k * a.N + (c % a.N)] : k \in 0 .. a.N - 1})]
  IN  Loop(a.N, a.A, Longer)

-----------------------------------------------------------------------------
\* box_blur.cpp: averages of three values in columns, then in rows.  The width of
\* the result is w - 8.
NoValue == -1
Stored(size, Nest, Address(_), Value(_)) ==
  [c \in 0 .. size - 1 |-> LET writes == {t \in Nest : Address(t) = c}
                           IN  IF writes = {} THEN NoValue ELSE Value(CHOOSE t \in writes : TRUE)]
Third(x) == x \div 3

blur(a) ==
  LET h2 == a.h - 2
      w2 == a.w - 8
      blur_y == Stored(h2 * a.w, (0 .. a.w - 1) \X (0 .. h2 - 1), LAMBDA t : t[1] + a.w * t[2],
                  LAMBDA t : Third(Sum(3, LAMBDA k : a.input[t[1] + a.w * (t[2] + k)])))
  IN  Stored(h2 * w2, (0 .. w2 - 1) \X (0 .. h2 - 1), LAMBDA t : t[1] + w2 * t[2],
             LAMBDA t : Third(Sum(3, LAMBDA k : blur_y[t[1] + k + a.w * t[2]])))

\* box_blur_exp.cpp: by blocks of rows, cut at the end, and by 4 columns.
blur_exp(a) ==
  LET h2 == a.h - 2
      w2 == a.w - 8
      rows == UNION {{y \in by .. by + a.block - 1 : y < h2} : by \in {b \in 0 .. h2 - 1 : b % a.block = 0}}
      ByFour(w) == (0 .. (w \div 4) - 1) \X (0 .. 3)
      blur_y == Stored(h2 * a.w, rows \X ByFour(a.w), LAMBDA t : t[2][1] * 4 + t[2][2] + a.w * t[1],
                  LAMBDA t : Third(Sum(3, LAMBDA k : a.input[t[2][1] * 4 + t[2][2] + a.w * (t[1] + k)])))
  IN  Stored(h2 * w2, rows \X ByFour(w2), LAMBDA t : t[2][1] * 4 + t[2][2] + w2 * t[1],
             LAMBDA t : Third(Sum(3, LAMBDA k : blur_y[t[2][1] * 4 + t[2][2] + k + a.w * t[1]])))

-----------------------------------------------------------------------------
\* vectvectmul: a scalar product, and the stages of its transformation in blocks,
\* each with an accumulator t.  The block is in the arguments, n is a multiple of it.
vect_vect_mul(a) == Sum(a.n, LAMBDA i : a.a[i] * a.b[i])
InBlocks(a, Start(_), Add(_, _, _), End(_, _)) ==
  LET term(bi, i) == a.a[bi * a.block + i] * a.b[bi * a.block + i]
      Block(s, bi) == End(s, Loop(a.block, Start(s), LAMBDA t, i : Add(s, t, term(bi, i))))
  IN  Loop(a.n \div a.block, 0, Block)
vectvectmul0(a) == InBlocks(a, LAMBDA s : s, LAMBDA s, t, x : t + x, LAMBDA s, t : t)
vectvectmul1(a) == InBlocks(a, LAMBDA d : d - d, LAMBDA d, t, x : ((t + d) + x) - d, LAMBDA d, t : t + d)
vectvectmul2(a) == InBlocks(a, LAMBDA s : 0, LAMBDA s, t, x : t + x, LAMBDA s, t : t + s)
vv1(a) == InBlocks(a, LAMBDA d : d, LAMBDA d, t, x : t + x, LAMBDA d, t : t)
vv2(a) == InBlocks(a, LAMBDA s : 0, LAMBDA s, t, x : t + x, LAMBDA s, t : t + s)

-----------------------------------------------------------------------------
\* gpu: the programs that kernels will be made from.
hist(a) ==
  Loop(a.arr_len, [j \in 0 .. a.hist_len - 1 |-> 0], LAMBDA h, i : [h EXCEPT ![a.arr[i]] = @ + 1])
countelems(a, j) == Cardinality({i \in 0 .. a.arr_len - 1 : a.arr[i] = j})
reduce(a) == Loop(a.arr_len, 0, LAMBDA sum, i : sum + a.arr[i])
vector_add(a) == Loop(a.arr_len, a.arr, LAMBDA arr, i : [arr EXCEPT ![i] = @ + 5])

=============================================================================
