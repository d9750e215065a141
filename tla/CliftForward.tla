---------------------------- MODULE CliftForward ----------------------------
(***************************************************************************)
(* The inference of case_studies/clift: a prompt goes through the layers   *)
(* of a transformer token by token (forward.cpp), or layer by layer, the   *)
(* loop on tokens being inside of each stage (forward_strip_mining.cpp).   *)
(*                                                                         *)
(* Functions on floats are polynomials modulo a prime: what is told apart  *)
(* is which values are combined, not what their combination is.  Vectors   *)
(* are sequences, indices start at 1 where those of the program start at 0.*)
(***************************************************************************)
EXTENDS Integers, Sequences

P == 251
inv_sqrt(x) == (x * x + 3 * x + 7) % P
expf(x) == (5 * x * x + x + 11) % P
Quotient(x, y) == (x * (y + 1)) % P
cosf(x) == (x * x + 2) % P
sinf(x) == (3 * x + 1) % P

\* A vector of n elements: a sequence, so that each of them is computed once.
Vector(n, Element(_)) == SubSeq([j \in 1 .. n |-> Element(j)], 1, n)
Sum(n, Term(_)) ==
  LET upto[k \in 0 .. n] == IF k = 0 THEN 0 ELSE (upto[k - 1] + Term(k)) % P
  IN  upto[n]
Maximum(x) == CHOOSE m \in {x[j] : j \in DOMAIN x} : \A j \in DOMAIN x : x[j] <= m
Dot(x, y) == Sum(Len(x), LAMBDA k : x[k] * y[k])
Plus(x, y) == Vector(Len(x), LAMBDA j : (x[j] + y[j]) % P)

rmsnorm(x, w, epsilon) ==
  LET ss == inv_sqrt(Quotient(Dot(x, x), Len(x)) + epsilon)
  IN  Vector(Len(x), LAMBDA j : (w[j] * (ss * x[j])) % P)
matvec(x, w) == Vector(Len(w), LAMBDA j : Dot(x, w[j]))
softmax(x) ==
  LET max_val == Maximum(x)
      powers == Vector(Len(x), LAMBDA j : expf(x[j] - max_val))
      sum == Sum(Len(x), LAMBDA j : powers[j])
  IN  Vector(Len(x), LAMBDA j : Quotient(powers[j], sum))
\* Pairs of elements are rotated by an angle that depends on the position.
rope(x, pos) ==
  LET val(j) == pos * (7 * ((j - 1) \div 2) + 3)
  IN  Vector(Len(x), LAMBDA j : IF j % 2 = 1 THEN (x[j] * cosf(val(j)) - x[j + 1] * sinf(val(j))) % P
                                             ELSE (x[j - 1] * sinf(val(j)) + x[j] * cosf(val(j))) % P)
SwiGLU(fc, up) == Vector(Len(fc), LAMBDA e : (Quotient(fc[e], expf(-fc[e])) * up[e]) % P)

-----------------------------------------------------------------------------
\* What a head of query q reads of the caches, up to position pos.
attention(m, k_cache, v_cache, mha_q, l, q, pos) ==
  LET h == ((q - 1) \div m.q_head_per_kv_head_count) + 1
      mha_score == softmax(Vector(pos, LAMBDA p : Quotient(Dot(mha_q, k_cache[l, h, p]), m.head_dim)))
  IN  Vector(m.head_dim, LAMBDA e : Sum(pos, LAMBDA p : mha_score[p] * v_cache[l, h, p][e]))
\* The outputs of the heads one after the other.
Gathered(m, blend) == Vector(m.q_head_count * m.head_dim,
                             LAMBDA c : blend[((c - 1) \div m.head_dim) + 1][((c - 1) % m.head_dim) + 1])
ffn(m, l, embedding) ==
  LET ffn_norm == rmsnorm(embedding, m.ffn_norm_weight[l], m.epsilon)
      ffn_fc == matvec(ffn_norm, m.ffn_fc_weight[l])
      ffn_up == matvec(ffn_norm, m.ffn_up_weight[l])
  IN  Plus(embedding, matvec(SwiGLU(ffn_fc, ffn_up), m.ffn_out_weight[l]))

\* forward.cpp: one token, at position pos; s holds its embedding and the caches.
forward_layer(m, l, pos, s) ==
  LET mha_norm == rmsnorm(s.embedding, m.mha_norm_weight[l], m.epsilon)
      k_cache == [c \in DOMAIN s.k_cache |->
                    IF c[1] = l /\ c[3] = pos THEN rope(matvec(mha_norm, m.mha_k_weight[l][c[2]]), pos) ELSE s.k_cache[c]]
      v_cache == [c \in DOMAIN s.v_cache |->
                    IF c[1] = l /\ c[3] = pos THEN matvec(mha_norm, m.mha_v_weight[l][c[2]]) ELSE s.v_cache[c]]
      mha_blend == Vector(m.q_head_count, LAMBDA q :
                     attention(m, k_cache, v_cache, rope(matvec(mha_norm, m.mha_q_weight[l][q]), pos), l, q, pos))
      mha_out == matvec(Gathered(m, mha_blend), m.mha_out_weight[l])
  IN  [s EXCEPT !.embedding = ffn(m, l, Plus(@, mha_out)), !.k_cache = k_cache, !.v_cache = v_cache]
logits_of(m, embedding) == matvec(rmsnorm(embedding, m.out_norm_weight, m.epsilon), m.out_weight)

\* forward_strip_mining.cpp: all tokens go through a stage before the next one;
\* each has its row in the buffers.
strip_mined_attention(m, l, s) ==
  LET tokens == Len(s.embedding)
      Rows(Row(_)) == Vector(tokens, Row)
      mha_norm == Rows(LAMBDA i : rmsnorm(s.embedding[i], m.mha_norm_weight[l], m.epsilon))
      mha_q == Vector(m.q_head_count, LAMBDA q : Rows(LAMBDA i : rope(matvec(mha_norm[i], m.mha_q_weight[l][q]), i)))
      k_cache == [c \in DOMAIN s.k_cache |->
                    IF c[1] = l /\ c[3] <= tokens THEN rope(matvec(mha_norm[c[3]], m.mha_k_weight[l][c[2]]), c[3])
                                                  ELSE s.k_cache[c]]
      v_cache == [c \in DOMAIN s.v_cache |->
                    IF c[1] = l /\ c[3] <= tokens THEN matvec(mha_norm[c[3]], m.mha_v_weight[l][c[2]]) ELSE s.v_cache[c]]
      mha_blend == Vector(m.q_head_count, LAMBDA q : Rows(LAMBDA i : attention(m, k_cache, v_cache, mha_q[q][i], l, q, i)))
      mha_att == Rows(LAMBDA i : Gathered(m, [q \in 1 .. m.q_head_count |-> mha_blend[q][i]]))
  IN  [s EXCEPT !.embedding = Rows(LAMBDA i : Plus(@[i], matvec(mha_att[i], m.mha_out_weight[l]))),
                !.k_cache = k_cache, !.v_cache = v_cache]
strip_mined_ffn(m, l, s) ==
  LET Rows(Row(_)) == Vector(Len(s.embedding), Row)
      ffn_norm == Rows(LAMBDA i : rmsnorm(s.embedding[i], m.ffn_norm_weight[l], m.epsilon))
      ffn_fc == Rows(LAMBDA i : matvec(ffn_norm[i], m.ffn_fc_weight[l]))
      ffn_up == Rows(LAMBDA i : matvec(ffn_norm[i], m.ffn_up_weight[l]))
      gated == Rows(LAMBDA i : SwiGLU(ffn_fc[i], ffn_up[i]))
  IN  [s EXCEPT !.embedding = Rows(LAMBDA i : Plus(@[i], matvec(gated[i], m.ffn_out_weight[l])))]
strip_mined_layer(m, l, s) == strip_mined_ffn(m, l, strip_mined_attention(m, l, s))

forward(m, token, pos, logits_count, s) ==
  LET after[l \in 0 .. m.layer_count] ==
        IF l = 0 THEN [s EXCEPT !.embedding = m.embedding_weight[token]] ELSE forward_layer(m, l, pos, after[l - 1])
      last == after[m.layer_count]
  IN  [last EXCEPT !.logits = IF logits_count = 1 THEN logits_of(m, last.embedding) ELSE @]
generate_prompt_proc(m, s, sequence) ==
  LET after[i \in 0 .. Len(sequence)] ==
        IF i = 0 THEN s ELSE forward(m, sequence[i], i, IF i = Len(sequence) THEN 1 ELSE 0, after[i - 1])
      last == after[Len(sequence)]
  IN  [k_cache |-> last.k_cache, v_cache |-> last.v_cache, logits |-> last.logits]

\* The logits are computed for each token in the same place: the last ones stay.
strip_mined_prompt(m, s, sequence) ==
  LET after[l \in 0 .. m.layer_count] ==
        IF l = 0 THEN [s EXCEPT !.embedding = [i \in DOMAIN sequence |-> m.embedding_weight[sequence[i]]]]
        ELSE strip_mined_layer(m, l, after[l - 1])
      last == after[m.layer_count]
  IN  [k_cache |-> last.k_cache, v_cache |-> last.v_cache, logits |-> logits_of(m, last.embedding[Len(sequence)])]

-----------------------------------------------------------------------------
\* The programs of clift/demo compute the queries only, each layer in place of the
\* one before; demo_verif.cpp is the program given, the next two are the stages of
\* its transformation.  The result is the buffer, before it is freed, by address.
queries(m, l, q, norm) == matvec(norm, m.mha_q_weight[l][q])
norm_of(m, l, token) == rmsnorm(m.embedding_weight[token], m.mha_norm_weight[l], m.epsilon)
demo_forward(m, token) ==
  LET norm == norm_of(m, m.layer_count, token)
  IN  [c \in 0 .. m.q_head_count * m.head_dim - 1 |->
         queries(m, m.layer_count, (c \div m.head_dim) + 1, norm)[(c % m.head_dim) + 1]]
demo_verif(m, sequence) == Vector(Len(sequence), LAMBDA i : demo_forward(m, sequence[i]))
loop_swap(m, sequence) ==
  LET mha_norm == Vector(Len(sequence), LAMBDA i : norm_of(m, m.layer_count, sequence[i]))
      q_dim == m.q_head_count * m.head_dim
  IN  [c \in 0 .. Len(sequence) * q_dim - 1 |->
         queries(m, m.layer_count, ((c % q_dim) \div m.head_dim) + 1, mha_norm[(c \div q_dim) + 1])[(c % m.head_dim) + 1]]
mined_norms(m, sequence) == Vector(Len(sequence), LAMBDA i : norm_of(m, m.layer_count, sequence[i]))
strip_mining(m, sequence) ==
  LET mha_norm == mined_norms(m, sequence)
      head == Len(sequence) * m.head_dim
  IN  [c \in 0 .. m.q_head_count * head - 1 |->
         queries(m, m.layer_count, (c \div head) + 1, mha_norm[((c % head) \div m.head_dim) + 1])[(c % m.head_dim) + 1]]
-----------------------------------------------------------------------------
\* quantization_wrapped.cpp: a vector in groups of GS, each of them scaled so that
\* its largest value becomes 127; scales are counted in units of 1/127, and their
\* products, where the vectors are multiplied, are whole numbers.
Q_MAX == 127
Exact(x, y) == LET upto[k \in 0 .. Len(x)] == IF k = 0 THEN 0 ELSE upto[k - 1] + x[k] * y[k]  IN  upto[Len(x)]
Abs(x) == IF x < 0 THEN -x ELSE x
\* The nearest integer to a/b, away from zero in the middle.
Rounded(a, b) == (IF a < 0 THEN -1 ELSE 1) * ((2 * Abs(a) + b) \div (2 * b))
quantize(x, GS) ==
  LET scale == [group \in 1 .. Len(x) \div GS |-> Maximum([i \in 1 .. GS |-> Abs(x[(group - 1) * GS + i])])]
  IN  [s |-> scale, qx |-> [i \in 1 .. Len(x) |-> Rounded(x[i] * Q_MAX, scale[((i - 1) \div GS) + 1])]]
matvec_quantized(x, w, GS) ==
  LET ival(i, group) == LET upto[k \in 0 .. GS] ==
                              IF k = 0 THEN 0
                              ELSE upto[k - 1] + x.qx[(group - 1) * GS + k] * w[i].qx[(group - 1) * GS + k]
                        IN  upto[GS]
      val(i) == LET upto[g \in 0 .. Len(x.s)] ==
                      IF g = 0 THEN 0 ELSE upto[g - 1] + ival(i, g) * ((w[i].s[g] * x.s[g]) \div (Q_MAX * Q_MAX))
                IN  upto[Len(x.s)]
  IN  [i \in DOMAIN w |-> val(i)]

=============================================================================
