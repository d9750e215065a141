------------------------------- MODULE Ghosts -------------------------------
(***************************************************************************)
(* The ghost functions of include/optitrust_common.h, optitrust.h and      *)
(* optitrust_models.h: the steps by which a typed program changes the form *)
(* of what it owns.  Most of them are admitted: their contracts are axioms *)
(* of the resource typechecker.                                            *)
(*                                                                         *)
(* A heap proposition is denoted by what it owns: a bag of cells, in parts *)
(* of a full permission.  A contract is sound if it produces what it       *)
(* consumes, and if what it ensures is true.  The items of a group are     *)
(* cells, which all differ unless an address is computed.                  *)
(***************************************************************************)
EXTENDS Integers, Sequences, FiniteSets, Bags, FiniteSetsExt

CONSTANT GhostCalls   \* contracts, for the arguments of the model's choice

VARIABLES
  contract,           \* the contract of the ghost that the program calls
  calling,            \* "before", "after", or "reverted" by the reverse ghost
  owned               \* what the program owns, the frame left aside

ghostVars == <<contract, calling, owned>>

-----------------------------------------------------------------------------
\* Ranges.  The arithmetic solver proves propositions on ranges: it compares the
\* bounds and looks at the remainder by the step, not at where the range starts.
LoopRange(start, stop, step) == [start |-> start, stop |-> stop, step |-> step]
Upto(stop) == LoopRange(0, stop, 1)
IndicesOf(r) == {i \in r.start .. r.stop - 1 : (i - r.start) % r.step = 0}
range_count(r) == Cardinality(IndicesOf(r))
in_range(i, r) == i >= r.start /\ i < r.stop /\ i % r.step = 0
is_subrange(r1, r2) == r1.start >= r2.start /\ r1.stop <= r2.stop /\ r1.step % r2.step = 0

\* Heap propositions: Group(S, item) is what the items of the indices in S own.
FullParts == 12
Group(S, item(_)) == [c \in {item(i) : i \in S} |-> FullParts * Cardinality({i \in S : item(i) = c})]
_RO(f, H) == [c \in DOMAIN H |-> (H[c] * f) \div FullParts]
Times(count, H) == [c \in (IF count = 0 THEN {} ELSE DOMAIN H) |-> count * H[c]]
Wand(H1, H2) == H2 (-) H1
At(i) == <<i>>
Cell2(t) == t
Swapped(t) == <<t[2], t[1]>>

\* Contracts.  ReadOnly(f, c) is the contract for a fraction f of the same things.
OneWay(requires, consumes, produces) ==
  [requires |-> requires, consumes |-> consumes, produces |-> produces, ensures |-> TRUE, reverse |-> FALSE]
Reversible(requires, consumes, produces) == [OneWay(requires, consumes, produces) EXCEPT !.reverse = TRUE]
PureGhost(requires, ensures) ==
  [OneWay(requires, EmptyBag, EmptyBag) EXCEPT !.ensures = ~requires \/ ensures]
ReadOnly(f, c) == [c EXCEPT !.consumes = _RO(f, @), !.produces = _RO(f, @)]

\* To take a part of what is owned, with the wand that gives the whole back.
Focus(requires, part, whole) == Reversible(requires, whole, Wand(part, whole) (+) part)

-----------------------------------------------------------------------------
rewrite_linear(from, to) == OneWay(from = to, Group({from}, At), Group({to}, At))

close_wand(H1, H2) == OneWay(H1 \sqsubseteq H2, Wand(H1, H2) (+) H1, H2)
hide(H) == Reversible(TRUE, H, Wand(H, H) (+) H)
wand_simplify(H1, H2, H3) ==
  OneWay(H1 \sqsubseteq H2 /\ H2 \sqsubseteq H3, Wand(H1, H2) (+) Wand(H2, H3), Wand(H1, H3))

in_range_extend(x, r1, r2) == PureGhost(in_range(x, r1) /\ is_subrange(r1, r2), x \in IndicesOf(r2))
ShiftedRange(r, k) == LoopRange(r.start + k, r.stop + k, r.step)
in_range_shift(x, k, r) == PureGhost(in_range(x, r), x + k \in IndicesOf(ShiftedRange(r, k)))
in_range_shift_extend(x, k, r1, r2) ==
  PureGhost(in_range(x, r1) /\ is_subrange(ShiftedRange(r1, k), r2), x + k \in IndicesOf(r2))
in_range_bounds(x, r) == PureGhost(in_range(x, r) /\ r.step >= 0, x >= r.start /\ x <= r.stop)

ro_split2(f, H) == OneWay(TRUE, _RO(f, H), _RO(f \div 2, H) (+) _RO(f \div 2, H))
ro_split3(f, H) == OneWay(TRUE, _RO(f, H), _RO(f \div 3, H) (+) _RO(f \div 3, H) (+) _RO(f \div 3, H))
ro_split4(f, H) == OneWay(TRUE, _RO(f, H), Times(4, _RO(f \div 4, H)))
ro_allow_join2(f, H) == OneWay(TRUE, _RO(f \div 2, H), _RO(f - (f \div 2), H))
ro_allow_join3(f, H) == OneWay(TRUE, _RO(f \div 3, H), _RO(f - (f \div 3) - (f \div 3), H))
ro_allow_join4(f, H) == OneWay(TRUE, _RO(f \div 4, H), _RO(f - (f \div 4) - (f \div 4) - (f \div 4), H))
ro_fork_group(f, H, r) == Reversible(TRUE, _RO(f, H), Times(range_count(r), _RO(f \div range_count(r), H)))

swap_groups(inner_range, outer_range) ==
  Reversible(TRUE, Group(IndicesOf(outer_range) \X IndicesOf(inner_range), Cell2),
                   Group(IndicesOf(inner_range) \X IndicesOf(outer_range), Swapped))

tiled_index_in_range(tile_index, index, tile_count, tile_size, size) ==
  PureGhost(/\ size = tile_count * tile_size
            /\ in_range(tile_index, Upto(tile_count))
            /\ in_range(index, Upto(tile_size)),
            tile_index * tile_size + index \in IndicesOf(Upto(size)))

\* Faulty: the number of tiles is taken for their size.
TilesSwapped(tile_count, tile_size, size) ==
  Reversible(size = tile_count * tile_size /\ tile_size >= 0,
             Group(IndicesOf(Upto(size)), At),
             Group(IndicesOf(Upto(tile_count)) \X IndicesOf(Upto(tile_size)), LAMBDA t : At(t[1] * tile_count + t[2])))

tile_divides(tile_count, tile_size, size) ==
  Reversible(size = tile_count * tile_size /\ tile_size >= 0,
             Group(IndicesOf(Upto(size)), At),
             Group(IndicesOf(Upto(tile_count)) \X IndicesOf(Upto(tile_size)), LAMBDA t : At(t[1] * tile_size + t[2])))

group_collapse(n, m) ==
  Reversible(TRUE, Group(IndicesOf(Upto(n)) \X IndicesOf(Upto(m)), Cell2),
                   Group(IndicesOf(Upto(n * m)), LAMBDA ij : <<ij \div m, ij % m>>))

group_focus(i, range) == Focus(in_range(i, range), Group({i}, At), Group(IndicesOf(range), At))
ro_group2_focus(f, i, r, r2) ==
  ReadOnly(f, Focus(in_range(i, r), Group(IndicesOf(r2) \X {i}, Cell2), Group(IndicesOf(r2) \X IndicesOf(r), Cell2)))
group_focus_subrange(sub_range, big_range) ==
  Focus(is_subrange(sub_range, big_range), Group(IndicesOf(sub_range), At), Group(IndicesOf(big_range), At))
group2_focus_subrange(outer_range, sub_range, big_range) ==
  Focus(is_subrange(sub_range, big_range),
        Group(IndicesOf(outer_range) \X IndicesOf(sub_range), Cell2),
        Group(IndicesOf(outer_range) \X IndicesOf(big_range), Cell2))

group_shift(r, shift) ==
  Reversible(TRUE, Group(IndicesOf(r), At), Group(IndicesOf(ShiftedRange(r, shift)), LAMBDA i : At(i - shift)))
group_scale(stop, step, factor) ==
  Reversible(factor # 0, Group(IndicesOf(LoopRange(0, stop, step)), At),
             Group(IndicesOf(LoopRange(0, factor * stop, factor * step)), LAMBDA i : At(i \div factor)))

Parts(r, split) == Group(IndicesOf(LoopRange(r.start, split, r.step)), At)
                   (+) Group(IndicesOf(LoopRange(split, r.stop, r.step)), At)
group_split(r, split) ==
  Reversible(is_subrange(LoopRange(r.start, split, r.step), r), Group(IndicesOf(r), At), Parts(r, split))
ro_group_split(f, r, split) ==
  ReadOnly(f, Reversible(in_range(split, r), Group(IndicesOf(r), At), Parts(r, split)))
pure_group_split(r, split) == PureGhost(in_range(split, r), DOMAIN Parts(r, split) = DOMAIN Group(IndicesOf(r), At))

group_intro_zero == Reversible(TRUE, EmptyBag, Group(IndicesOf(Upto(0)), At))
group_one(H) == OneWay(TRUE, H, Times(range_count(Upto(1)), H))

-----------------------------------------------------------------------------
\* Matrices: cells at computed addresses.
MINDEX1(N1, i1) == i1
MINDEX2(N1, N2, i1, i2) == i1 * N2 + i2
MINDEX3(N1, N2, N3, i1, i2, i3) == i1 * N2 * N3 + i2 * N3 + i3
Indices2(n1, n2) == IndicesOf(Upto(n1)) \X IndicesOf(Upto(n2))
Indices3(n1, n2, n3) == IndicesOf(Upto(n1)) \X IndicesOf(Upto(n2)) \X IndicesOf(Upto(n3))
Matrix1(n1) == Group(IndicesOf(Upto(n1)), LAMBDA i : At(MINDEX1(n1, i)))
Matrix2(n1, n2) == Group(Indices2(n1, n2), LAMBDA t : At(MINDEX2(n1, n2, t[1], t[2])))
Matrix3(n1, n2, n3) == Group(Indices3(n1, n2, n3), LAMBDA t : At(MINDEX3(n1, n2, n3, t[1], t[2], t[3])))

mindex2_unfold(n1, n2) ==
  Reversible(TRUE, Matrix2(n1, n2), Group(Indices2(n1, n2), LAMBDA t : At(t[1] * n2 + MINDEX1(n2, t[2]))))
mindex3_unfold(n1, n2, n3) ==
  Reversible(TRUE, Matrix3(n1, n2, n3),
             Group(Indices3(n1, n2, n3), LAMBDA t : At(t[1] * n2 * n3 + MINDEX2(n2, n3, t[2], t[3]))))

matrix1_focus(i, n) == Focus(in_range(i, Upto(n)), Group({MINDEX1(n, i)}, At), Matrix1(n))
matrix2_focus(i, j, m, n) ==
  Focus(in_range(i, Upto(m)) /\ in_range(j, Upto(n)), Group({MINDEX2(m, n, i, j)}, At), Matrix2(m, n))
ro_matrix3_focus(f, i, j, k, m, n, o) ==
  ReadOnly(f, Focus(in_range(i, Upto(m)) /\ in_range(j, Upto(n)) /\ in_range(k, Upto(o)),
                    Group({MINDEX3(m, n, o, i, j, k)}, At), Matrix3(m, n, o)))

\* memcpy and memset go through the elements in a row.
MATRIX1_COPY(length) == OneWay(TRUE, Matrix1(length), Group(0 .. length - 1, At))
MATRIX2_COPY(n1, n2) == OneWay(TRUE, Matrix2(n1, n2), Group(0 .. n1 * n2 - 1, At))
MATRIX3_COPY(n1, n2, n3) == OneWay(TRUE, Matrix3(n1, n2, n3), Group(0 .. n1 * n2 * n3 - 1, At))

\* The span from row a to row b; a cell goes with its content, an element of the
\* model M of the matrix.
matrix2_span_shift(n1, n2, a, b) ==
  OneWay(TRUE,
    Group((a .. b - 1) \X (0 .. n2 - 1), LAMBDA t : <<MINDEX2(n1, n2, t[1], t[2])>> \o t),
    Group(Indices2(b - a, n2), LAMBDA t : <<a * n2 + MINDEX2(b - a, n2, t[1], t[2]), t[1] + a, t[2]>>))
matrix3_span_shift(n1, n2, n3, a, b) ==
  OneWay(TRUE,
    Group((a .. b - 1) \X (0 .. n2 - 1) \X (0 .. n3 - 1), LAMBDA t : <<MINDEX3(n1, n2, n3, t[1], t[2], t[3])>> \o t),
    Group(Indices3(b - a, n2, n3),
          LAMBDA t : <<a * n2 * n3 + MINDEX3(b - a, n2, n3, t[1], t[2], t[3]), t[1] + a, t[2], t[3]>>))

\* Sums over a range, of a sequence f.
int_sum(a, b, f) == MapThenSumSet(LAMBDA i : f[i], a .. b - 1)
reduce_int_sum_slide(a, b, f) ==
  PureGhost(b >= a, int_sum(a, b, f) + (f[b] - f[a]) = int_sum(a + 1, b + 1, f))
reduce_int_sum_add_right(a, b, f) ==
  PureGhost(b >= a, int_sum(a, b, f) + f[b] = int_sum(a, b + 1, f))
reduce_int_sum_sub_left(a, b, f) ==
  PureGhost(b > a, int_sum(a, b, f) - f[a] = int_sum(a + 1, b, f))

-----------------------------------------------------------------------------
GhostInit ==
  /\ contract \in GhostCalls
  /\ calling = "before"
  /\ owned = contract.consumes

CallGhost ==
  /\ calling = "before" /\ contract.requires
  /\ owned' = (owned (-) contract.consumes) (+) contract.produces
  /\ calling' = "after"
  /\ UNCHANGED contract

CallReverse ==
  /\ calling = "after" /\ contract.reverse /\ contract.produces \sqsubseteq owned
  /\ owned' = (owned (-) contract.produces) (+) contract.consumes
  /\ calling' = "reverted"
  /\ UNCHANGED contract

GhostNext == CallGhost \/ CallReverse
GhostSpec == GhostInit /\ [][GhostNext]_ghostVars

-----------------------------------------------------------------------------
\* Called with the arguments GhostCalls, no ghost, admitted or not, creates or loses the
\* ownership of a cell, and what it ensures is true.  MCGhostCalls says for which arguments
\* this is checked; AcceptedCalls has others that the contracts accept and for which
\* group_split and group_focus are wrong.
GhostsSound ==
  /\ \A c \in DOMAIN owned \cup DOMAIN contract.consumes : CopiesIn(c, owned) = CopiesIn(c, contract.consumes)
  /\ calling # "before" => contract.ensures

=============================================================================
