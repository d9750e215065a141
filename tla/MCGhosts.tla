------------------------------ MODULE MCGhosts ------------------------------
(***************************************************************************)
(* The calls of ghosts that TLC evaluates.                                 *)
(***************************************************************************)
EXTENDS Ghosts

\* Arguments for which GhostsSound holds.  Ranges start at a multiple of their step,
\* where the solver's in_range and is_subrange are exact; they are cut at one of their
\* indices or at their end; sizes are not negative, factors and numbers of parts positive.
AlignedRanges == {LoopRange(a, b, s) : a \in {0, 6, 12}, b \in {0, 5, 6, 8, 12}, s \in 1 .. 3}
Parcels == {Group(Ids, At) : Ids \in {{}, {1}, {1, 2}, {1, 2, 5}}}
Squares == [i \in 0 .. 7 |-> i * i + 1]
MCGhostCalls ==
  {rewrite_linear(from, to) : from \in {1, 2}, to \in {1, 2}}
  \cup {close_wand(H1, H2) : H1 \in Parcels, H2 \in Parcels}
  \cup {wand_simplify(H1, H2, H3) : H1 \in Parcels, H2 \in Parcels, H3 \in Parcels}
  \cup UNION {{hide(H), group_one(H), ro_split2(f, H), ro_split3(f, H), ro_split4(f, H),
               ro_allow_join2(f, H), ro_allow_join3(f, H), ro_allow_join4(f, H)}
              \cup {ro_fork_group(f, H, Upto(parts)) : parts \in 1 .. 4} : f \in {12}, H \in Parcels}
  \cup UNION {{in_range_bounds(x, r), group_focus(x, r), ReadOnly(6, group_focus(x, r)), in_range_shift(x, x + 1, r),
               ro_group2_focus(4, x, r, Upto(2)), pure_group_split(r, r.start + x * r.step),
               group_split(r, r.start + x * r.step), ro_group_split(6, r, r.start + x * r.step),
               group_shift(r, x - 2), ReadOnly(6, group_shift(r, x - 2))} : x \in 0 .. 7, r \in AlignedRanges}
  \cup UNION {{in_range_extend(x, r1, r2), in_range_shift_extend(x, -6, r1, r2)} :
                x \in {0, 3, 6, 7}, r1 \in AlignedRanges, r2 \in AlignedRanges}
  \cup UNION {{group_focus_subrange(r1, r2), group2_focus_subrange(Upto(2), r1, r2), swap_groups(r1, r2)} :
                r1 \in AlignedRanges, r2 \in AlignedRanges}
  \cup UNION {{tile_divides(a, b, s), ReadOnly(3, tile_divides(a, b, s)), group_collapse(a, b),
               mindex2_unfold(a, b), MATRIX1_COPY(a), MATRIX2_COPY(a, b), MATRIX3_COPY(a, 2, b),
               mindex3_unfold(a, 3, b)} : a \in 0 .. 3, b \in 0 .. 3, s \in {0, 6}}
  \cup {group_scale(stop, step, factor) : stop \in 0 .. 6, step \in 1 .. 2, factor \in 1 .. 3}
  \cup UNION {{tiled_index_in_range(i, j, 3, 2, 6), matrix1_focus(i, 3), matrix2_focus(i, j, 3, 2),
               ro_matrix3_focus(4, 1, i, j, 2, 3, 2), matrix2_span_shift(3, 2, i, j), matrix3_span_shift(3, 2, 2, i, j),
               reduce_int_sum_slide(i, j, Squares), reduce_int_sum_add_right(i, j, Squares),
               reduce_int_sum_sub_left(i, j, Squares)} : i \in 0 .. 3, j \in 0 .. 3}
  \cup {group_intro_zero}

-----------------------------------------------------------------------------
\* Calls that contracts accept too, for which it does not hold: a range that is not
\* empty is split before its start or between two of its indices (group_split asks for
\* is_subrange only); an index is taken of a range that starts between two multiples of
\* its step.
AcceptedSplits == {group_split(r, split) : r \in {q \in AlignedRanges : IndicesOf(q) # {}}, split \in 0 .. 12}
AcceptedCalls ==
  AcceptedSplits
  \cup {group_focus(i, LoopRange(1, 8, 2)) : i \in 0 .. 8}

=============================================================================
