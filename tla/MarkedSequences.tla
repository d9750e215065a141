--------------------------- MODULE MarkedSequences ---------------------------
(***************************************************************************)
(* Sequences of instructions with marks between the items (mlist.ml and    *)
(* mark.ml in lib/ast), and the transformations of lib/transfo that        *)
(* insert, delete, copy, move, group and ungroup instructions.             *)
(*                                                                         *)
(* A term is an instruction or a sequence of terms; only its name and its  *)
(* marks are kept.  As in the program, indices start at 0, and position i  *)
(* is the one before item i.  Marks are sets, their order being of no use. *)
(***************************************************************************)
EXTENDS Integers, Sequences, SequencesExt

of_list(list) == [items |-> list, marks |-> <<{}>> \o [i \in DOMAIN list |-> {}]]
empty == of_list(<<>>)
length(ml) == Len(ml.items)

insert_mark_at(index, m, ml) == [ml EXCEPT !.marks[index + 1] = @ \cup {m}]
remove_mark(m, ml) == [ml EXCEPT !.marks = [i \in DOMAIN @ |-> @[i] \ {m}]]

\* With left_bias, the marks at index go with the first part.
split(left_bias, index, ml) ==
  LET kept == IF left_bias THEN index + 1 ELSE index
      first == SubSeq(ml.marks, 1, kept)
      second == SubSeq(ml.marks, kept + 1, Len(ml.marks))
  IN  [left |-> [items |-> SubSeq(ml.items, 1, index),
                 marks |-> IF left_bias THEN first ELSE Append(first, {})],
       right |-> [items |-> SubSeq(ml.items, index + 1, length(ml)),
                  marks |-> IF left_bias THEN <<{}>> \o second ELSE second]]

merge(ml1, ml2) ==
  [items |-> ml1.items \o ml2.items,
   marks |-> Front(ml1.marks) \o <<Last(ml1.marks) \cup Head(ml2.marks)>> \o Tail(ml2.marks)]
merge_list(mll) == FoldLeft(merge, empty, mll)

insert_marks_at_start(ms, ml) == merge([items |-> <<>>, marks |-> <<ms>>], ml)

insert_sublist_at(index, list, ml) ==
  LET parts == split(TRUE, index, ml) IN merge(merge(parts.left, of_list(list)), parts.right)

-----------------------------------------------------------------------------
\* Terms.  A sequence that is hidden has no braces: it only lasts until
\* Nobrace.clean_all_seq (one context of Nobrace is open at a time here).
Instr(name) == [name |-> name, marks |-> {}, is_seq |-> FALSE, hidden |-> FALSE, body |-> empty]
trm_seq(ml) == [name |-> "seq", marks |-> {}, is_seq |-> TRUE, hidden |-> FALSE, body |-> ml]
trm_seq_nobrace(ml) == [trm_seq(ml) EXCEPT !.hidden = TRUE]

RECURSIVE clean_all_seq(_)
\* Faulty: the marks before the items of a hidden sequence are lost.
FlattenedOver(ml) ==
  merge_list(Append([i \in DOMAIN ml.items |->
                       IF ml.items[i].hidden THEN ml.items[i].body
                       ELSE insert_marks_at_start(ml.marks[i], of_list(<<ml.items[i]>>))],
                    [items |-> <<>>, marks |-> <<Last(ml.marks)>>]))

flatten_seq(ml) ==
  merge_list(Append([i \in DOMAIN ml.items |->
                       LET inner == IF ml.items[i].hidden THEN ml.items[i].body ELSE of_list(<<ml.items[i]>>)
                       IN  insert_marks_at_start(ml.marks[i], inner)],
                    [items |-> <<>>, marks |-> <<Last(ml.marks)>>]))
clean_all_seq(t) ==
  IF t.is_seq
  THEN [t EXCEPT !.body = flatten_seq([@ EXCEPT !.items = [i \in DOMAIN @ |-> clean_all_seq(@[i])]])]
  ELSE t

\* A path is made of the indices of items; nodes are the paths to all subterms,
\* in the order of Dir.compare_path, where a term comes after its subterms.
RECURSIVE nodes(_)
nodes(t) ==
  FlattenSeq([i \in DOMAIN t.body.items |-> LET below == nodes(t.body.items[i])
                                            IN  [j \in DOMAIN below |-> <<i - 1>> \o below[j]]])
  \o << <<>> >>

RECURSIVE resolve_path(_, _)
resolve_path(dirs, t) ==
  IF dirs = <<>> THEN t ELSE resolve_path(Tail(dirs), t.body.items[Head(dirs) + 1])

\* apply_on_path, with the term that the function returns.
RECURSIVE replace_on_path(_, _, _)
replace_on_path(new, t, dirs) ==
  IF dirs = <<>> THEN new
  ELSE [t EXCEPT !.body.items[Head(dirs) + 1] = replace_on_path(new, @, Tail(dirs))]

-----------------------------------------------------------------------------
\* Transformations of a sequence t.
insert_at(code, index, t) == [t EXCEPT !.body = insert_sublist_at(index, <<code>>, @)]

\* Faulty: the marks after the span go with it.
AroundWithMarks(start, stop, ml) ==
  LET cut == split(TRUE, stop, ml)
      parts == split(TRUE, start, cut.left)
  IN  [before |-> parts.left, inside |-> parts.right, after |-> cut.right]

\* What update_span_helper keeps around a span.
around_span(start, stop, ml) ==
  LET cut == split(FALSE, stop, ml)
      parts == split(TRUE, start, cut.left)
  IN  [before |-> parts.left, inside |-> parts.right, after |-> cut.right]
delete_at(start, stop, t) ==
  LET parts == around_span(start, stop, t.body)
  IN  IF start >= stop THEN t ELSE [t EXCEPT !.body = merge(parts.before, parts.after)]

copy_at(mark_copy, dest_index, index, t) ==
  insert_at([t.body.items[index + 1] EXCEPT !.marks = @ \cup {mark_copy}], dest_index, t)

\* Instr.move: the span and the items between it and dest_index change places.
move_at(start, stop, dest_index, t) ==
  LET before == IF start < dest_index THEN start ELSE dest_index
      mid == IF start < dest_index THEN stop ELSE start
      after == IF start < dest_index THEN dest_index ELSE stop
      cut == split(FALSE, after, t.body)
      halves == split(TRUE, mid, cut.left)
      parts == split(TRUE, before, halves.left)
  IN  [t EXCEPT !.body = merge_list(<<parts.left, halves.right, parts.right, cut.right>>)]

\* nb items from index on, or up to it if nb is negative, become a sequence.
intro_first(index, nb) == IF nb < 0 THEN index + nb + 1 ELSE index
intro_nb(nb) == IF nb < 0 THEN -nb ELSE nb
intro_at(index, nb, t) ==
  LET parts == split(TRUE, intro_first(index, nb), t.body)
      rest == split(FALSE, intro_nb(nb), parts.right)
  IN  insert_at(trm_seq(rest.left), intro_first(index, nb),
                [t EXCEPT !.body = merge(parts.left, rest.right)])

wrap_on(t) == trm_seq(of_list(<<t>>))
elim_on(t) == trm_seq_nobrace(t.body)

\* The marks at the point of the split are dropped (Mlist.split_on_marks).  The case
\* of function bodies never applies: Internal.is_decl_body is given the path to the
\* point, which ends in Dir_before.
split_at(index, t) ==
  LET parts == split(FALSE, index, t.body)
      second == [parts.right EXCEPT !.marks[1] = {}]
  IN  trm_seq_nobrace(of_list(<<trm_seq(parts.left), trm_seq(second)>>))

=============================================================================
