----------------------------- MODULE TargetIter -----------------------------
(***************************************************************************)
(* Target.iteri (lib/framework/target/target.ml): a transformation is      *)
(* applied at each of the places that a target matches.  A mark is put on  *)
(* all of them first; before each application the path to its place is     *)
(* looked up again by its mark, because the applications before may have   *)
(* changed the program around it.                                          *)
(*                                                                         *)
(* A call gives the program, a sequence whose items have different names;  *)
(* the transformation op with its parameters nb (of intro) and dest (of    *)
(* move); the target, by rel and the names of the instructions it matches, *)
(* stops being those that end spans; and rev, to go backwards.             *)
(***************************************************************************)
EXTENDS Integers, Sequences, FiniteSets

LOCAL INSTANCE SequencesExt
LOCAL Ast == INSTANCE MarkedSequences

CONSTANT IterCalls

VARIABLES
  iterCall,    \* the call
  ast,         \* the current program
  occ,         \* number of places where the transformation has been applied
  iterState,   \* "iterating", "returned", "raised" (by the transformation), or
               \* "lost" (the mark of a place is not found, or is found twice)
  reached      \* what the transformation was given at each application
iterVars == <<iterCall, ast, occ, iterState, reached>>

-----------------------------------------------------------------------------
\* A place is a sequence and a span of it: the item start, a point between two
\* items, or items start to stop - 1.
Nth(dirs) == [kind |-> "nth", seq |-> Front(dirs), start |-> Last(dirs), stop |-> Last(dirs) + 1]
PointBefore(seq, i) == [kind |-> "before", seq |-> seq, start |-> i, stop |-> i]
SpanOf(seq, i, j) == [kind |-> "span", seq |-> seq, start |-> i, stop |-> j]
NodesNamed(t, names) == SelectSeq(Ast!nodes(t), LAMBDA dirs : Ast!resolve_path(dirs, t).name \in names)
AllSequences(t) == SelectSeq(Ast!nodes(t), LAMBDA dirs : Ast!resolve_path(dirs, t).is_seq)

\* tSpan: the starts and the stops are paired in order in each sequence, where there
\* must be as many of both and spans that do not overlap.
Positions(t, seq, names) ==
  SelectSeq([i \in DOMAIN Ast!resolve_path(seq, t).body.items |-> i],
            LAMBDA i : Ast!resolve_path(seq, t).body.items[i].name \in names)
Spans(t, seq, names, stops) ==
  LET first == Positions(t, seq, names)
      last == Positions(t, seq, stops)
      Paired == /\ Len(first) = Len(last)
                /\ \A k \in DOMAIN first : first[k] <= last[k] /\ (k > 1 => last[k - 1] < first[k])
  IN  IF Paired THEN [k \in DOMAIN first |-> SpanOf(seq, first[k] - 1, last[k])] ELSE <<>>

resolve_target(tg, t) ==
  LET named == NodesNamed(t, tg.names)
      seqs == AllSequences(t)
  IN  CASE tg.rel = "at" -> [k \in DOMAIN named |-> Nth(named[k])]
        [] tg.rel = "before" -> [k \in DOMAIN named |-> PointBefore(Front(named[k]), Last(named[k]))]
        [] tg.rel = "after" -> [k \in DOMAIN named |-> PointBefore(Front(named[k]), Last(named[k]) + 1)]
        [] tg.rel = "span" -> FlattenSeq([k \in DOMAIN seqs |-> Spans(t, seqs[k], tg.names, tg.stops)])

places ==
  LET ps == resolve_target(iterCall.tg, iterCall.program)
  IN  IF iterCall.rev THEN Reverse(ps) ELSE ps

\* The marks of the iteration, and those that the program has at the start.
Fresh(k, end) == [of |-> "iter", n |-> k, end |-> end]
UserMark(n) == [of |-> "user", n |-> n, end |-> "at"]
CopyMark == [of |-> "copy", n |-> 0, end |-> "at"]

SeqAt(t, p) == Ast!resolve_path(p.seq, t)
OnSeq(t, p, new) == Ast!replace_on_path(new, t, p.seq)
MarksOn(t, p, k) ==
  LET s == SeqAt(t, p)
      AtPoint(index, end, ml) == Ast!insert_mark_at(index, Fresh(k, end), ml)
  IN  CASE p.kind = "nth" -> [s EXCEPT !.body.items[p.start + 1].marks = @ \cup {Fresh(k, "at")}]
        [] p.kind = "before" -> [s EXCEPT !.body = AtPoint(p.start, "at", @)]
        [] p.kind = "span" -> [s EXCEPT !.body = AtPoint(p.stop, "end", AtPoint(p.start, "begin", @))]
trm_add_marks_at_paths(t, ps) ==
  FoldLeft(LAMBDA acc, k : OnSeq(acc, ps[k], MarksOn(acc, ps[k], k)), t, [k \in DOMAIN ps |-> k])

\* The places that bear mark k.  A span needs both its marks in one sequence, in
\* this order.
PointsOf(ml, m) == {i \in 0 .. Ast!length(ml) : m \in ml.marks[i + 1]}
Points(t, m) ==
  UNION {{<<dirs, i>> : i \in PointsOf(Ast!resolve_path(dirs, t).body, m)} : dirs \in ToSet(Ast!nodes(t))}
find_mark(t, k, kind) ==
  IF kind = "span"
  THEN {SpanOf(start[1], start[2], stop[2]) : <<start, stop>> \in
          {pair \in Points(t, Fresh(k, "begin")) \X Points(t, Fresh(k, "end")) :
             pair[1][1] = pair[2][1] /\ pair[1][2] <= pair[2][2]}}
  ELSE {Nth(dirs) : dirs \in {d \in ToSet(Ast!nodes(t)) : Fresh(k, "at") \in Ast!resolve_path(d, t).marks}}
       \cup {PointBefore(point[1], point[2]) : point \in Points(t, Fresh(k, "at"))}
trm_remove_mark_at_path(t, k, p) ==
  LET s == SeqAt(t, p)
      Out(end, ml) == Ast!remove_mark(Fresh(k, end), ml)
  IN  OnSeq(t, p, CASE p.kind = "nth" -> [s EXCEPT !.body.items[p.start + 1].marks = @ \ {Fresh(k, "at")}]
                    [] p.kind = "before" -> [s EXCEPT !.body = Out("at", @)]
                    [] p.kind = "span" -> [s EXCEPT !.body = Out("end", Out("begin", @))])

-----------------------------------------------------------------------------
\* The destination of Instr.move, in the sequence of the place.
dest_indices(s) ==
  CASE iterCall.dest = "first" -> {0}
    [] iterCall.dest = "last" -> {Ast!length(s.body)}
    [] OTHER -> {i \in 0 .. Ast!length(s.body) - 1 : s.body.items[i + 1].name = iterCall.dest}

\* The transformation raises when it does not fit the place p in the sequence s.
Fits(s, p) ==
  CASE iterCall.op = "delete" -> TRUE
    [] iterCall.op \in {"insert", "split"} -> p.kind = "before"
    [] iterCall.op \in {"copy", "wrap"} -> p.kind = "nth"
    [] iterCall.op = "elim" -> p.kind = "nth" /\ s.body.items[p.start + 1].is_seq
    [] iterCall.op = "intro" ->
         /\ p.kind = "nth" /\ Ast!intro_first(p.start, iterCall.nb) >= 0
         /\ Ast!intro_first(p.start, iterCall.nb) + Ast!intro_nb(iterCall.nb) <= Ast!length(s.body)
    [] iterCall.op = "move" ->
         \E i \in dest_indices(s) : dest_indices(s) = {i} /\ ~(p.start < i /\ i < p.stop)

Transformed(s, p) ==
  CASE iterCall.op = "delete" -> Ast!delete_at(p.start, p.stop, s)
    [] iterCall.op = "insert" -> Ast!insert_at(Ast!Instr("code"), p.start, s)
    [] iterCall.op = "split" -> Ast!split_at(p.start, s)
    [] iterCall.op = "copy" -> Ast!copy_at(CopyMark, p.start + 1, p.start, s)
    [] iterCall.op = "wrap" -> [s EXCEPT !.body.items[p.start + 1] = Ast!wrap_on(@)]
    [] iterCall.op = "elim" -> [s EXCEPT !.body.items[p.start + 1] = Ast!elim_on(@)]
    [] iterCall.op = "intro" -> Ast!intro_at(p.start, iterCall.nb, s)
    [] iterCall.op = "move" -> Ast!move_at(p.start, p.stop, CHOOSE i \in dest_indices(s) : TRUE, s)

-----------------------------------------------------------------------------
\* The instructions of the original program in t, and before a point of it.
RECURSIVE Leaves(_), LeavesBefore(_, _, _)
IsNew(t) == CopyMark \in t.marks \/ t.name = "code"
LeavesOf(items) == UNION {Leaves(items[i]) : i \in DOMAIN items}
Leaves(t) == IF IsNew(t) THEN {} ELSE IF t.is_seq THEN LeavesOf(t.body.items) ELSE {t.name}
LeavesBefore(t, dirs, i) ==
  IF dirs = <<>> THEN LeavesOf(SubSeq(t.body.items, 1, i))
  ELSE LeavesOf(SubSeq(t.body.items, 1, Head(dirs)))
       \cup LeavesBefore(t.body.items[Head(dirs) + 1], Tail(dirs), i)
Given(t, p) ==
  IF p.kind = "before" THEN LeavesBefore(t, p.seq, p.start)
  ELSE LeavesOf(SubSeq(SeqAt(t, p).body.items, p.start + 1, p.stop))

\* Nobrace_transfo.remove_after is around the iteration.
CleansAfter == iterCall.op \in {"split", "wrap", "elim"}
Finished(t) == IF CleansAfter THEN Ast!clean_all_seq(t) ELSE t

TargetInit ==
  /\ iterCall \in IterCalls
  /\ ast = IF Len(places) > 1 THEN trm_add_marks_at_paths(iterCall.program, places) ELSE iterCall.program
  /\ occ = 0
  /\ iterState = "iterating"
  /\ reached = <<>>

\* The transformation at a place p, in a program where its mark is removed.
CallAt(t, p) ==
  /\ reached' = Append(reached, [given |-> Given(t, p), present |-> Leaves(t)])
  /\ IF Fits(SeqAt(t, p), p)
     THEN ast' = OnSeq(t, p, Transformed(SeqAt(t, p), p)) /\ iterState' = "iterating"
     ELSE ast' = t /\ iterState' = "raised"

\* One place has no mark.
ApplyToOnly ==
  /\ iterState = "iterating" /\ Len(places) = 1 /\ occ = 0
  /\ CallAt(ast, places[1])
  /\ occ' = 1
  /\ UNCHANGED iterCall

ApplyToNext ==
  /\ iterState = "iterating" /\ occ < Len(places) /\ Len(places) > 1
  /\ \E p \in find_mark(ast, occ + 1, places[occ + 1].kind) :
       /\ find_mark(ast, occ + 1, places[occ + 1].kind) = {p}
       /\ CallAt(trm_remove_mark_at_path(ast, occ + 1, p), p)
  /\ occ' = occ + 1
  /\ UNCHANGED iterCall

\* "a mark was duplicated", or "mark disappeared".
LoseMark ==
  /\ iterState = "iterating" /\ occ < Len(places) /\ Len(places) > 1
  /\ \A p \in find_mark(ast, occ + 1, places[occ + 1].kind) : find_mark(ast, occ + 1, places[occ + 1].kind) # {p}
  /\ iterState' = "lost"
  /\ UNCHANGED <<iterCall, ast, occ, reached>>

IterationEnds ==
  /\ iterState = "iterating" /\ occ = Len(places)
  /\ ast' = Finished(ast)
  /\ iterState' = "returned"
  /\ UNCHANGED <<iterCall, occ, reached>>

TargetNext == ApplyToOnly \/ ApplyToNext \/ LoseMark \/ IterationEnds
TargetSpec == TargetInit /\ [][TargetNext]_iterVars

-----------------------------------------------------------------------------
Wanted == [k \in DOMAIN places |-> Given(iterCall.program, places[k])]
Disjoint == \A j, k \in DOMAIN Wanted : j # k => Wanted[j] \cap Wanted[k] = {}

\* Target.iteri applies the transformation to each of the instructions or points
\* that the target has matched: those at the k-th application are those of the
\* k-th match that are still there, and the iteration only gives up when matches
\* were inside of one another.
EachTargetOnce ==
  /\ \A k \in DOMAIN reached : reached[k].given = Wanted[k] \cap reached[k].present
  /\ iterState = "returned" => Len(reached) = Len(Wanted)
  /\ iterState = "lost" => ~Disjoint

\* The instructions and the marks between them, in the order of the text.
RECURSIVE TextOf(_)
Event(kind, what) == [kind |-> kind, what |-> what]
MarkEvents(ms) == {Event("mark", m) : m \in {mark \in ms : mark.of = "user"}}
TextOf(t) ==
  IF IsNew(t) THEN <<>>
  ELSE IF ~t.is_seq THEN <<{Event("leaf", t.name)}>>
  ELSE <<MarkEvents(t.body.marks[1])>>
       \o FlattenSeq([i \in DOMAIN t.body.items |-> Append(TextOf(t.body.items[i]), MarkEvents(t.body.marks[i + 1]))])
EventsOf(t) == UNION ToSet(TextOf(t))
InOrder(t) ==
  LET f == TextOf(t) IN UNION {{<<x, y>> : x \in f[i], y \in f[j]} : <<i, j>> \in {<<i, j>> \in (DOMAIN f) \X (DOMAIN f) : i < j}}

\* The marks that a transformation may drop: those inside of what it deletes, and
\* those at the point where it splits.
MarksInside(p) ==
  LET s == SeqAt(iterCall.program, p)
  IN  UNION ({s.body.marks[i + 1] : i \in p.start + 1 .. p.stop - 1}
             \cup {{e.what : e \in {event \in EventsOf(s.body.items[i + 1]) : event.kind = "mark"}} : i \in p.start .. p.stop - 1})
MarksDropped(p) ==
  CASE iterCall.op = "delete" -> MarksInside(p)
    [] iterCall.op = "split" -> SeqAt(iterCall.program, p).body.marks[p.start + 1]
    [] OTHER -> {}

\* What is left of the program, instructions and the marks between them, is in the
\* order of the program before, and no mark is lost but those inside of what has
\* been removed; the marks of the iteration and the hidden sequences are gone.
\* Moving and regrouping instructions do change this order.
MarksKeepPlace ==
  iterState = "returned" /\ iterCall.op \notin {"move", "intro"} =>
    LET first == EventsOf(iterCall.program)
    IN  /\ InOrder(ast) \cap (first \X first) \subseteq InOrder(iterCall.program)
        /\ \A e \in first \ EventsOf(ast) :
             e.kind = "mark" => \E k \in DOMAIN places : e.what \in MarksDropped(places[k])
        /\ \A dirs \in ToSet(Ast!nodes(ast)) :
             LET t == Ast!resolve_path(dirs, ast) IN
             ~t.hidden /\ \A m \in t.marks \cup UNION ToSet(t.body.marks) : m.of # "iter"

=============================================================================
