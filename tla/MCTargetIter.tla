---------------------------- MODULE MCTargetIter ----------------------------
(***************************************************************************)
(* Calls of Target.iteri that TLC evaluates.                               *)
(***************************************************************************)
EXTENDS TargetIter

LOCAL Ast == INSTANCE MarkedSequences

\* Sequences with a mark at each point between their items.
Block(name, n, items) ==
  [Ast!trm_seq([items |-> items, marks |-> <<{UserMark(10 * n)}>> \o [i \in DOMAIN items |-> {UserMark(10 * n + i)}]]) EXCEPT !.name = name]
FlatProgram == Block("main", 0, <<Block("body", 1, <<Ast!Instr("a"), Ast!Instr("b"), Ast!Instr("c"), Ast!Instr("d")>>)>>)
NestedProgram ==
  Block("main", 1, <<Ast!Instr("a0"),
                   Block("block1", 2, <<Ast!Instr("b"), Block("block2", 3, <<Ast!Instr("c")>>), Ast!Instr("d")>>),
                   Block("block3", 4, <<>>)>>)
FlatNames == {"a", "b", "c", "d"}
NestedNames == {"a0", "block1", "b", "block2", "c", "d", "block3"}
OuterNames == {"block1", "block3", "a0"}

Target(rel, names, stops) == [rel |-> rel, names |-> names, stops |-> stops]
IterCallOf(t, op, nb, dest, tg, rev) ==
  [program |-> t, op |-> op, nb |-> nb, dest |-> dest, tg |-> tg, rev |-> rev]
TargetsAt(rels, names) == {Target(rel, s, {}) : rel \in rels, s \in {s \in SUBSET names : Cardinality(s) <= 3}}

\* Spans from an instruction to another one, in one sequence: all those that do not
\* overlap.
SpanTargets == {Target("span", first, last) : first \in SUBSET FlatNames \ {{}}, last \in SUBSET FlatNames}

\* Only copy and move can go backwards.
CallsOn(t, names) ==
  {IterCallOf(t, "insert", 0, "first", tg, FALSE) : tg \in TargetsAt({"before", "after"}, names)}
  \cup {IterCallOf(t, "split", 0, "first", tg, FALSE) : tg \in TargetsAt({"before", "after"}, names \ OuterNames)}
  \cup {IterCallOf(t, op, 0, "first", tg, FALSE) : op \in {"delete", "wrap", "elim"}, tg \in TargetsAt({"at"}, names)}
  \cup {IterCallOf(t, "intro", nb, "first", tg, FALSE) : nb \in {-2, 1, 2}, tg \in TargetsAt({"at"}, names)}
  \cup {IterCallOf(t, "copy", 0, "first", tg, rev) : tg \in TargetsAt({"at"}, names), rev \in BOOLEAN}
  \cup {IterCallOf(t, "move", 0, dest, tg, rev) : dest \in {"first", "last", "b"}, tg \in TargetsAt({"at"}, names), rev \in BOOLEAN}

MCMoveCalls == {IterCallOf(FlatProgram, "move", 0, dest, tg, FALSE) : dest \in {"first", "last"}, tg \in SpanTargets}
MCIterCalls ==
  CallsOn(FlatProgram, FlatNames) \cup CallsOn(NestedProgram, NestedNames)
  \cup {IterCallOf(FlatProgram, "delete", 0, "first", tg, FALSE) : tg \in SpanTargets}
=============================================================================
