----------------------------- MODULE InstrMoves -----------------------------
(***************************************************************************)
(* The transformations Instr.move and Instr.delete on a sequence of calls, *)
(* justified by the resources that typing has computed                     *)
(* (lib/transfo/instr_basic.ml, sequence_basic.ml, and the part of         *)
(* lib/framework/resources/resource_computation.ml on linear resources).   *)
(*                                                                         *)
(* A resource is the ownership of a cell, full or read-only, or a wand     *)
(* that gives back a read-only cell for a view of it.  A read-only         *)
(* resource has a fraction g - h1 - ... - hn: its base g, where Whole is   *)
(* the fraction 1, and the list of what is carved out.  Formulas are       *)
(* reduced to the name of the cell, so that unification is equality.       *)
(***************************************************************************)
EXTENDS ResourceUsages, Integers, Sequences, SequencesExt, FiniteSets

CONSTANTS
  Contracts,   \* of the functions called, by name: pre, post, ghost
  ForgetInit,  \* names of the ghosts that forget the content of a cell, by cell
  Views,       \* the cells that are views, each with the cell that it shows
  Owned,       \* the cells that the sequence owns before and after: all full
  Programs,    \* sequences of names
  MaxSteps     \* bound of the model on the number of transformations

VARIABLES
  original,    \* the sequence at the beginning: calls with an identifier
  instrs,      \* the current sequence
  steps        \* number of transformations so far

instrVars == <<original, instrs, steps>>

Whole == 0

-----------------------------------------------------------------------------
\* subtract_linear_resource_item: the first resource from which an item of a
\* precondition can be taken.  The fraction of an item is the name of a variable
\* of the contract, which is to be instantiated, or is known already.
Matches(r, item, fracs) ==
  /\ r.cell = item.cell
  /\ CASE item.kind = "Cell" -> r.kind = "Cell"
       [] item.kind = "Uninit" -> r.kind \in {"Cell", "Uninit"}
       [] item.kind = "Wand" -> r.kind = "Wand"
       [] item.kind = "RO" /\ item.frac \notin DOMAIN fracs -> r.kind \in {"Cell", "RO"}
       [] item.kind = "RO" /\ item.frac \in DOMAIN fracs ->
            r.kind = "RO" /\ r.base = fracs[item.frac] /\ r.carved = <<>>

\* A typing in progress: resources, fractions of the contract, usage, and the
\* next name for a resource or a fraction.
Typing(ctx, next) == [ok |-> TRUE, ctx |-> ctx, next |-> next, fracs |-> <<>>, usage |-> <<>>]
Set(map, key, value) == [x \in DOMAIN map \cup {key} |-> IF x = key THEN value ELSE map[x]]

TakeFrom(typing, item, i) ==
  LET r == typing.ctx[i]
  IN  IF item.kind = "RO" /\ item.frac \notin DOMAIN typing.fracs
      THEN [typing EXCEPT !.ctx[i].kind = "RO", !.ctx[i].carved = <<typing.next>> \o @,
              !.fracs = Set(@, item.frac, typing.next), !.next = @ + 1,
              !.usage = Set(@, r.hyp, "SplittedFrac")]
      ELSE [typing EXCEPT !.ctx = RemoveAt(@, i),
              !.fracs = IF item.kind = "Wand" THEN Set(@, item.frac, r.base) ELSE @,
              !.usage = Set(@, r.hyp, IF item.kind = "Uninit" THEN "ConsumedUninit" ELSE "ConsumedFull")]

Subtract(typing, item) ==
  LET places == {i \in DOMAIN typing.ctx : Matches(typing.ctx[i], item, typing.fracs)}
  IN  IF ~typing.ok \/ places = {} THEN [typing EXCEPT !.ok = FALSE] ELSE TakeFrom(typing, item, Min(places))

-----------------------------------------------------------------------------
\* simplify_frac_wands, on the read-only resources of one cell: each carved
\* fraction is filled by a resource that has it as base, then what is left is
\* pushed into a resource in which the base is carved.
FirstWhere(list, P(_)) == LET found == {i \in DOMAIN list : P(list[i])}
                          IN  IF found = {} THEN 0 ELSE CHOOSE i \in found : \A m \in found : i <= m

RECURSIVE try_simplify_carved_fracs(_, _)
try_simplify_carved_fracs(carved, wands) ==
  IF carved = <<>> THEN [carved |-> <<>>, wands |-> wands, hyps |-> <<>>]
  ELSE LET i == FirstWhere(wands, LAMBDA r : r.base = Head(carved))
           rest == IF i = 0 THEN try_simplify_carved_fracs(Tail(carved), wands)
                   ELSE try_simplify_carved_fracs(wands[i].carved \o Tail(carved), RemoveAt(wands, i))
       IN  IF i = 0 THEN [rest EXCEPT !.carved = <<Head(carved)>> \o @]
           ELSE [rest EXCEPT !.hyps = <<wands[i].hyp>> \o @]

RECURSIVE simplify_frac_wands(_)
Before(wands, joins, next) == [wands |-> wands \o next.wands, joins |-> joins \o next.joins]
FillAt(carved, base, fracs) ==
  LET place == FirstWhere(carved, LAMBDA f : f = base)
  IN  SubSeq(carved, 1, place - 1) \o fracs \o SubSeq(carved, place + 1, Len(carved))

\* What is left of r goes into the resource i, if there is one; the fractions
\* that have filled r are joined with it.
PushInto(r, filled, joins, i) ==
  IF i = 0
  THEN Before(<<[r EXCEPT !.carved = filled.carved]>>, joins, simplify_frac_wands(filled.wands))
  ELSE Before(<<>>, joins \o <<<<filled.wands[i].hyp, r.hyp>>>>,
              simplify_frac_wands([filled.wands EXCEPT ![i].carved = FillAt(@, r.base, filled.carved)]))
Absorb(r, filled) ==
  PushInto(r, filled, [m \in DOMAIN filled.hyps |-> <<r.hyp, filled.hyps[m]>>],
           FirstWhere(filled.wands, LAMBDA o : \E m \in DOMAIN o.carved : o.carved[m] = r.base))
simplify_frac_wands(wands) ==
  IF wands = <<>> THEN [wands |-> <<>>, joins |-> <<>>]
  ELSE Absorb(Head(wands), try_simplify_carved_fracs(Head(wands).carved, Tail(wands)))

\* simplify_read_only_resources: cell by cell, in the order of the resources.
IsReadOnly(r) == r.kind = "RO"
CellsInOrder(list) ==
  FoldLeft(LAMBDA seen, r : IF \E i \in DOMAIN seen : seen[i] = r.cell THEN seen ELSE Append(seen, r.cell), <<>>, list)
AsResource(r) == IF r.base = Whole /\ r.carved = <<>> THEN [r EXCEPT !.kind = "Cell"] ELSE r
AddBucket(acc, bucket) ==
  [ctx |-> Reverse([i \in DOMAIN bucket.wands |-> AsResource(bucket.wands[i])]) \o acc.ctx,
   joins |-> bucket.joins \o acc.joins]
simplify_read_only_resources(list) ==
  LET readOnly == SelectSeq(list, IsReadOnly)
  IN  FoldLeft(LAMBDA acc, cell :
                 AddBucket(acc, simplify_frac_wands(Reverse(SelectSeq(readOnly, LAMBDA r : r.cell = cell)))),
               [ctx |-> SelectSeq(list, LAMBDA r : ~IsReadOnly(r)), joins |-> <<>>],
               Reverse(CellsInOrder(readOnly)))

\* compute_contract_invoc: what is left of the resources after the call, and
\* the usage of each.
add_usage(map, hyp, usage) == update_usage_map(map, [x \in {hyp} |-> usage])
ProducedBy(contract, taken) ==
  [i \in DOMAIN contract.post |->
     LET item == contract.post[i] IN
     [hyp |-> taken.next + i, cell |-> item.cell, kind |-> item.kind, carved |-> <<>>,
      base |-> IF item.frac \in DOMAIN taken.fracs THEN taken.fracs[item.frac] ELSE Whole]]
UsageAfter(contract, taken, joins) ==
  FoldLeft(LAMBDA map, join : add_usage(add_usage(map, join[1], "JoinedFrac"), join[2], "ConsumedFull"),
           [hyp \in {taken.next + i : i \in DOMAIN contract.post} |-> "Produced"], joins)
Invoked(contract, taken, merged, total) ==
  [ok |-> taken.ok /\ ~Fails(total), ctx |-> merged.ctx, usage |-> total,
   next |-> taken.next + Len(contract.post) + 1]
Produce(contract, taken, merged) ==
  Invoked(contract, taken, merged,
          update_usage_map(taken.usage, UsageAfter(contract, taken, merged.joins)))
Consumed(contract, taken) ==
  Produce(contract, taken, simplify_read_only_resources(ProducedBy(contract, taken) \o taken.ctx))
Invoke(contract, ctx, next) == Consumed(contract, FoldLeft(Subtract, Typing(ctx, next), contract.pre))

\* The typing of a sequence: the resources before each call, and its usage.
OwnedItem(cell) == [kind |-> "Cell", cell |-> cell, frac |-> ""]
InitialResources ==
  LET cells == SetToSeq(Owned)
  IN  [i \in DOMAIN cells |-> [hyp |-> -i, cell |-> cells[i], kind |-> "Cell", base |-> Whole, carved |-> <<>>]]

AddCall(acc, result) ==
  [ok |-> result.ok, ctx |-> result.ctx, next |-> result.next,
   before |-> Append(acc.before, acc.ctx), usages |-> Append(acc.usages, result.usage)]
GivesBack(left) == left.ok /\ left.ctx = <<>>
GiveBack(calls) ==
  [calls EXCEPT !.ok = @ /\ GivesBack(FoldLeft(Subtract, Typing(calls.ctx, calls.next),
                                               SetToSeq({OwnedItem(cell) : cell \in Owned})))]
Typed(list) ==
  GiveBack(FoldLeft(
    LAMBDA acc, call : IF ~acc.ok THEN acc ELSE AddCall(acc, Invoke(Contracts[call.fn], acc.ctx, acc.next)),
    [ok |-> TRUE, ctx |-> InitialResources, next |-> 1, before |-> <<>>, usages |-> <<>>], list))

compute_usage_of_instrs(usages, from, to) ==
  FoldLeft(update_usage_map, <<>>, SubSeq(usages, from, to))

-----------------------------------------------------------------------------
Sequence(program) == [i \in DOMAIN program |-> [id |-> i, fn |-> program[i]]]

InstrInit ==
  /\ \E program \in Programs : original = Sequence(program) /\ Typed(original).ok
  /\ instrs = original
  /\ steps = 0

\* Instr.move: the calls from first to middle - 1 and those from middle to last
\* change places, when their usages commute.
Commute(before, after) ==
  ~Fails(before) /\ ~Fails(after) /\ collect_interferences(before, after) = {}
PartsCommute(usages, first, middle, last) ==
  Commute(compute_usage_of_instrs(usages, first, middle - 1), compute_usage_of_instrs(usages, middle, last))
move(first, middle, last) ==
  /\ steps < MaxSteps
  /\ PartsCommute(Typed(instrs).usages, first, middle, last)
  /\ instrs' = SubSeq(instrs, 1, first - 1) \o SubSeq(instrs, middle, last)
               \o SubSeq(instrs, first, middle - 1) \o SubSeq(instrs, last + 1, Len(instrs))
  /\ steps' = steps + 1
  /\ UNCHANGED original

\* assert_instr_effects_shadowed: the sequence where the call is replaced by
\* ghosts that forget what it writes.
Written(resources, usage) ==
  SelectSeq(resources, LAMBDA r : UsageOf(usage, r.hyp) \in {"ConsumedFull", "ConsumedUninit"} /\ r.kind # "Uninit")
WithGhosts(list, i, written) ==
  SubSeq(list, 1, i - 1) \o [m \in DOMAIN written |-> [id |-> 0, fn |-> ForgetInit[written[m].cell]]]
  \o SubSeq(list, i + 1, Len(list))
ForgottenIn(list, i, typing) == WithGhosts(list, i, Written(typing.before[i], typing.usages[i]))
Forgotten(list, i) == ForgottenIn(list, i, Typed(list))

delete(i) ==
  /\ steps < MaxSteps
  /\ Typed(Forgotten(instrs, i)).ok
  /\ instrs' = RemoveAt(instrs, i)
  /\ steps' = steps + 1
  /\ UNCHANGED original

InstrNext ==
  \/ \E first, last \in DOMAIN instrs : \E middle \in first + 1 .. last : move(first, middle, last)
  \/ \E i \in DOMAIN instrs : delete(i)

InstrSpec == InstrInit /\ [][InstrNext]_instrVars

-----------------------------------------------------------------------------
\* What calls do, as far as their contracts say: a value is named by the call
\* that has written it and the values that this call has read.
Location(cell) == IF cell \in DOMAIN Views THEN Views[cell] ELSE cell
CellsOf(items, kinds) == [i \in DOMAIN SelectSeq(items, LAMBDA t : t.kind \in kinds) |->
                            SelectSeq(items, LAMBDA t : t.kind \in kinds)[i].cell]
Run(list) ==
  FoldLeft(LAMBDA state, call :
             LET contract == Contracts[call.fn]
                 readCells == CellsOf(contract.pre, {"RO", "Cell"})
                 writtenCells == ToSet(CellsOf(contract.post, {"Cell", "Uninit"}))
                 value == [by |-> call.id, read |-> [i \in DOMAIN readCells |-> state.memory[Location(readCells[i])]]]
             IN  IF contract.ghost THEN state
                 ELSE [memory |-> [cell \in DOMAIN state.memory |->
                                     IF cell \in writtenCells THEN value ELSE state.memory[cell]],
                       values |-> Set(state.values, call.id, value)],
           [memory |-> [cell \in Owned |-> [by |-> 0, read |-> <<>>]], values |-> <<>>], list)

\* A sequence that could be typed still can after transformations whose checks
\* have passed.
TypingKept == Typed(instrs).ok

\* Every call that is left reads what it has read in the original sequence, and
\* the memory at the end is the same.
ResultsKept ==
  LET first == Run(original)
      now == Run(instrs)
  IN  /\ now.memory = first.memory
      /\ \A id \in DOMAIN now.values : now.values[id] = first.values[id]

=============================================================================
