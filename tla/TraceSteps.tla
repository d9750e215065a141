----------------------------- MODULE TraceSteps -----------------------------
(***************************************************************************)
(* The step tree of lib/framework/runtime/trace.ml: how a step is opened,   *)
(* finalised, and folded into its parent, as operators on the record        *)
(* the_trace.  Module Trace builds the transformation script on top.        *)
(*                                                                         *)
(* An open step keeps its substeps in execution order (the code keeps them  *)
(* reversed until the step is closed).  A closed step is kept as the        *)
(* summary that its parent and the outputs read of it: the ASTs at both     *)
(* ends, the range of ids of its subtree, and its validity.                 *)
(***************************************************************************)
EXTENDS SequencesExt

CONSTANTS
  Codes,          \* the programs a script can reach, up to decorations
  Typable,        \* those on which the resource typechecker succeeds
  SaveSteps,      \* the -save-steps option, "default" when not given
  ExecutionMode,  \* the -mode option
  WithModels      \* Flags.use_resources_with_models

ASSUME CodesAssumption == Typable \subseteq Codes
ASSUME OptionsAssumption ==
  /\ SaveSteps \in {"default", "none", "script", "important", "effectful", "all"}
  /\ ExecutionMode \in {"exec", "full_trace", "step_trace", "step_diff"}
  /\ WithModels \in BOOLEAN

Kinds == {"root", "big", "small", "transfo", "target_resolve", "mark_manip", "io",
          "group", "backtrack", "show", "typing", "trustme", "error"}

(***************************************************************************)
(* ver is the physical address of an AST: == of OCaml is equality here.     *)
(* ann describes the resource annotations it carries: none, computed for an *)
(* earlier version, computed for this one, or left by a failed typing.      *)
(***************************************************************************)
Asts == [ver : Nat, code : Codes, ann : {"none", "stale", "typed", "error"}]

\* granted: the validity was given, by ~valid:true, by justif, or by typing with models.
OpenSteps(Closed) ==
  [id : Nat, kind : Kinds, before : Asts, sub : Seq(Closed), valid : BOOLEAN,
   granted : BOOLEAN, check_validity : BOOLEAN, show : BOOLEAN]

\* extractable: extract_show_step finds a Step_show in it.
\* grounded: its change of the program is granted, or composed of grounded substeps.
ClosedSteps ==
  [id : Nat, last : Nat, kind : Kinds, before : Asts, after : Asts, valid : BOOLEAN,
   granted : BOOLEAN, show : BOOLEAN, extractable : BOOLEAN, grounded : BOOLEAN]

Traces ==
  [next_step_id : Nat, next_ver : Nat, cur_ast : Asts, cur_ast_typed : BOOLEAN,
   step_stack : Seq(OpenSteps(ClosedSteps)), exn : {"none", "error", "resource", "trace"}]

FlagValues == [check_validity : BOOLEAN, recompute : BOOLEAN, only_big_steps : BOOLEAN]

-----------------------------------------------------------------------------
RequestTrace == ExecutionMode \in {"full_trace", "step_trace"}
Targetting == ExecutionMode \in {"step_trace", "step_diff"}

get_save_steps ==
  IF SaveSteps # "default" THEN SaveSteps
  ELSE IF RequestTrace \/ Targetting THEN "all" ELSE "none"

SelectedKinds ==
  [none |-> {},
   script |-> {"root", "big", "small", "error"},
   important |-> {"root", "big", "small", "transfo", "trustme", "error", "show"},
   effectful |-> Kinds \ {"typing", "io", "target_resolve", "mark_manip", "backtrack"},
   all |-> Kinds]

step_should_be_kept_in_trace(kind) == kind \in SelectedKinds[get_save_steps]

is_kind_preserving_code(kind) ==
  kind \in {"typing", "io", "target_resolve", "mark_manip", "error", "show"}

-----------------------------------------------------------------------------
Top(t) == Last(t.step_stack)
WithTop(t, step) == [t EXCEPT !.step_stack = Append(Front(@), step)]
AddSub(step, closed) == [step EXCEPT !.sub = Append(@, closed)]

\* An assignment to cur_ast of a newly built AST.
PutNew(t, code, ann, typed) ==
  [t EXCEPT !.cur_ast = [ver |-> t.next_ver, code |-> code, ann |-> ann],
            !.cur_ast_typed = typed,
            !.next_ver = @ + 1]

PutBack(t, ast, typed) == [t EXCEPT !.cur_ast = ast, !.cur_ast_typed = typed]

\* A sequence of two calls, the second not run when the first raised.
Then(t, Op(_)) == IF t.exn = "none" THEN Op(t) ELSE t

open_step(t, f, kind, valid, show) ==
  [t EXCEPT
    !.next_step_id = @ + 1,
    !.step_stack = Append(@,
      [id |-> t.next_step_id, kind |-> kind, before |-> t.cur_ast, sub |-> <<>>,
       valid |-> valid, granted |-> valid, check_validity |-> f.check_validity,
       show |-> show])]

justif(t) == WithTop(t, [Top(t) EXCEPT !.valid = TRUE, !.granted = TRUE])

\* A step of a kind that preserves the code, opened and closed around a body that opens none.
LeafStep(t, kind, before, after, valid) ==
  IF ~step_should_be_kept_in_trace(kind) THEN t
  ELSE [WithTop(t, AddSub(Top(t),
          [id |-> t.next_step_id, last |-> t.next_step_id, kind |-> kind,
           before |-> before, after |-> after, valid |-> valid, granted |-> valid,
           show |-> FALSE, extractable |-> kind = "show", grounded |-> TRUE]))
        EXCEPT !.next_step_id = @ + 1]

\* parsing_step (reparse_ast): the program printed and parsed again.
reparse(t) ==
  LET u == PutNew(t, t.cur_ast.code, "none", FALSE)
  IN PutBack(LeafStep(u, "io", t.cur_ast, u.cur_ast, TRUE), u.cur_ast, FALSE)

\* A failing typing leaves its step open and the annotated error as current AST.
recompute_resources(t, f) ==
  IF t.cur_ast_typed THEN t
  ELSE IF t.cur_ast.code \in Typable
  THEN LET u == PutNew(t, t.cur_ast.code, "typed", TRUE)
       IN LeafStep(u, "typing", t.cur_ast, u.cur_ast, TRUE)
  ELSE [PutNew(open_step(t, f, "typing", TRUE, FALSE), t.cur_ast.code, "error", FALSE)
        EXCEPT !.exn = "resource"]

-----------------------------------------------------------------------------
(***************************************************************************)
(* make_substeps_chained: a Step_change fills every gap between the AST a   *)
(* substep starts from and the AST reached so far.  The "ast_after" of a    *)
(* target_resolve step is for display only and does not count as reached.   *)
(***************************************************************************)
Reaching(step, n) == {j \in 1..n : step.sub[j].kind # "target_resolve"}
Reached(step, n) ==
  IF Reaching(step, n) = {} THEN step.before ELSE step.sub[Max(Reaching(step, n))].after

SubGaps(step) == {i \in DOMAIN step.sub : Reached(step, i - 1) # step.sub[i].before}

\* Without substeps, a change of the AST is not recorded as a Step_change.
LastGap(step, after) ==
  IF step.sub # <<>> /\ Reached(step, Len(step.sub)) # after THEN {Len(step.sub) + 1} ELSE {}

make_substeps_chained(step, after) ==
  IF is_kind_preserving_code(step.kind) THEN {} ELSE SubGaps(step) \cup LastGap(step, after)

AllSubs(step, P(_)) == \A i \in DOMAIN step.sub : P(step.sub[i])
OnlySub(step, gaps, P(_)) == Len(step.sub) = 1 /\ gaps = {} /\ P(step.sub[1])

ComposedValid(step, gaps) ==
  LET IsValid(s) == s.valid IN gaps = {} /\ AllSubs(step, IsValid)

\* Faulty: Step_change steps are forgotten when validity is composed.
FinalValidityUnchained(step, after, gaps, f) ==
  LET IsValid(s) == s.valid
  IN IF ~f.check_validity THEN step.valid
     ELSE step.kind # "trustme" /\ (step.valid \/ step.before = after \/ AllSubs(step, IsValid))

\* finalize_step: the validity of a step that is being closed.
FinalValidity(step, after, gaps, f) ==
  IF ~f.check_validity THEN step.valid
  ELSE /\ step.kind # "trustme"
       /\ step.valid \/ step.before = after \/ ComposedValid(step, gaps)

\* What justifies that the program changed between both ends (a notion of the model).
Grounded(step, after) ==
  LET IsGrounded(s) == s.grounded
      n == Len(step.sub)
      SameCode(i) == Reached(step, i - 1).code = step.sub[i].before.code
  IN \/ step.before.code = after.code
     \/ step.granted
     \/ /\ n > 0 /\ AllSubs(step, IsGrounded)
        /\ \A i \in 1..n : SameCode(i)
        /\ Reached(step, n).code = after.code

\* The summary of a step, its change steps numbered from next_step_id.
ClosedStep(t, f) ==
  LET step == Top(t)
      gaps == make_substeps_chained(step, t.cur_ast)
      IsExtractable(s) == s.extractable
      HasShowTag(s) == s.show
  IN [id |-> step.id,
      last |-> t.next_step_id + Cardinality(gaps) - 1,
      kind |-> step.kind,
      before |-> step.before,
      after |-> t.cur_ast,
      valid |-> FinalValidity(step, t.cur_ast, gaps, f),
      granted |-> step.granted,
      show |-> step.show \/ (step.kind = "small" /\ OnlySub(step, gaps, HasShowTag)),
      extractable |-> step.kind = "show" \/ OnlySub(step, gaps, IsExtractable),
      grounded |-> Grounded(step, t.cur_ast)]

SameAstAsLastStep(step, ast) ==
  IF step.sub = <<>> THEN step.before = ast ELSE Last(step.sub).after = ast

\* finalize_step: the retyping that precedes the closing of a step.
FinalTyping(t, f) ==
  IF SameAstAsLastStep(Top(t), t.cur_ast) \/ is_kind_preserving_code(Top(t).kind)
     \/ ~f.recompute
  THEN t
  ELSE LET Grant(u) == IF WithModels THEN justif(u) ELSE u
       IN Then(recompute_resources(t, f), Grant)

\* finalize_step: check_validity must be what it was when the step was opened.
FinalCheck(t, f, on_error) ==
  IF ~on_error /\ f.check_validity # Top(t).check_validity
  THEN [t EXCEPT !.exn = "trace"] ELSE t

finalize_step(t, f, on_error) ==
  LET Check(u) == FinalCheck(u, f, on_error) IN Then(FinalTyping(t, f), Check)

PopStep(t) == [t EXCEPT !.step_stack = Front(@)]

\* Faulty: the ids of the steps that are not kept are lost.
DropStepLosingIds(t) == PopStep(t)

\* The id of a step that is not kept is used again.
DropStep(t) == [PopStep(t) EXCEPT !.next_step_id = Top(t).id]

KeepStep(t, f) ==
  LET closed == ClosedStep(t, f)
  IN [WithTop(PopStep(t), AddSub(Top(PopStep(t)), closed))
      EXCEPT !.next_step_id = closed.last + 1]

close_step(t, f, discard, on_error) ==
  LET Fold(u) == IF step_should_be_kept_in_trace(Top(u).kind) \/ on_error
                 THEN KeepStep(u, f) ELSE DropStep(u)
  IN IF discard THEN DropStep(t) ELSE Then(finalize_step(t, f, on_error), Fold)

\* close_step ~check: the step being closed must be the one opened at this depth.
CloseChecked(t, f, depth, discard) ==
  IF Len(t.step_stack) # depth THEN [t EXCEPT !.exn = "trace"]
  ELSE close_step(t, f, discard, FALSE)

\* Faulty: small steps are not closed implicitly.
CloseOnlyBigSteps(t, f, kind) ==
  IF Top(t).kind = kind /\ kind = "big" THEN close_step(t, f, FALSE, FALSE) ELSE t

close_step_kind_if_needed(t, f, kind) ==
  IF Top(t).kind = kind THEN close_step(t, f, FALSE, FALSE) ELSE t

close_bigstep_if_needed(t, f) ==
  LET CloseBig(u) == close_step_kind_if_needed(u, f, "big")
  IN Then(close_step_kind_if_needed(t, f, "small"), CloseBig)

\* A step of a kind that may change the code, whose body is one assignment to cur_ast.
DirectStep(t, f, kind, Body(_)) ==
  close_step(Body(open_step(t, f, kind, FALSE, FALSE)), f, FALSE, FALSE)
=============================================================================
