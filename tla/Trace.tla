-------------------------------- MODULE Trace --------------------------------
(***************************************************************************)
(* A transformation script running on the global record the_trace of        *)
(* lib/framework/runtime/trace.ml.  The script is an arbitrary nesting of   *)
(* the combinators of that module, each call of which may end by an         *)
(* exception; Run.script (runtime/run.ml) starts it and ends it.            *)
(*                                                                         *)
(* frames is the part of OCaml's control stack that matters: one frame per  *)
(* combinator whose body is running, with what its closure captured.        *)
(***************************************************************************)
EXTENDS TraceSteps

CONSTANTS
  Original,       \* the program parsed by Trace.init
  CheckValidity,  \* Flags.check_validity when the script starts
  Recompute,      \* Flags.recompute_resources_between_steps when the script starts
  OnlyBigSteps,   \* the values of Flags.only_big_steps to consider
  Features,       \* the combinators the script uses
  MaxDepth,       \* bound on the steps a script opens inside one another
  MaxFrames,      \* bound on the combinators running inside one another
  MaxId,          \* a script opens no step from this id on
  MaxVer          \* a script builds no AST from this number on, but by typing

ASSUME OriginalAssumption == Original \in Codes
ASSUME FlagsAssumption ==
  {CheckValidity, Recompute} \subseteq BOOLEAN /\ OnlyBigSteps \subseteq BOOLEAN
ASSUME BoundsAssumption == {MaxDepth, MaxFrames, MaxId, MaxVer} \subseteq Nat

VARIABLES
  the_trace,  \* the current AST and the stack of open steps, innermost last
  flags,      \* the flags that with_flag saves and restores
  frames,     \* the combinators that are running, innermost last
  mode,       \* what the script is doing
  saved,      \* ast_just_before_first_call_to_restore_original, as an option
  report      \* the closed root step, as an option

vars == <<the_trace, flags, frames, mode, saved, report>>

FrameKinds == {"step", "trustme", "unchecked", "notyping", "preserve",
               "backtrack", "expected", "onfailure"}

Frames == [kind : FrameKinds, depth : Nat \ {0}, ast : Asts, typed : BOOLEAN,
           flags : FlagValues, discard : BOOLEAN]

Modes == {"start", "run", "raise", "closing", "closing_all",
          "done", "exited", "crashed", "failed"}

Depth == Len(the_trace.step_stack)
Frame == Last(frames)
Running == mode = "run"
AtTop == Running /\ frames = <<>>
InFrame(kind) == frames # <<>> /\ Frame.kind = kind
FramesOf(kinds) == {i \in DOMAIN frames : frames[i].kind \in kinds}
InPreserve == FramesOf({"preserve"}) # {}

-----------------------------------------------------------------------------
\* Trace.init: the parsed program, and the root step open on it.
EmptyTrace ==
  [next_step_id |-> 0, next_ver |-> 1, cur_ast_typed |-> FALSE, step_stack |-> <<>>,
   cur_ast |-> [ver |-> 0, code |-> Original, ann |-> "none"], exn |-> "none"]

InitialFlags ==
  [check_validity : {CheckValidity}, recompute : {Recompute}, only_big_steps : OnlyBigSteps]

Init ==
  /\ flags \in InitialFlags
  /\ the_trace = open_step(EmptyTrace, flags, "root", FALSE, FALSE)
  /\ frames = <<>>
  /\ mode = "start"
  /\ saved = <<>>
  /\ report = <<>>

(***************************************************************************)
(* Where control goes after a call that ends in state t: on, to the nearest *)
(* handler, or, for a TraceFailure, to the end: the step that could not be  *)
(* closed stays open, and the handlers that try again fail in the same way. *)
(* What finalize_on_error then saves of such a trace is not modelled.       *)
(***************************************************************************)
Outcome(t) ==
  CASE t.exn = "none" -> "run" [] t.exn = "trace" -> "failed" [] OTHER -> "raise"

Continue(t) ==
  /\ the_trace' = [t EXCEPT !.exn = "none"]
  /\ mode' = Outcome(t)

Push(t, kind, discard) ==
  Append(frames, [kind |-> kind, depth |-> Len(t.step_stack), ast |-> the_trace.cur_ast,
                  typed |-> the_trace.cur_ast_typed, flags |-> flags, discard |-> discard])

CanOpen(feature) ==
  /\ Running /\ feature \in Features
  /\ Depth < MaxDepth /\ Len(frames) < MaxFrames /\ the_trace.next_step_id < MaxId
CanBuildAst == Running /\ the_trace.next_ver < MaxVer

\* Entering a combinator that opens a step of this kind around its body.
EnterStep(frame, kind, show, discard) ==
  LET t == open_step(the_trace, flags, kind, FALSE, show)
  IN /\ the_trace' = t
     /\ frames' = Push(t, frame, discard)
     /\ UNCHANGED <<flags, mode, saved, report>>

\* Entering a combinator that only changes a flag around its body.
EnterFlag(frame, newflags) ==
  /\ frames' = Push(the_trace, frame, FALSE)
  /\ flags' = newflags
  /\ UNCHANGED <<the_trace, mode, saved, report>>

-----------------------------------------------------------------------------
(* The script: Run.script, bigstep and !!.                                  *)

\* Run.script preprocesses the contracts in a small step of its own.
Start ==
  /\ mode = "start" /\ mode' = "run"
  /\ IF CheckValidity \/ Recompute
     THEN LET t == open_step(the_trace, flags, "small", FALSE, FALSE)
          IN the_trace' = t /\ frames' = Push(t, "step", FALSE)
     ELSE UNCHANGED <<the_trace, frames>>
  /\ UNCHANGED <<flags, saved, report>>

\* produce_output_and_exit finds the step whose diff or trace was asked for.
OutputFound(t) ==
  LET sub == Top(t).sub
      step == Last(sub)
  IN /\ sub # <<>>
     /\ flags.only_big_steps => step.kind = "big"
     /\ ExecutionMode = "step_diff" /\ step.before = step.after /\ step.show
          => step.extractable

produce_output_and_exit(t) ==
  /\ the_trace' = t
  /\ mode' = IF OutputFound(t) THEN "exited" ELSE "failed"
  /\ UNCHANGED <<flags, frames, saved, report>>

\* A call that ended in state t goes on with Rest, if it did not raise.
AndThen(t, Rest(_)) ==
  IF t.exn = "none" THEN Rest(t) ELSE Continue(t) /\ UNCHANGED <<flags, frames, saved, report>>

OpenScriptStep(t, kind, parse_again) ==
  /\ Continue(open_step(IF parse_again THEN reparse(t) ELSE t, flags, kind, FALSE, FALSE))
  /\ UNCHANGED <<flags, frames, saved, report>>

MayReparse(b) == b => "reparse" \in Features /\ the_trace.next_ver < MaxVer

\* Faulty: the exit line is checked before the previous step is closed.
ExitBeforeClosing(hit, parse_again) ==
  /\ AtTop /\ CanOpen("small") /\ (hit => Targetting) /\ MayReparse(parse_again)
  /\ LET Rest(t) == OpenScriptStep(t, "small", parse_again)
     IN IF hit /\ ~flags.only_big_steps THEN produce_output_and_exit(the_trace)
        ELSE AndThen(close_step_kind_if_needed(the_trace, flags, "small"), Rest)

\* check_exit stops here iff the targeted line lies above the line being run.
open_smallstep(hit, parse_again) ==
  /\ AtTop /\ CanOpen("small") /\ (hit => Targetting) /\ MayReparse(parse_again)
  /\ LET Rest(t) == IF hit /\ ~flags.only_big_steps
                    THEN produce_output_and_exit(t) ELSE OpenScriptStep(t, "small", parse_again)
     IN AndThen(close_step_kind_if_needed(the_trace, flags, "small"), Rest)

open_bigstep(hit, parse_again) ==
  /\ AtTop /\ CanOpen("big") /\ (hit => Targetting) /\ MayReparse(parse_again)
  /\ LET Open(t) == IF hit THEN produce_output_and_exit(t) ELSE OpenScriptStep(t, "big", parse_again)
         Rest(t) == IF hit /\ ~flags.only_big_steps THEN produce_output_and_exit(t)
                    ELSE AndThen(close_bigstep_if_needed(t, flags), Open)
     IN AndThen(close_step_kind_if_needed(the_trace, flags, "small"), Rest)

\* finalize: the AST set aside by restore_original comes back in a step of its own.
PutBackSaved(t) ==
  IF saved = <<>> THEN t
  ELSE LET Body(u) == PutBack(u, saved[1], u.cur_ast_typed)
       IN DirectStep(t, flags, "transfo", Body)

close_root_step(t, on_error) ==
  LET Root(u) == IF Len(u.step_stack) # 1 THEN [u EXCEPT !.exn = "trace"]
                 ELSE finalize_step(u, flags, on_error)
  IN Then(close_bigstep_if_needed(t, flags), Root)

finalize(t, on_error) ==
  LET Close(u) == close_root_step(u, on_error)
      v == Then(Then(t, PutBackSaved), Close)
      root == ClosedStep(v, flags)
  IN IF v.exn = "none"
     THEN /\ the_trace' = [v EXCEPT !.next_step_id = root.last + 1]
          /\ report' = <<root>>
          /\ mode' = "done"
     ELSE /\ the_trace' = [v EXCEPT !.exn = "none"]
          /\ mode' = IF v.exn = "trace" THEN "failed" ELSE "crashed"
          /\ UNCHANGED report

\* The end of the script, or Run.stop: an exception there is not handled any more.
EndScript ==
  /\ AtTop
  /\ UNCHANGED <<flags, frames, saved>>
  /\ IF Targetting
     THEN LET t == IF flags.only_big_steps THEN close_bigstep_if_needed(the_trace, flags)
                   ELSE close_step_kind_if_needed(the_trace, flags, "small")
          IN IF t.exn = "none" THEN produce_output_and_exit(t)
             ELSE /\ the_trace' = [t EXCEPT !.exn = "none"]
                  /\ mode' = "crashed"
                  /\ UNCHANGED report
     ELSE finalize(close_bigstep_if_needed(the_trace, flags), FALSE)

-----------------------------------------------------------------------------
(* What the body of a combinator may do.                                    *)

\* Trace.apply (or set_ast): the rest of the step works on a newly built AST.
apply(code) ==
  /\ CanBuildAst /\ ~InPreserve
  /\ LET ann == IF the_trace.cur_ast.ann = "none" THEN "none" ELSE "stale"
     IN the_trace' = PutNew(the_trace, code, ann, FALSE)
  /\ UNCHANGED <<flags, frames, mode, saved, report>>

\* Under preserves_resource_typing the program is the same: marks are added or removed.
apply_marks ==
  /\ CanBuildAst /\ InPreserve
  /\ the_trace' = PutNew(the_trace, the_trace.cur_ast.code, the_trace.cur_ast.ann, FALSE)
  /\ UNCHANGED <<flags, frames, mode, saved, report>>

\* A transformation states why it is correct, for the whole or for one of its targets.
Justify ==
  /\ Running /\ Top(the_trace).kind \in {"transfo", "group"} /\ ~Top(the_trace).granted
  /\ the_trace' = justif(the_trace)
  /\ UNCHANGED <<flags, frames, mode, saved, report>>

\* Target.iteri moves its marks in a step of its own (set_ast_for_target_iter).
set_ast_for_target_iter ==
  /\ CanBuildAst /\ CanOpen("iter")
  /\ LET old == the_trace.cur_ast
         u == PutNew(the_trace, old.code, old.ann, FALSE)
     IN the_trace' = LeafStep(u, "mark_manip", old, u.cur_ast, TRUE)
  /\ UNCHANGED <<flags, frames, mode, saved, report>>

\* The marked AST is only there to be displayed: it is dropped after the step.
target_resolve_step ==
  /\ CanBuildAst /\ CanOpen("resolve")
  /\ LET old == the_trace.cur_ast
         u == IF RequestTrace THEN PutNew(the_trace, old.code, old.ann, the_trace.cur_ast_typed)
              ELSE the_trace
     IN the_trace' = PutBack(LeafStep(u, "target_resolve", old, u.cur_ast, TRUE),
                             old, the_trace.cur_ast_typed)
  /\ UNCHANGED <<flags, frames, mode, saved, report>>

\* Resources.ensure_computed, called by a transformation that needs the resources.
ensure_computed ==
  /\ CanBuildAst /\ CanOpen("ensure") /\ ~the_trace.cur_ast_typed
  /\ Continue(recompute_resources(the_trace, flags))
  /\ UNCHANGED <<flags, frames, saved, report>>

\* Faulty: every call sets the current AST aside.
SetAsideEveryTime == Append(saved, the_trace.cur_ast)
SetAsideOnce == IF saved = <<>> THEN <<the_trace.cur_ast>> ELSE saved

restore_original ==
  /\ CanBuildAst /\ CanOpen("restore") /\ ~InPreserve
  /\ saved' = SetAsideOnce
  /\ LET Body(u) == PutBack(u, u.step_stack[1].before, FALSE)
     IN Continue(DirectStep(the_trace, flags, "transfo", Body))
  /\ UNCHANGED <<flags, frames, report>>

\* show_step, with the current AST on the left and the AST shown on the right.  The
\* restoration of step_backtrack has nothing to restore around a Step_show.
show_step(marked) ==
  /\ CanBuildAst /\ CanOpen("show")
  /\ LET old == the_trace.cur_ast
         t == open_step(the_trace, flags, "backtrack", FALSE, TRUE)
         u == IF marked THEN PutNew(t, old.code, old.ann, t.cur_ast_typed) ELSE t
         v == PutBack(LeafStep(u, "show", old, u.cur_ast, flags.check_validity),
                      old, t.cur_ast_typed)
         Retype(w) == IF flags.recompute THEN recompute_resources(w, flags) ELSE w
     IN Continue(Then(close_step(justif(v), [flags EXCEPT !.recompute = FALSE], FALSE, FALSE),
                      Retype))
  /\ UNCHANGED <<flags, frames, saved, report>>

Raise ==
  /\ Running /\ mode' = "raise"
  /\ UNCHANGED <<the_trace, flags, frames, saved, report>>

-----------------------------------------------------------------------------
(* Entering the combinators.                                                *)

Transfo == CanOpen("transfo") /\ EnterStep("step", "transfo", FALSE, FALSE)
step_group == CanOpen("group") /\ EnterStep("step", "group", FALSE, FALSE)

trustme ==
  /\ CanOpen("trustme")
  /\ LET t == open_step(the_trace, flags, "trustme", FALSE, FALSE)
     IN the_trace' = t /\ frames' = Push(t, "trustme", FALSE)
  /\ flags' = [flags EXCEPT !.check_validity = FALSE]
  /\ UNCHANGED <<mode, saved, report>>

without_substep_validity_checks ==
  CanOpen("unchecked") /\ EnterFlag("unchecked", [flags EXCEPT !.check_validity = FALSE])

without_resource_computation_between_steps ==
  CanOpen("notyping") /\ EnterFlag("notyping", [flags EXCEPT !.recompute = FALSE])

preserves_resource_typing ==
  CanOpen("preserve") /\ EnterFlag("preserve", [flags EXCEPT !.recompute = FALSE])

step_backtrack(discard) ==
  CanOpen("backtrack") /\ EnterStep("backtrack", "backtrack", FALSE, discard)

step_backtrack_on_failure(discard) ==
  CanOpen("onfailure") /\ EnterStep("onfailure", "backtrack", FALSE, discard)

\* A step_backtrack around a try: its frame, then the frame of the try.
failure_expected ==
  /\ CanOpen("expected")
  /\ LET t == open_step(the_trace, flags, "backtrack", FALSE, FALSE)
         outer == Push(t, "backtrack", FALSE)
     IN /\ the_trace' = t
        /\ frames' = Append(outer, [Last(outer) EXCEPT !.kind = "expected"])
  /\ UNCHANGED <<flags, mode, saved, report>>

-----------------------------------------------------------------------------
(* The body of the innermost combinator has returned.                       *)

Leaving(kind) == Running /\ InFrame(kind) /\ frames' = Front(frames)

step_and_get_handle ==
  /\ Leaving("step")
  /\ Continue(CloseChecked(the_trace, flags, Frame.depth, FALSE))
  /\ UNCHANGED <<flags, saved, report>>

RestoreValidityFlag == flags' = [flags EXCEPT !.check_validity = Frame.flags.check_validity]
RestoreTypingFlag == flags' = [flags EXCEPT !.recompute = Frame.flags.recompute]

LeaveTrustme ==
  /\ Leaving("trustme") /\ RestoreValidityFlag
  /\ Continue(CloseChecked(the_trace, flags', Frame.depth, FALSE))
  /\ UNCHANGED <<saved, report>>

LeaveUnchecked ==
  /\ Leaving("unchecked") /\ RestoreValidityFlag
  /\ UNCHANGED <<the_trace, mode, saved, report>>

\* The resources are recomputed at once, in the step around the region.
LeaveNoTyping ==
  /\ Leaving("notyping") /\ RestoreTypingFlag
  /\ Continue(IF flags'.recompute THEN recompute_resources(the_trace, flags') ELSE the_trace)
  /\ UNCHANGED <<saved, report>>

LeavePreserve ==
  /\ Leaving("preserve") /\ RestoreTypingFlag
  /\ the_trace' = [the_trace EXCEPT !.cur_ast_typed = Frame.typed]
  /\ UNCHANGED <<mode, saved, report>>

\* The success of step_backtrack_on_failure is closed outside of its handler.
LeaveOnFailure ==
  /\ Leaving("onfailure")
  /\ Continue(CloseChecked(the_trace, flags, Frame.depth, FALSE))
  /\ UNCHANGED <<flags, saved, report>>

\* The end of step_backtrack runs without typing.
LeaveBacktrack ==
  /\ Running /\ InFrame("backtrack") /\ mode' = "closing"
  /\ flags' = [flags EXCEPT !.recompute = FALSE]
  /\ UNCHANGED <<the_trace, frames, saved, report>>

\* Failure_expected_did_not_fail.
LeaveExpected ==
  /\ Leaving("expected") /\ mode' = "raise"
  /\ UNCHANGED <<the_trace, flags, saved, report>>

-----------------------------------------------------------------------------
(* The end of step_backtrack and the handler of step_backtrack_on_failure.  *)

\* Faulty: no step is considered as left open.
NoneLeftOpen == TRUE
AllClosed == Depth <= Frame.depth

\* Faulty: only the small steps are closed.
CloseSmallStep == close_step_kind_if_needed(the_trace, flags, "small")
CloseCurrent == close_step(the_trace, flags, FALSE, FALSE)

\* Faulty: the typing flag is not restored with the AST; nothing is restored; the AST of
\* the outermost region is.
RestoredAsTyped == justif(PutBack(the_trace, Frame.ast, the_trace.cur_ast_typed))
NotRestored == justif(the_trace)
RestoredTooFar == justif(PutBack(the_trace, frames[1].ast, frames[1].typed))
Restored == justif(PutBack(the_trace, Frame.ast, Frame.typed))

\* The steps the body left open are closed one by one.
CloseInterrupted ==
  /\ mode = "closing" /\ ~AllClosed
  /\ LET t == CloseCurrent
     IN /\ the_trace' = [t EXCEPT !.exn = "none"]
        /\ IF t.exn = "none"
           THEN UNCHANGED <<flags, frames, mode>>
           ELSE RestoreTypingFlag /\ frames' = Front(frames) /\ mode' = Outcome(t)
  /\ UNCHANGED <<saved, report>>

\* The AST is restored and the backtrack step closed, without typing; then, typing
\* being back on, the restored AST is typed in the step around.
RestoreSnapshot ==
  /\ mode = "closing" /\ AllClosed
  /\ RestoreTypingFlag /\ frames' = Front(frames)
  /\ LET u == CloseChecked(Restored, [flags EXCEPT !.recompute = FALSE], Frame.depth, Frame.discard)
         Retype(v) == IF flags'.recompute THEN recompute_resources(v, flags') ELSE v
     IN Continue(Then(u, Retype))
  /\ UNCHANGED <<saved, report>>

-----------------------------------------------------------------------------
(* An exception goes up the control stack.                                  *)

\* Faulty: with_flag does not handle exceptions.
FlagsLeftChanged == flags
FlagsUnwound ==
  CASE Frame.kind \in {"trustme", "unchecked"} ->
         [flags EXCEPT !.check_validity = Frame.flags.check_validity]
    [] Frame.kind \in {"notyping", "preserve"} ->
         [flags EXCEPT !.recompute = Frame.flags.recompute]
    [] OTHER -> flags

\* with_flag restores its flag; the step a combinator opened stays open.
Propagate ==
  /\ mode = "raise" /\ frames # <<>> /\ Frame.kind # "onfailure"
  /\ frames' = Front(frames) /\ flags' = FlagsUnwound
  /\ UNCHANGED <<the_trace, mode, saved, report>>

\* Faulty: the script goes on at once, the steps left open staying so.
ResumeAtOnce ==
  /\ mode = "raise" /\ InFrame("expected") /\ mode' = "run"
  /\ frames' = Front(frames)
  /\ UNCHANGED <<the_trace, flags, saved, report>>

\* The exception satisfies the predicate of failure_expected: the step_backtrack
\* around it ends normally.
CatchExpected ==
  /\ mode = "raise" /\ InFrame("expected") /\ frames' = Front(frames)
  /\ mode' = "closing" /\ flags' = [flags EXCEPT !.recompute = FALSE]
  /\ UNCHANGED <<the_trace, saved, report>>

CatchOnFailure ==
  /\ mode = "raise" /\ InFrame("onfailure") /\ mode' = "closing"
  /\ UNCHANGED <<the_trace, flags, frames, saved, report>>

\* Run.script saves the trace of a script that fails: finalize_on_error first reports the
\* exception in a step (error_step), which may mark the terms the exception is about.
error_step(marked) ==
  /\ mode = "raise" /\ frames = <<>> /\ RequestTrace
  /\ LET old == the_trace.cur_ast
         u == IF marked THEN PutNew(the_trace, old.code, old.ann, the_trace.cur_ast_typed)
              ELSE the_trace
     IN the_trace' = LeafStep(u, "error", old, u.cur_ast, flags.check_validity)
  /\ mode' = "closing_all"
  /\ UNCHANGED <<flags, frames, saved, report>>

\* Without a trace to save, the exception ends the program.
Crash ==
  /\ mode = "raise" /\ frames = <<>> /\ ~RequestTrace /\ mode' = "crashed"
  /\ UNCHANGED <<the_trace, flags, frames, saved, report>>

close_all_steps ==
  /\ mode = "closing_all"
  /\ IF Depth = 1 THEN finalize(the_trace, TRUE)
     ELSE LET t == close_step(the_trace, flags, FALSE, TRUE)
          IN /\ the_trace' = [t EXCEPT !.exn = "none"]
             /\ mode' = IF t.exn = "none" THEN mode ELSE "crashed"
             /\ UNCHANGED report
  /\ UNCHANGED <<flags, frames, saved>>

Stopped ==
  /\ mode \in {"done", "exited", "crashed", "failed"}
  /\ UNCHANGED vars

-----------------------------------------------------------------------------
Script ==
  \/ Start \/ EndScript
  \/ \E hit, parse_again \in BOOLEAN :
       open_smallstep(hit, parse_again) \/ open_bigstep(hit, parse_again)

Edit ==
  \/ \E code \in Codes : apply(code)
  \/ apply_marks \/ Justify \/ set_ast_for_target_iter \/ target_resolve_step
  \/ ensure_computed \/ restore_original \/ Raise
  \/ \E marked \in BOOLEAN : show_step(marked)

Enter ==
  \/ Transfo \/ step_group \/ trustme
  \/ without_substep_validity_checks \/ without_resource_computation_between_steps
  \/ preserves_resource_typing \/ failure_expected
  \/ \E discard \in BOOLEAN : step_backtrack(discard) \/ step_backtrack_on_failure(discard)

Leave ==
  \/ step_and_get_handle \/ LeaveTrustme \/ LeaveUnchecked \/ LeaveNoTyping
  \/ LeavePreserve \/ LeaveOnFailure \/ LeaveBacktrack \/ LeaveExpected

\* What the program does by itself once an exception or the end of a region is handled.
Unwind ==
  \/ CloseInterrupted \/ RestoreSnapshot
  \/ Propagate \/ CatchExpected \/ CatchOnFailure
  \/ Crash \/ close_all_steps
  \/ \E marked \in BOOLEAN : error_step(marked)

Next == Script \/ Edit \/ Enter \/ Leave \/ Unwind \/ Stopped

Spec == Init /\ [][Next]_vars

Handling == mode \in {"raise", "closing", "closing_all"}

\* ENABLED <<Unwind>>_vars, in a form that is cheap to evaluate: the loop that closes the
\* interrupted steps is the only one that could make no progress.
CanUnwind == Handling /\ (mode = "closing" /\ ~AllClosed => CloseCurrent # the_trace)

\* The program is sequential and none of its handlers waits: weak fairness of Unwind.
FairSpec == Spec /\ ([]<>~CanUnwind \/ []<><<Unwind>>_vars)

-----------------------------------------------------------------------------
(* Properties.                                                              *)

\* Every variable keeps its type, whatever the nesting of calls and exceptions.
TypeOK ==
  /\ the_trace \in Traces /\ the_trace.exn = "none" /\ the_trace.step_stack # <<>>
  /\ flags \in FlagValues
  /\ frames \in Seq(Frames)
  /\ mode \in Modes
  /\ saved \in Seq(Asts) /\ Len(saved) <= 1
  /\ report \in Seq(ClosedSteps) /\ Len(report) <= 1

\* The last id of the part of a step that has been recorded so far.
SubEnd(step) == IF step.sub = <<>> THEN step.id ELSE Last(step.sub).last

SubIds(step) ==
  \A j \in DOMAIN step.sub :
    /\ step.sub[j].id = (IF j = 1 THEN step.id ELSE step.sub[j - 1].last) + 1
    /\ step.id < step.sub[j].id /\ step.sub[j].id <= step.sub[j].last

StackIds(stack) ==
  /\ \A i \in DOMAIN stack : SubIds(stack[i])
  /\ \A i \in 1..(Len(stack) - 1) : stack[i + 1].id = SubEnd(stack[i]) + 1

\* Step ids are contiguous in the order of the display, whatever was discarded, left open
\* by an exception or filtered out: the page that shows the trace needs it (close_step).
IdsContiguous ==
  /\ the_trace.step_stack[1].id = 0
  /\ StackIds(the_trace.step_stack)
  /\ mode # "done" => the_trace.next_step_id = SubEnd(Top(the_trace)) + 1
  /\ mode = "done" => /\ Depth = 1
                      /\ the_trace.next_step_id = report[1].last + 1
                      /\ SubEnd(the_trace.step_stack[1]) <= report[1].last

\* check_the_trace: which steps may be recorded or opened inside a step of a kind.
MayContain(kind) ==
  Kinds \ (CASE kind = "root" -> {"root"}
              [] kind = "big" -> {"root", "big"}
              [] OTHER -> {"root", "big", "small"})

\* Big and small steps, opened and closed implicitly, only nest as check_the_trace says.
NestingOK ==
  LET stack == the_trace.step_stack
  IN \A i \in DOMAIN stack :
       /\ (stack[i].kind = "root") <=> (i = 1)
       /\ i > 1 => stack[i].kind \in MayContain(stack[i - 1].kind)
       /\ \A j \in DOMAIN stack[i].sub : stack[i].sub[j].kind \in MayContain(stack[i].kind)

\* The flag cur_ast_typed is only set when the current AST carries the resources computed
\* for itself, through restorations, marks and exceptions (until finalize's last step).
TypedSound ==
  mode \in {"run", "raise", "closing", "closing_all"} /\ the_trace.cur_ast_typed
    => the_trace.cur_ast.ann = "typed"

\* The flags are what the combinators still running make them: no exit, by an exception or
\* not, leaves check_validity or recompute_resources_between_steps changed behind it.
FlagsScoped ==
  /\ flags.check_validity = (CheckValidity /\ FramesOf({"trustme", "unchecked"}) = {})
  /\ flags.recompute = (/\ Recompute /\ FramesOf({"notyping", "preserve"}) = {}
                        /\ ~(mode = "closing" /\ InFrame("backtrack")))

StepFrames == FramesOf({"step", "trustme", "backtrack", "expected", "onfailure"})

\* The assertion of step_and_get_handle: when a body returns, the current step is the one
\* opened for it; the steps that implicit closings may close are never in between.
HandlesMatch ==
  /\ \A i \in StepFrames : frames[i].depth \in 2..Depth
  /\ \A i \in StepFrames :
       the_trace.step_stack[frames[i].depth].kind \in
         (CASE frames[i].kind = "step" -> {"small", "transfo", "group"}
            [] frames[i].kind = "trustme" -> {"trustme"}
            [] OTHER -> {"backtrack"})
  /\ Running /\ StepFrames # {} => Depth = frames[Max(StepFrames)].depth
  /\ AtTop => \A i \in 1..Depth : the_trace.step_stack[i].kind \in {"root", "big", "small"}

Recorded(P(_)) ==
  \A i \in 1..Depth : \A j \in DOMAIN the_trace.step_stack[i].sub :
    P(the_trace.step_stack[i].sub[j])

\* close_step: a recorded step is only valid when it was justified as a whole, or when
\* justified substeps lead from its first AST to its last.
ValidGrounded == LET P(s) == s.valid => s.grounded IN Recorded(P)

\* A step_backtrack that was closed normally starts and ends on the same AST.
BacktrackNeutral ==
  LET P(s) == s.kind = "backtrack" /\ s.granted /\ ~WithModels => s.before = s.after
  IN Recorded(P)

\* recompute_resources_between_steps: when a step that changed the program is closed while
\* the flag is set, the current AST has its resources.
StepsEndTyped ==
  [][Running /\ mode' = "run" /\ Len(the_trace'.step_stack) < Depth /\ flags.recompute
       /\ Top(the_trace).before.code # the_trace'.cur_ast.code
     => the_trace'.cur_ast.ann = "typed"]_vars

\* show_step: the Step_show of a step tagged "show" can be extracted to display its diff.
ShowExtractable ==
  LET P(s) == s.show /\ s.before = s.after => s.extractable IN Recorded(P)

\* A diff is only shown between steps of the script, never in the middle of one.
ExitAtScriptLevel ==
  mode = "exited" =>
    /\ frames = <<>>
    /\ \A i \in 1..Depth : the_trace.step_stack[i].kind \in {"root", "big"}
    /\ flags.only_big_steps => Last(Top(the_trace).sub).kind = "big"

\* step_backtrack: the steps left open by an exception can all be closed.
InterruptedClosed == [][mode = "closing" => mode' # "failed"]_vars

\* step_backtrack_on_failure: once an exception is caught, the handler ends with the
\* program as it was when the region was entered.
OnFailureRestores ==
  [][mode = "closing" /\ InFrame("onfailure") /\ frames' # frames
       => the_trace'.cur_ast.code = Frame.ast.code]_vars

\* An exception, or the end of a backtracked region, always ends: either the script goes
\* on or the program stops; finalize_on_error closes every step.
HandlersEnd ==
  Handling ~> mode \in {"run", "done", "crashed", "failed"}
=============================================================================
