------------------------------ MODULE TraceUndo ------------------------------
(* Trace implements UndoScopes: the refinement mapping.                      *)
EXTENDS Trace

ScopeKind(kind) ==
  CASE kind = "backtrack" -> "always" [] kind = "onfailure" -> "onraise"
    [] kind = "expected" -> "expecting" [] OTHER -> "plain"

\* Each combinator that is running is a scope, with the program it captured.
ScopesOf(calls) ==
  [i \in DOMAIN calls |-> [kind |-> ScopeKind(calls[i].kind), saved |-> calls[i].ast.code]]

\* The handler of step_backtrack_on_failure runs while its exception is pending.
Raising ==
  \/ mode \in {"raise", "crashed", "failed"}
  \/ mode = "closing" /\ InFrame("onfailure")

Undo == INSTANCE UndoScopes
  WITH Programs <- Codes, Initial <- Original,
       program <- the_trace.cur_ast.code, scopes <- ScopesOf(frames), raising <- Raising

\* Whatever the nesting and wherever exceptions are raised, a region that is left normally
\* has undone exactly what step_backtrack, failure_expected and step_backtrack_on_failure say.
ImplementsUndo == Undo!Spec
=============================================================================
