------------------------------ MODULE UndoScopes ------------------------------
(***************************************************************************)
(* What step_backtrack, failure_expected and step_backtrack_on_failure      *)
(* promise about the program, as the author of a script sees it: edits are  *)
(* made inside nested scopes, and leaving a scope normally undoes all the   *)
(* edits made inside ("always"), only those of a body that raised           *)
(* ("onraise"), or none ("plain").  The body of an "expecting" scope must   *)
(* raise, and its exception goes no further.                                *)
(***************************************************************************)
EXTENDS Integers, Sequences

CONSTANTS Programs, Initial

VARIABLES
  program,  \* the program the script works on
  scopes,   \* the scopes being executed, innermost last
  raising   \* an exception is on its way up, or has ended the script

vars == <<program, scopes, raising>>

Innermost == scopes[Len(scopes)]
Pop == scopes # <<>> /\ scopes' = SubSeq(scopes, 1, Len(scopes) - 1)
Scope(kind) == [kind |-> kind, saved |-> program]

Init == program = Initial /\ scopes = <<>> /\ raising = FALSE

\* A transformation, successful or not.
Edit ==
  /\ ~raising /\ program' \in Programs /\ raising' \in BOOLEAN
  /\ UNCHANGED scopes

Enter(kind) ==
  /\ ~raising /\ scopes' = Append(scopes, Scope(kind))
  /\ UNCHANGED <<program, raising>>

\* An exception is expected from a body whose edits are undone.
Expect ==
  /\ ~raising /\ scopes' = Append(Append(scopes, Scope("always")), Scope("expecting"))
  /\ UNCHANGED <<program, raising>>

\* The program is put back, whatever happens next.
Undo ==
  /\ Pop /\ Innermost.kind \in {"always", "onraise"}
  /\ raising = (Innermost.kind = "onraise")
  /\ program' = Innermost.saved /\ raising' \in BOOLEAN

\* The body did not raise: its edits remain.
Keep ==
  /\ Pop /\ ~raising /\ Innermost.kind \in {"onraise", "plain"}
  /\ raising' \in BOOLEAN /\ UNCHANGED program

\* An exception leaves the scope; it may come from the closing of the scope itself.
Abandon == Pop /\ raising' = TRUE /\ UNCHANGED program

\* The exception was expected.
Caught ==
  /\ Pop /\ raising /\ Innermost.kind = "expecting" /\ raising' = FALSE
  /\ UNCHANGED program

\* Outside of all scopes, an exception is reported and the script closed.
Report ==
  /\ raising /\ scopes = <<>> /\ raising' = FALSE
  /\ UNCHANGED <<program, scopes>>

Next ==
  \/ Edit \/ Expect \/ Undo \/ Keep \/ Abandon \/ Caught \/ Report
  \/ \E kind \in {"always", "onraise", "plain"} : Enter(kind)

Spec == Init /\ [][Next]_vars
=============================================================================
