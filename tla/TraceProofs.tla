----------------------------- MODULE TraceProofs -----------------------------
(****************************************************************************)
(* Type correctness of Trace, contiguity of the step ids and scoping of the *)
(* flags, for every script, every nesting of combinators, every option.     *)
(* First the lemmas on the operations on the stack of open steps: what they *)
(* preserve of its types and ids, which steps they leave open, which steps  *)
(* they record, and the current AST.                                        *)
(*                                                                          *)
(* Then: every combinator finds, when its body returns or when its exception*)
(* is handled, the step it opened: the stack of open steps and the control  *)
(* stack match at every point.  And the combinators of trace.ml implement   *)
(* UndoScopes: every step of Trace is a step of UndoScopes, or leaves the   *)
(* program and the scopes alone.                                            *)
(****************************************************************************)
EXTENDS TraceUndo, FiniteSetTheorems, SequenceTheorems, TLAPS

Steps == OpenSteps(ClosedSteps)

\* The stack of open steps, and the id that the next step must have.
StackOK(stack, next) ==
  /\ stack \in Seq(Steps) /\ stack # <<>>
  /\ stack[1].id = 0
  /\ StackIds(stack)
  /\ next = SubEnd(Last(stack)) + 1
  /\ \A i \in DOMAIN stack : (stack[i].kind = "root") <=> (i = 1)

Wf(t) == t \in Traces /\ StackOK(t.step_stack, t.next_step_id)

-----------------------------------------------------------------------------
(* Stacks.                                                                  *)

\* Front and Last split a sequence that is not empty.
LEMMA FrontLast ==
  ASSUME NEW S, NEW s \in Seq(S), s # <<>>
  PROVE  /\ Len(s) \in Nat /\ Len(s) > 0
         /\ Last(s) \in S
         /\ Front(s) \in Seq(S) /\ Len(Front(s)) = Len(s) - 1
         /\ \A i \in 1..(Len(s) - 1) : Front(s)[i] = s[i]
<1>1. Len(s) \in Nat /\ Len(s) > 0 /\ \A i \in 1..Len(s) : s[i] \in S
  BY LenProperties
<1>2. \A i \in 1..(Len(s) - 1) : s[i] \in S
  BY <1>1
<1>3. 1 \in Int /\ Len(s) - 1 \in Int
  BY <1>1
<1>4. /\ Front(s) \in Seq(S)
      /\ Len(Front(s)) = IF 1 <= Len(s) - 1 THEN Len(s) - 1 - 1 + 1 ELSE 0
      /\ \A i \in 1..(Len(s) - 1 - 1 + 1) : Front(s)[i] = s[1 + i - 1]
  BY <1>2, <1>3, SubSeqProperties DEF Front
<1>5. Len(Front(s)) = Len(s) - 1
  <2> DEFINE n == Len(s)
             m == Len(Front(s))
  <2>1. n \in Nat /\ n > 0 /\ m = IF 1 <= n - 1 THEN n - 1 - 1 + 1 ELSE 0
    BY <1>1, <1>4
  <2> HIDE DEF n, m
  <2>2. m = n - 1
    BY <2>1
  <2> QED BY <2>2 DEF n, m
<1>6. \A i \in 1..(Len(s) - 1) : Front(s)[i] = s[i]
  <2> TAKE i \in 1..(Len(s) - 1)
  <2>1. i \in 1..(Len(s) - 1 - 1 + 1) /\ 1 + i - 1 = i
    BY <1>1
  <2> QED BY <2>1, <1>4
<1>7. Last(s) \in S
  BY <1>1 DEF Last
<1> QED BY <1>1, <1>4, <1>5, <1>6, <1>7

\* Replacing the last element of a sequence.
LEMMA ReplaceLast ==
  ASSUME NEW S, NEW s \in Seq(S), s # <<>>, NEW x \in S
  PROVE  /\ Append(Front(s), x) \in Seq(S) /\ Append(Front(s), x) # <<>>
         /\ Len(Append(Front(s), x)) = Len(s)
         /\ \A i \in 1..(Len(s) - 1) : Append(Front(s), x)[i] = s[i]
         /\ Append(Front(s), x)[Len(s)] = x
         /\ Last(Append(Front(s), x)) = x
<1>1. /\ Len(s) \in Nat /\ Len(s) > 0 /\ Front(s) \in Seq(S) /\ Len(Front(s)) = Len(s) - 1
      /\ \A i \in 1..(Len(s) - 1) : Front(s)[i] = s[i]
  BY FrontLast
<1> QED BY <1>1 DEF Last

\* The ids of a step say where its last recorded descendant ends.
LEMMA SubEndType ==
  ASSUME NEW step \in Steps
  PROVE  SubEnd(step) \in Nat
<1>1. step.id \in Nat /\ step.sub \in Seq(ClosedSteps)
  BY DEF Steps, OpenSteps
<1>2. CASE step.sub = <<>>
  BY <1>1, <1>2 DEF SubEnd
<1>3. CASE step.sub # <<>>
  <2>1. Last(step.sub) \in ClosedSteps
    BY <1>1, <1>3, FrontLast
  <2> QED BY <2>1, <1>3 DEF SubEnd, ClosedSteps
<1> QED BY <1>2, <1>3

\* Opening a step on top of the stack.
LEMMA StackPush ==
  ASSUME NEW stack, NEW next, StackOK(stack, next),
         NEW x \in Steps, x.id = next, x.sub = <<>>, x.kind # "root"
  PROVE  StackOK(Append(stack, x), next + 1)
<1> DEFINE new == Append(stack, x)
<1>1. /\ stack \in Seq(Steps) /\ stack # <<>> /\ Len(stack) \in Nat /\ Len(stack) > 0
      /\ \A i \in 1..Len(stack) : stack[i] \in Steps
  BY DEF StackOK
<1>2. /\ new \in Seq(Steps) /\ new # <<>> /\ Len(new) = Len(stack) + 1
      /\ \A i \in 1..Len(stack) : new[i] = stack[i]
      /\ new[Len(stack) + 1] = x /\ Last(new) = x
  BY <1>1 DEF Last
<1>3. SubIds(x) /\ SubEnd(x) = next
  BY DEF SubIds, SubEnd
<1>4. StackIds(new)
  <2>1. \A i \in DOMAIN new : SubIds(new[i])
    BY <1>1, <1>2, <1>3 DEF StackOK, StackIds
  <2>2. ASSUME NEW i \in 1..(Len(new) - 1)
        PROVE  new[i + 1].id = SubEnd(new[i]) + 1
    <3>1. CASE i = Len(stack)
      BY <3>1, <1>1, <1>2 DEF StackOK, Last
    <3>2. CASE i # Len(stack)
      <4>1. i \in 1..(Len(stack) - 1) /\ i \in 1..Len(stack) /\ i + 1 \in 1..Len(stack)
        BY <3>2, <1>1, <1>2
      <4> QED BY <4>1, <1>2 DEF StackOK, StackIds
    <3> QED BY <3>1, <3>2
  <2> QED BY <2>1, <2>2 DEF StackIds
<1>5. new[1].id = 0 /\ \A i \in DOMAIN new : (new[i].kind = "root") <=> (i = 1)
  BY <1>1, <1>2 DEF StackOK
<1> QED BY <1>2, <1>3, <1>4, <1>5 DEF StackOK

\* Changing the innermost open step, its recorded substeps included.
LEMMA StackReplace ==
  ASSUME NEW stack, NEW next, StackOK(stack, next),
         NEW x \in Steps, x.id = Last(stack).id, x.kind = Last(stack).kind, SubIds(x)
  PROVE  StackOK(Append(Front(stack), x), SubEnd(x) + 1)
<1> DEFINE new == Append(Front(stack), x)
<1>1. /\ stack \in Seq(Steps) /\ stack # <<>> /\ Len(stack) \in Nat /\ Len(stack) > 0
  BY DEF StackOK
<1>2. /\ new \in Seq(Steps) /\ new # <<>> /\ Len(new) = Len(stack)
      /\ \A i \in 1..(Len(stack) - 1) : new[i] = stack[i]
      /\ new[Len(stack)] = x /\ Last(new) = x
  BY <1>1, ReplaceLast
<1>3. \A i \in 1..Len(stack) : new[i].id = stack[i].id /\ new[i].kind = stack[i].kind
  BY <1>1, <1>2 DEF Last
<1>4. StackIds(new)
  <2>1. \A i \in DOMAIN new : SubIds(new[i])
    BY <1>1, <1>2 DEF StackOK, StackIds
  <2>2. ASSUME NEW i \in 1..(Len(new) - 1)
        PROVE  new[i + 1].id = SubEnd(new[i]) + 1
    <3>1. i \in 1..(Len(stack) - 1) /\ i + 1 \in 1..Len(stack)
      BY <1>1, <1>2
    <3> QED BY <3>1, <1>2, <1>3 DEF StackOK, StackIds
  <2> QED BY <2>1, <2>2 DEF StackIds
<1>5. new[1].id = 0 /\ \A i \in DOMAIN new : (new[i].kind = "root") <=> (i = 1)
  BY <1>1, <1>2, <1>3 DEF StackOK
<1> QED BY <1>2, <1>4, <1>5 DEF StackOK

\* Leaving the innermost step out: its id is the next one again.
LEMMA StackPop ==
  ASSUME NEW stack, NEW next, StackOK(stack, next), Len(stack) > 1
  PROVE  StackOK(Front(stack), Last(stack).id)
<1> DEFINE new == Front(stack)
<1>1. /\ stack \in Seq(Steps) /\ stack # <<>> /\ Len(stack) \in Nat
      /\ new \in Seq(Steps) /\ Len(new) = Len(stack) - 1 /\ new # <<>>
      /\ \A i \in 1..(Len(stack) - 1) : new[i] = stack[i]
  BY FrontLast DEF StackOK
<1>2. StackIds(new)
  <2>1. \A i \in DOMAIN new : SubIds(new[i])
    BY <1>1 DEF StackOK, StackIds
  <2>2. ASSUME NEW i \in 1..(Len(new) - 1)
        PROVE  new[i + 1].id = SubEnd(new[i]) + 1
    <3>1. i \in 1..(Len(stack) - 1) /\ i + 1 \in 1..(Len(stack) - 1)
      BY <1>1
    <3> QED BY <3>1, <1>1 DEF StackOK, StackIds
  <2> QED BY <2>1, <2>2 DEF StackIds
<1>3. Last(stack).id = SubEnd(Last(new)) + 1
  <2>1. Len(stack) - 1 \in 1..(Len(stack) - 1)
    BY <1>1
  <2>2. stack[(Len(stack) - 1) + 1].id = SubEnd(stack[Len(stack) - 1]) + 1
    BY <2>1 DEF StackOK, StackIds
  <2> QED BY <2>1, <2>2, <1>1 DEF Last
<1>4. new[1].id = 0 /\ \A i \in DOMAIN new : (new[i].kind = "root") <=> (i = 1)
  BY <1>1 DEF StackOK
<1> QED BY <1>1, <1>2, <1>3, <1>4 DEF StackOK

\* The id of a step comes before those of its substeps.
LEMMA SubEndBound ==
  ASSUME NEW step \in Steps, SubIds(step)
  PROVE  step.id <= SubEnd(step)
<1>1. step.id \in Nat /\ step.sub \in Seq(ClosedSteps)
  BY DEF Steps, OpenSteps
<1>2. CASE step.sub = <<>>
  BY <1>1, <1>2 DEF SubEnd
<1>3. CASE step.sub # <<>>
  <2>1. Last(step.sub) \in ClosedSteps /\ Len(step.sub) \in DOMAIN step.sub
    BY <1>1, <1>3, FrontLast
  <2>2. step.id < Last(step.sub).id /\ Last(step.sub).id <= Last(step.sub).last
    BY <2>1 DEF SubIds, Last
  <2> QED BY <1>1, <1>3, <2>1, <2>2 DEF SubEnd, ClosedSteps
<1> QED BY <1>2, <1>3

\* Recording a substep whose ids follow those recorded before.
LEMMA AddSubIds ==
  ASSUME NEW step \in Steps, SubIds(step),
         NEW closed \in ClosedSteps, closed.id = SubEnd(step) + 1, closed.id <= closed.last
  PROVE  /\ AddSub(step, closed) \in Steps
         /\ AddSub(step, closed).id = step.id /\ AddSub(step, closed).kind = step.kind
         /\ SubIds(AddSub(step, closed))
         /\ SubEnd(AddSub(step, closed)) = closed.last
<1> DEFINE sub == Append(step.sub, closed)
           new == AddSub(step, closed)
<1>1. step.sub \in Seq(ClosedSteps) /\ Len(step.sub) \in Nat
  BY DEF Steps, OpenSteps
<1>2. /\ sub \in Seq(ClosedSteps) /\ Len(sub) = Len(step.sub) + 1 /\ sub # <<>>
      /\ \A i \in 1..Len(step.sub) : sub[i] = step.sub[i]
      /\ sub[Len(step.sub) + 1] = closed /\ Last(sub) = closed
  BY <1>1 DEF Last
<1>3. new \in Steps /\ new.id = step.id /\ new.kind = step.kind /\ new.sub = sub
  BY <1>2 DEF AddSub, Steps, OpenSteps
<1>4. SubEnd(new) = closed.last
  BY <1>2, <1>3 DEF SubEnd
<1>a. step.id < closed.id
  BY SubEndBound, SubEndType DEF Steps, OpenSteps
<1>5. ASSUME NEW j \in DOMAIN sub
      PROVE  /\ sub[j].id = (IF j = 1 THEN step.id ELSE sub[j - 1].last) + 1
             /\ step.id < sub[j].id /\ sub[j].id <= sub[j].last
  <2>1. CASE j \in 1..Len(step.sub)
    <3>1. j # 1 => j - 1 \in 1..Len(step.sub)
      BY <2>1, <1>1
    <3> QED BY <2>1, <3>1, <1>1, <1>2 DEF SubIds
  <2>2. CASE j = Len(step.sub) + 1 /\ step.sub = <<>>
    BY <2>2, <1>a, <1>1, <1>2 DEF SubEnd
  <2>3. CASE j = Len(step.sub) + 1 /\ step.sub # <<>>
    <3>1. Len(step.sub) \in 1..Len(step.sub)
      BY <2>3, <1>1
    <3> QED BY <2>3, <3>1, <1>a, <1>1, <1>2 DEF SubEnd, Last
  <2>4. j \in 1..Len(step.sub) \/ j = Len(step.sub) + 1
    BY <1>1, <1>2
  <2> QED BY <2>1, <2>2, <2>3, <2>4
<1>6. SubIds(new)
  BY <1>3, <1>5 DEF SubIds
<1> QED BY <1>3, <1>4, <1>6

-----------------------------------------------------------------------------
(* Operators of TraceSteps that change the_trace.                           *)

\* The innermost open step of a well-formed trace.
LEMMA TopOfWf ==
  ASSUME NEW t, Wf(t)
  PROVE  /\ t \in Traces /\ t.step_stack \in Seq(Steps) /\ t.step_stack # <<>>
         /\ Len(t.step_stack) \in Nat /\ Len(t.step_stack) > 0
         /\ Top(t) \in Steps /\ SubIds(Top(t))
         /\ SubEnd(Top(t)) \in Nat /\ t.next_step_id = SubEnd(Top(t)) + 1
<1>1. /\ t \in Traces /\ t.step_stack \in Seq(Steps) /\ t.step_stack # <<>>
      /\ t.next_step_id = SubEnd(Top(t)) + 1
  BY DEF Wf, StackOK, Top
<1>2. Len(t.step_stack) \in Nat /\ Len(t.step_stack) > 0 /\ Top(t) \in Steps
  BY <1>1, FrontLast DEF Top
<1>3. SubIds(Top(t))
  <2>1. Len(t.step_stack) \in DOMAIN t.step_stack
    BY <1>1, <1>2
  <2> QED BY <2>1 DEF Wf, StackOK, StackIds, Top, Last
<1> QED BY <1>1, <1>2, <1>3, SubEndType

\* Only the fields that StackOK reads matter.
LEMMA WfSameStack ==
  ASSUME NEW t, Wf(t), NEW u \in Traces,
         u.step_stack = t.step_stack, u.next_step_id = t.next_step_id
  PROVE  Wf(u)
BY DEF Wf

\* Assignments to the current AST.
LEMMA PutNewWf ==
  ASSUME NEW t, Wf(t), NEW code \in Codes,
         NEW ann \in {"none", "stale", "typed", "error"}, NEW typed \in BOOLEAN
  PROVE  LET u == PutNew(t, code, ann, typed)
         IN /\ Wf(u) /\ u.step_stack = t.step_stack /\ u.exn = t.exn
            /\ u.next_step_id = t.next_step_id
<1> DEFINE u == PutNew(t, code, ann, typed)
<1>1. t \in Traces
  BY DEF Wf
<1>2. [ver |-> t.next_ver, code |-> code, ann |-> ann] \in Asts
  BY <1>1 DEF Traces, Asts
<1>3. t.next_ver + 1 \in Nat
  BY <1>1 DEF Traces
<1>4. /\ u \in Traces /\ u.step_stack = t.step_stack /\ u.exn = t.exn
      /\ u.next_step_id = t.next_step_id
  BY <1>1, <1>2, <1>3 DEF Traces, PutNew
<1> QED BY <1>4, WfSameStack

LEMMA PutBackWf ==
  ASSUME NEW t, Wf(t), NEW ast \in Asts, NEW typed \in BOOLEAN
  PROVE  LET u == PutBack(t, ast, typed)
         IN /\ Wf(u) /\ u.step_stack = t.step_stack /\ u.exn = t.exn
            /\ u.next_step_id = t.next_step_id
<1> DEFINE u == PutBack(t, ast, typed)
<1>1. /\ u \in Traces /\ u.step_stack = t.step_stack /\ u.exn = t.exn
      /\ u.next_step_id = t.next_step_id
  BY DEF Wf, Traces, PutBack
<1> QED BY <1>1, WfSameStack

\* Opening a step gives it the next id.
LEMMA OpenStepWf ==
  ASSUME NEW t, Wf(t), NEW f \in FlagValues, NEW kind \in Kinds \ {"root"},
         NEW valid \in BOOLEAN, NEW show \in BOOLEAN
  PROVE  LET u == open_step(t, f, kind, valid, show)
         IN /\ Wf(u) /\ u.exn = t.exn
            /\ Len(u.step_stack) = Len(t.step_stack) + 1
            /\ Top(u).kind = kind /\ Front(u.step_stack) = t.step_stack
            /\ u.cur_ast = t.cur_ast /\ u.cur_ast_typed = t.cur_ast_typed
<1> DEFINE u == open_step(t, f, kind, valid, show)
           x == [id |-> t.next_step_id, kind |-> kind, before |-> t.cur_ast, sub |-> <<>>,
                 valid |-> valid, granted |-> valid, check_validity |-> f.check_validity,
                 show |-> show]
<1>1. t \in Traces
  BY DEF Wf
<1>2. <<>> \in Seq(ClosedSteps) /\ kind \in Kinds
  OBVIOUS
<1>3. x \in Steps /\ x.id = t.next_step_id /\ x.sub = <<>> /\ x.kind # "root"
  BY <1>1, <1>2 DEF Steps, OpenSteps, Traces, FlagValues
<1>4. StackOK(Append(t.step_stack, x), t.next_step_id + 1)
  BY <1>3, StackPush DEF Wf
<1>5. Append(t.step_stack, x) \in Seq(OpenSteps(ClosedSteps))
  BY <1>4 DEF StackOK, Steps
<1>a. t.next_step_id + 1 \in Nat
  BY <1>1 DEF Traces
<1>6. /\ u \in Traces /\ u.step_stack = Append(t.step_stack, x)
      /\ u.next_step_id = t.next_step_id + 1 /\ u.exn = t.exn
      /\ u.cur_ast = t.cur_ast /\ u.cur_ast_typed = t.cur_ast_typed
  BY <1>1, <1>5, <1>a DEF Traces, open_step
<1>7. Wf(u)
  BY <1>4, <1>6 DEF Wf
<1>8. t.step_stack \in Seq(Steps)
  BY DEF Wf, StackOK
<1>9. /\ Len(u.step_stack) = Len(t.step_stack) + 1
      /\ Top(u).kind = kind
  BY <1>3, <1>6, <1>8 DEF Top, Last
<1>10. Front(u.step_stack) = t.step_stack
  <2>1. Front(u.step_stack) \in Seq(Steps)
        /\ Len(Front(u.step_stack)) = Len(t.step_stack)
        /\ \A i \in 1..Len(t.step_stack) : Front(u.step_stack)[i] = u.step_stack[i]
    <3>1. u.step_stack \in Seq(Steps) /\ u.step_stack # <<>>
      BY <1>7 DEF Wf, StackOK
    <3>2. Len(u.step_stack) - 1 = Len(t.step_stack)
      BY <1>8, <1>9, LenProperties
    <3> QED BY <3>1, <3>2, FrontLast
  <2>2. \A i \in 1..Len(t.step_stack) : u.step_stack[i] = t.step_stack[i]
    BY <1>3, <1>6, <1>8
  <2> QED BY <2>1, <2>2, <1>8, SeqEqual
<1> QED BY <1>6, <1>7, <1>9, <1>10

\* Replacing the innermost step of a well-formed trace by one with the same id and kind.
LEMMA WithTopWf ==
  ASSUME NEW t, Wf(t), NEW x \in Steps, x.id = Top(t).id, x.kind = Top(t).kind, SubIds(x),
         NEW next, next = SubEnd(x) + 1
  PROVE  LET u == [WithTop(t, x) EXCEPT !.next_step_id = next]
         IN /\ Wf(u) /\ u.exn = t.exn /\ Len(u.step_stack) = Len(t.step_stack)
            /\ Top(u) = x /\ u.cur_ast = t.cur_ast /\ u.cur_ast_typed = t.cur_ast_typed
<1> DEFINE u == [WithTop(t, x) EXCEPT !.next_step_id = next]
<1>1. t \in Traces /\ t.step_stack \in Seq(Steps) /\ t.step_stack # <<>>
  BY TopOfWf
<1>2. /\ Append(Front(t.step_stack), x) \in Seq(OpenSteps(ClosedSteps))
      /\ Len(Append(Front(t.step_stack), x)) = Len(t.step_stack)
      /\ Last(Append(Front(t.step_stack), x)) = x
  BY <1>1, ReplaceLast DEF Steps
<1>3. SubEnd(x) + 1 \in Nat
  BY SubEndType
<1>4. /\ u \in Traces /\ u.step_stack = Append(Front(t.step_stack), x)
      /\ u.next_step_id = next /\ u.exn = t.exn
      /\ u.cur_ast = t.cur_ast /\ u.cur_ast_typed = t.cur_ast_typed
  BY <1>1, <1>2, <1>3 DEF Traces, WithTop
<1>5. StackOK(Append(Front(t.step_stack), x), SubEnd(x) + 1)
  BY StackReplace DEF Wf, Top
<1> QED BY <1>2, <1>4, <1>5 DEF Wf, Top

\* The validity of the innermost step.
LEMMA JustifWf ==
  ASSUME NEW t, Wf(t)
  PROVE  /\ Wf(justif(t)) /\ justif(t).exn = t.exn
         /\ Len(justif(t).step_stack) = Len(t.step_stack)
         /\ Top(justif(t)).kind = Top(t).kind
         /\ justif(t).cur_ast = t.cur_ast
<1> DEFINE x == [Top(t) EXCEPT !.valid = TRUE, !.granted = TRUE]
<1>1. /\ t \in Traces /\ Top(t) \in Steps /\ SubIds(Top(t))
      /\ t.next_step_id = SubEnd(Top(t)) + 1
  BY TopOfWf
<1>2. /\ x \in Steps /\ x.id = Top(t).id /\ x.kind = Top(t).kind /\ x.sub = Top(t).sub
  BY <1>1 DEF Steps, OpenSteps
<1>3. SubIds(x) /\ SubEnd(x) = SubEnd(Top(t))
  BY <1>1, <1>2 DEF SubIds, SubEnd
<1>4. justif(t) = [WithTop(t, x) EXCEPT !.next_step_id = t.next_step_id]
  BY <1>1 DEF justif, WithTop, Traces
<1> DEFINE u == [WithTop(t, x) EXCEPT !.next_step_id = t.next_step_id]
<1>5. /\ Wf(u) /\ u.exn = t.exn /\ Len(u.step_stack) = Len(t.step_stack)
      /\ Top(u) = x /\ u.cur_ast = t.cur_ast
  <2> HIDE DEF x
  <2> QED BY <1>1, <1>2, <1>3, WithTopWf
<1>6. justif(t) = u
  BY <1>4
<1> HIDE DEF x, u
<1> QED BY <1>2, <1>5, <1>6

\* Recording a closed step in the innermost open one.
LEMMA RecordWf ==
  ASSUME NEW t, Wf(t), NEW closed \in ClosedSteps,
         closed.id = t.next_step_id, closed.id <= closed.last
  PROVE  LET u == [WithTop(t, AddSub(Top(t), closed)) EXCEPT !.next_step_id = closed.last + 1]
         IN /\ Wf(u) /\ u.exn = t.exn /\ Len(u.step_stack) = Len(t.step_stack)
            /\ Top(u).kind = Top(t).kind
            /\ u.cur_ast = t.cur_ast /\ u.cur_ast_typed = t.cur_ast_typed
<1> DEFINE x == AddSub(Top(t), closed)
<1>1. Top(t) \in Steps /\ SubIds(Top(t)) /\ closed.id = SubEnd(Top(t)) + 1
  BY TopOfWf
<1>2. /\ x \in Steps /\ x.id = Top(t).id /\ x.kind = Top(t).kind /\ SubIds(x)
      /\ SubEnd(x) = closed.last
  BY <1>1, AddSubIds
<1> QED BY <1>2, WithTopWf

\* A step that opens no other and does not change the code.
LEMMA LeafStepWf ==
  ASSUME NEW t, Wf(t), NEW kind \in Kinds, NEW before \in Asts, NEW after \in Asts,
         NEW valid \in BOOLEAN
  PROVE  LET u == LeafStep(t, kind, before, after, valid)
         IN /\ Wf(u) /\ u.exn = t.exn /\ Len(u.step_stack) = Len(t.step_stack)
            /\ Top(u).kind = Top(t).kind
            /\ u.cur_ast = t.cur_ast /\ u.cur_ast_typed = t.cur_ast_typed
<1> DEFINE closed == [id |-> t.next_step_id, last |-> t.next_step_id, kind |-> kind,
                      before |-> before, after |-> after, valid |-> valid, granted |-> valid,
                      show |-> FALSE, extractable |-> kind = "show", grounded |-> TRUE]
<1>1. t.next_step_id \in Nat
  BY DEF Wf, Traces
<1>2. closed \in ClosedSteps /\ closed.id = t.next_step_id /\ closed.last = t.next_step_id
  BY <1>1 DEF ClosedSteps
<1>3. t.next_step_id <= t.next_step_id
  BY <1>1
<1>4. CASE ~step_should_be_kept_in_trace(kind)
  BY <1>4 DEF LeafStep
<1>5. CASE step_should_be_kept_in_trace(kind)
  <2> HIDE DEF closed
  <2>1. WithTop(t, AddSub(Top(t), closed)).next_step_id = t.next_step_id
    BY DEF WithTop, Wf, Traces
  <2>2. LeafStep(t, kind, before, after, valid)
          = [WithTop(t, AddSub(Top(t), closed)) EXCEPT !.next_step_id = closed.last + 1]
    BY <1>2, <1>5, <2>1 DEF LeafStep, closed
  <2> QED BY <1>2, <1>3, <2>2, RecordWf
<1> QED BY <1>4, <1>5

\* Typing records a step, or raises and leaves its step open.
LEMMA RecomputeWf ==
  ASSUME NEW t, Wf(t), t.exn = "none", NEW f \in FlagValues
  PROVE  LET u == recompute_resources(t, f)
         IN /\ Wf(u) /\ u.exn \in {"none", "resource"}
            /\ u.exn = "none" => /\ Len(u.step_stack) = Len(t.step_stack)
                                 /\ Top(u).kind = Top(t).kind
<1>1. t \in Traces /\ t.cur_ast \in Asts /\ t.cur_ast.code \in Codes
  BY DEF Wf, Traces, Asts
<1>2. CASE t.cur_ast_typed
  BY <1>2 DEF recompute_resources
<1>3. CASE ~t.cur_ast_typed /\ t.cur_ast.code \in Typable
  <2> DEFINE u == PutNew(t, t.cur_ast.code, "typed", TRUE)
             v == LeafStep(u, "typing", t.cur_ast, u.cur_ast, TRUE)
  <2>1. Wf(u) /\ u.step_stack = t.step_stack /\ u.exn = "none"
    BY <1>1, PutNewWf
  <2>2. u.cur_ast \in Asts /\ "typing" \in Kinds
    BY <2>1 DEF Wf, Traces, Kinds
  <2> HIDE DEF u
  <2>3. /\ Wf(v) /\ v.exn = "none" /\ Len(v.step_stack) = Len(u.step_stack)
        /\ Top(v).kind = Top(u).kind
    BY <1>1, <2>1, <2>2, LeafStepWf
  <2>4. recompute_resources(t, f) = v
    BY <1>3 DEF recompute_resources, u
  <2> HIDE DEF v
  <2> QED BY <2>1, <2>3, <2>4 DEF Top
<1>4. CASE ~t.cur_ast_typed /\ t.cur_ast.code \notin Typable
  <2> DEFINE u == open_step(t, f, "typing", TRUE, FALSE)
             v == PutNew(u, t.cur_ast.code, "error", FALSE)
             w == [v EXCEPT !.exn = "resource"]
  <2>1. "typing" \in Kinds \ {"root"}
    BY DEF Kinds
  <2>2. Wf(u)
    BY <2>1, OpenStepWf
  <2> HIDE DEF u
  <2>3. Wf(v)
    BY <1>1, <2>2, PutNewWf
  <2>4. recompute_resources(t, f) = w
    BY <1>4 DEF recompute_resources, u
  <2> HIDE DEF v
  <2>5. /\ w \in Traces /\ w.exn = "resource"
        /\ w.step_stack = v.step_stack /\ w.next_step_id = v.next_step_id
    BY <2>3 DEF Wf, Traces
  <2>6. Wf(w)
    BY <2>3, <2>5, WfSameStack
  <2> QED BY <2>4, <2>5, <2>6
<1> QED BY <1>2, <1>3, <1>4

-----------------------------------------------------------------------------
(* Closing a step.                                                          *)

\* The change steps are numbered by a natural number of ids.
LEMMA GapsCount ==
  ASSUME NEW step \in Steps, NEW after
  PROVE  Cardinality(make_substeps_chained(step, after)) \in Nat
<1> DEFINE gaps == make_substeps_chained(step, after)
<1>1. step.sub \in Seq(ClosedSteps) /\ Len(step.sub) \in Nat
  BY DEF Steps, OpenSteps
<1>2. gaps \subseteq 1..(Len(step.sub) + 1)
  BY <1>1 DEF make_substeps_chained, SubGaps, LastGap
<1>3. IsFiniteSet(1..(Len(step.sub) + 1))
  BY <1>1, FS_Interval
<1>4. IsFiniteSet(gaps)
  BY <1>2, <1>3, FS_Subset
<1> QED BY <1>4, FS_CardinalityType

\* The summary of the innermost step covers its id and those that follow.
LEMMA ClosedStepType ==
  ASSUME NEW t, Wf(t), NEW f \in FlagValues
  PROVE  LET closed == ClosedStep(t, f)
         IN /\ closed \in ClosedSteps
            /\ closed.id = Top(t).id /\ closed.id <= closed.last
            /\ SubEnd(Top(t)) <= closed.last
<1> DEFINE gaps == make_substeps_chained(Top(t), t.cur_ast)
           closed == ClosedStep(t, f)
<1>1. /\ t \in Traces /\ t.cur_ast \in Asts /\ Top(t) \in Steps /\ SubIds(Top(t))
      /\ SubEnd(Top(t)) \in Nat /\ t.next_step_id = SubEnd(Top(t)) + 1
  BY TopOfWf DEF Traces
<1>2. Cardinality(gaps) \in Nat
  BY <1>1, GapsCount
<1>3. /\ Top(t).id \in Nat /\ Top(t).kind \in Kinds /\ Top(t).before \in Asts
      /\ Top(t).valid \in BOOLEAN /\ Top(t).granted \in BOOLEAN /\ Top(t).show \in BOOLEAN
  BY <1>1 DEF Steps, OpenSteps
<1>4. FinalValidity(Top(t), t.cur_ast, gaps, f) \in BOOLEAN
  BY <1>3 DEF FinalValidity
<1>5. Grounded(Top(t), t.cur_ast) \in BOOLEAN
  BY <1>3 DEF Grounded
<1>6. t.next_step_id + Cardinality(gaps) - 1 \in Nat
      /\ SubEnd(Top(t)) <= t.next_step_id + Cardinality(gaps) - 1
  BY <1>1, <1>2
<1>7. Top(t).id <= SubEnd(Top(t))
  BY <1>1, SubEndBound
<1>8. closed \in ClosedSteps
  <2> HIDE DEF gaps
  <2> QED BY <1>1, <1>3, <1>4, <1>5, <1>6 DEF ClosedStep, ClosedSteps, gaps
<1>9. closed.id = Top(t).id /\ closed.last = t.next_step_id + Cardinality(gaps) - 1
  BY DEF ClosedStep
<1> QED BY <1>1, <1>3, <1>6, <1>7, <1>8, <1>9

\* A step that is not kept: its id is given to the next one.
LEMMA DropStepWf ==
  ASSUME NEW t, Wf(t), Len(t.step_stack) > 1
  PROVE  LET u == DropStep(t)
         IN /\ Wf(u) /\ u.exn = t.exn /\ Len(u.step_stack) = Len(t.step_stack) - 1
            /\ u.next_step_id = Top(t).id
<1> DEFINE u == DropStep(t)
<1>1. /\ t \in Traces /\ t.step_stack \in Seq(Steps) /\ t.step_stack # <<>>
      /\ Top(t) \in Steps
  BY TopOfWf
<1>2. Top(t).id \in Nat
  BY <1>1 DEF Steps, OpenSteps
<1>3. /\ Front(t.step_stack) \in Seq(OpenSteps(ClosedSteps))
      /\ Len(Front(t.step_stack)) = Len(t.step_stack) - 1
  BY <1>1, FrontLast DEF Steps
<1>4. /\ u \in Traces /\ u.step_stack = Front(t.step_stack)
      /\ u.next_step_id = Top(t).id /\ u.exn = t.exn
  BY <1>1, <1>2, <1>3 DEF Traces, DropStep, PopStep
<1>5. StackOK(Front(t.step_stack), Top(t).id)
  BY StackPop DEF Wf, Top
<1> QED BY <1>3, <1>4, <1>5 DEF Wf

\* A step that is kept: recorded in its parent with the ids of its subtree.
LEMMA KeepStepWf ==
  ASSUME NEW t, Wf(t), NEW f \in FlagValues, Len(t.step_stack) > 1
  PROVE  LET u == KeepStep(t, f)
         IN Wf(u) /\ u.exn = t.exn /\ Len(u.step_stack) = Len(t.step_stack) - 1
<1> DEFINE closed == ClosedStep(t, f)
           p == DropStep(t)
           u == [WithTop(p, AddSub(Top(p), closed)) EXCEPT !.next_step_id = closed.last + 1]
<1>1. closed \in ClosedSteps /\ closed.id = Top(t).id /\ closed.id <= closed.last
  BY ClosedStepType
<1> HIDE DEF closed
<1>2. /\ Wf(p) /\ p.exn = t.exn /\ Len(p.step_stack) = Len(t.step_stack) - 1
      /\ p.next_step_id = Top(t).id
  BY DropStepWf
<1>3. Wf(u) /\ u.exn = p.exn /\ Len(u.step_stack) = Len(p.step_stack)
  BY <1>1, <1>2, RecordWf
<1>4. KeepStep(t, f) = u
  <2>1. t \in Traces
    BY DEF Wf
  <2> DEFINE q == PopStep(t)
             stack == Append(Front(q.step_stack), AddSub(Top(q), closed))
  <2>2. Top(p) = Top(q) /\ Front(p.step_stack) = Front(q.step_stack)
    BY <2>1 DEF DropStep, PopStep, Top, Traces
  <2>3. p = [q EXCEPT !.next_step_id = Top(t).id]
    BY DEF DropStep
  <2>4. KeepStep(t, f) = [[q EXCEPT !.step_stack = stack] EXCEPT !.next_step_id = closed.last + 1]
    BY DEF KeepStep, WithTop, closed
  <2>5. u = [[p EXCEPT !.step_stack = stack] EXCEPT !.next_step_id = closed.last + 1]
    BY <2>2 DEF WithTop
  <2> HIDE DEF p, stack
  <2> QED BY <2>1, <2>3, <2>4, <2>5 DEF PopStep, Traces
<1> QED BY <1>2, <1>3, <1>4

\* finalize_step retypes the AST, or raises.
LEMMA FinalizeStepWf ==
  ASSUME NEW t, Wf(t), t.exn = "none", NEW f \in FlagValues, NEW on_error \in BOOLEAN
  PROVE  LET u == finalize_step(t, f, on_error)
         IN /\ Wf(u)
            /\ u.exn = "none" => /\ Len(u.step_stack) = Len(t.step_stack)
                                 /\ Top(u).kind = Top(t).kind
<1> DEFINE r == recompute_resources(t, f)
           typed == FinalTyping(t, f)
           u == finalize_step(t, f, on_error)
<1>1. /\ Wf(typed)
      /\ typed.exn = "none" => /\ Len(typed.step_stack) = Len(t.step_stack)
                               /\ Top(typed).kind = Top(t).kind
  <2>1. /\ Wf(r)
        /\ r.exn = "none" => /\ Len(r.step_stack) = Len(t.step_stack)
                             /\ Top(r).kind = Top(t).kind
    BY RecomputeWf
  <2>2. typed = t \/ typed = r \/ (r.exn = "none" /\ typed = justif(r))
    BY DEF FinalTyping, Then
  <2> HIDE DEF r, typed
  <2>3. /\ Wf(justif(r)) /\ justif(r).exn = r.exn /\ Top(justif(r)).kind = Top(r).kind
        /\ Len(justif(r).step_stack) = Len(r.step_stack)
    BY <2>1, JustifWf
  <2> QED BY <2>1, <2>2, <2>3
<1>2. u = typed \/ u = [typed EXCEPT !.exn = "trace"]
  BY DEF finalize_step, Then, FinalCheck
<1> HIDE DEF typed, u
<1>3. CASE u = typed
  BY <1>1, <1>3 DEF u
<1>4. CASE u = [typed EXCEPT !.exn = "trace"]
  <2>1. /\ u \in Traces /\ u.exn = "trace"
        /\ u.step_stack = typed.step_stack /\ u.next_step_id = typed.next_step_id
    BY <1>1, <1>4 DEF Wf, Traces
  <2>2. Wf(u)
    BY <1>1, <2>1, WfSameStack
  <2> QED BY <2>1, <2>2 DEF u
<1> QED BY <1>2, <1>3, <1>4

\* close_step folds the innermost step into its parent, drops it, or raises.
LEMMA CloseStepWf ==
  ASSUME NEW t, Wf(t), t.exn = "none", Len(t.step_stack) > 1, NEW f \in FlagValues,
         NEW discard \in BOOLEAN, NEW on_error \in BOOLEAN
  PROVE  LET u == close_step(t, f, discard, on_error)
         IN /\ Wf(u)
            /\ u.exn = "none" => Len(u.step_stack) = Len(t.step_stack) - 1
<1> DEFINE v == finalize_step(t, f, on_error)
           u == close_step(t, f, discard, on_error)
<1>1. /\ Wf(v)
      /\ v.exn = "none" => Len(v.step_stack) = Len(t.step_stack)
  BY FinalizeStepWf
<1>2. \/ u = DropStep(t)
      \/ u = v /\ v.exn # "none"
      \/ v.exn = "none" /\ (u = KeepStep(v, f) \/ u = DropStep(v))
  BY DEF close_step, Then
<1> HIDE DEF v, u
<1>3. CASE u = DropStep(t)
  BY <1>3, DropStepWf DEF u
<1>4. CASE u = v /\ v.exn # "none"
  BY <1>1, <1>4 DEF u
<1>5. CASE v.exn = "none" /\ (u = KeepStep(v, f) \/ u = DropStep(v))
  <2>1. Wf(v) /\ Len(v.step_stack) = Len(t.step_stack) /\ Len(v.step_stack) > 1
    BY <1>1, <1>5
  <2>2. Wf(KeepStep(v, f)) /\ Len(KeepStep(v, f).step_stack) = Len(v.step_stack) - 1
    BY <2>1, KeepStepWf
  <2>3. Wf(DropStep(v)) /\ Len(DropStep(v).step_stack) = Len(v.step_stack) - 1
    BY <2>1, DropStepWf
  <2> QED BY <1>5, <2>1, <2>2, <2>3 DEF u
<1> QED BY <1>2, <1>3, <1>4, <1>5

\* close_step ~check.
LEMMA CloseCheckedWf ==
  ASSUME NEW t, Wf(t), t.exn = "none", NEW f \in FlagValues, NEW depth \in Nat, depth > 1,
         NEW discard \in BOOLEAN
  PROVE  Wf(CloseChecked(t, f, depth, discard))
<1>1. CASE Len(t.step_stack) # depth
  <2> DEFINE u == [t EXCEPT !.exn = "trace"]
  <2>1. u \in Traces /\ u.step_stack = t.step_stack /\ u.next_step_id = t.next_step_id
    BY DEF Wf, Traces
  <2>2. Wf(u)
    BY <2>1, WfSameStack
  <2> QED BY <1>1, <2>2 DEF CloseChecked
<1>2. CASE Len(t.step_stack) = depth
  BY <1>2, CloseStepWf DEF CloseChecked
<1> QED BY <1>1, <1>2

\* The root step is the only one that is alone on the stack.
LEMMA NotRoot ==
  ASSUME NEW t, Wf(t), Top(t).kind # "root"
  PROVE  Len(t.step_stack) > 1
<1>1. t.step_stack \in Seq(Steps) /\ Len(t.step_stack) \in Nat /\ Len(t.step_stack) > 0
  BY TopOfWf
<1>2. Len(t.step_stack) \in DOMAIN t.step_stack
  BY <1>1
<1> QED BY <1>1, <1>2 DEF Wf, StackOK, Top, Last

\* The implicit closings of the steps of the script.
LEMMA CloseKindWf ==
  ASSUME NEW t, Wf(t), t.exn = "none", NEW f \in FlagValues, NEW kind \in {"small", "big"}
  PROVE  Wf(close_step_kind_if_needed(t, f, kind))
<1>1. CASE Top(t).kind = kind
  <2>1. Len(t.step_stack) > 1
    BY <1>1, NotRoot
  <2> QED BY <1>1, <2>1, CloseStepWf DEF close_step_kind_if_needed
<1>2. CASE Top(t).kind # kind
  BY <1>2 DEF close_step_kind_if_needed
<1> QED BY <1>1, <1>2

LEMMA CloseBigstepWf ==
  ASSUME NEW t, Wf(t), t.exn = "none", NEW f \in FlagValues
  PROVE  Wf(close_bigstep_if_needed(t, f))
<1> DEFINE u == close_step_kind_if_needed(t, f, "small")
<1>1. Wf(u)
  BY CloseKindWf
<1>2. close_bigstep_if_needed(t, f)
        = IF u.exn = "none" THEN close_step_kind_if_needed(u, f, "big") ELSE u
  BY DEF close_bigstep_if_needed, Then
<1> HIDE DEF u
<1>3. u.exn = "none" => Wf(close_step_kind_if_needed(u, f, "big"))
  BY <1>1, CloseKindWf
<1> QED BY <1>1, <1>2, <1>3

\* Printing and parsing the program again.
LEMMA ReparseWf ==
  ASSUME NEW t, Wf(t)
  PROVE  Wf(reparse(t)) /\ reparse(t).exn = t.exn
<1> DEFINE u == PutNew(t, t.cur_ast.code, "none", FALSE)
           v == LeafStep(u, "io", t.cur_ast, u.cur_ast, TRUE)
<1>1. t.cur_ast \in Asts /\ t.cur_ast.code \in Codes /\ "io" \in Kinds
  BY DEF Wf, Traces, Asts, Kinds
<1>2. Wf(u) /\ u.exn = t.exn
  BY <1>1, PutNewWf
<1>3. u.cur_ast \in Asts
  BY <1>2 DEF Wf, Traces
<1>4. reparse(t) = PutBack(v, u.cur_ast, FALSE)
  BY DEF reparse
<1> HIDE DEF u
<1>5. Wf(v) /\ v.exn = u.exn
  BY <1>1, <1>2, <1>3, LeafStepWf
<1> HIDE DEF v
<1>6. Wf(PutBack(v, u.cur_ast, FALSE)) /\ PutBack(v, u.cur_ast, FALSE).exn = v.exn
  BY <1>3, <1>5, PutBackWf
<1> QED BY <1>2, <1>4, <1>5, <1>6

\* A transformation that only puts an AST back, as a step of its own.
LEMMA RestoreStepWf ==
  ASSUME NEW t, Wf(t), t.exn = "none", NEW f \in FlagValues, NEW ast \in Asts,
         NEW typed \in BOOLEAN
  PROVE  Wf(close_step(PutBack(open_step(t, f, "transfo", FALSE, FALSE), ast, typed),
                       f, FALSE, FALSE))
<1> DEFINE u == open_step(t, f, "transfo", FALSE, FALSE)
           v == PutBack(u, ast, typed)
<1>1. "transfo" \in Kinds \ {"root"}
  BY DEF Kinds
<1>2. Wf(u) /\ u.exn = "none" /\ Len(u.step_stack) = Len(t.step_stack) + 1
  <2>1. \A b, c \in BOOLEAN :
          LET w == open_step(t, f, "transfo", b, c)
          IN Wf(w) /\ w.exn = t.exn /\ Len(w.step_stack) = Len(t.step_stack) + 1
    BY <1>1, OpenStepWf
  <2> QED BY <2>1
<1>3. Len(t.step_stack) \in Nat /\ Len(t.step_stack) > 0
  BY TopOfWf
<1> HIDE DEF u
<1>4. Wf(v) /\ v.exn = "none" /\ v.step_stack = u.step_stack
  BY <1>2, PutBackWf
<1> HIDE DEF v
<1>5. Len(v.step_stack) > 1
  BY <1>2, <1>3, <1>4
<1>6. Wf(close_step(v, f, FALSE, FALSE))
  BY <1>4, <1>5, CloseStepWf
<1> QED BY <1>6 DEF u, v

\* An exception that has been handled.
LEMMA ClearExnWf ==
  ASSUME NEW t, Wf(t)
  PROVE  LET u == [t EXCEPT !.exn = "none"]
         IN Wf(u) /\ u.exn = "none" /\ u.step_stack = t.step_stack
<1> DEFINE u == [t EXCEPT !.exn = "none"]
<1>1. /\ u \in Traces /\ u.exn = "none"
      /\ u.step_stack = t.step_stack /\ u.next_step_id = t.next_step_id
  BY DEF Wf, Traces
<1> QED BY <1>1, WfSameStack

-----------------------------------------------------------------------------
(* The steps that stay open, the steps recorded, and the current AST.       *)

\* check_validity is the same from one end of the script to the other.
ValidityFixed == ~CheckValidity \/ Features \cap {"trustme", "unchecked"} = {}
FixedFlags(f) == ValidityFixed => f.check_validity = CheckValidity

\* A recorded step that undid its edits starts and ends on the same AST.
Neutral(s) == s.kind = "backtrack" /\ s.granted /\ ~WithModels => s.before = s.after

SubsGood(step) ==
  \A j \in DOMAIN step.sub :
    step.sub[j].kind \in MayContain(step.kind) /\ Neutral(step.sub[j])

StackGood(stack) ==
  \A i \in DOMAIN stack :
    /\ SubsGood(stack[i]) /\ FixedFlags(stack[i])
    /\ i > 1 => stack[i].kind \in MayContain(stack[i - 1].kind)

Good(t) == Wf(t) /\ StackGood(t.step_stack)

\* The validity of a region that is undone is only given when it is closed.
Ungranted(stack, n) ==
  \A i \in 1..n : stack[i].kind = "backtrack" /\ stack[i].granted => WithModels

\* What only the closing of an open step changes of it.
Kept(x, y) ==
  y.kind = x.kind /\ y.before = x.before /\ y.check_validity = x.check_validity

SameSteps(s, r, n) == n <= Len(s) /\ n <= Len(r) /\ \A i \in 1..n : Kept(s[i], r[i])

\* r is s with x in the place of its last step.
LastReplaced(s, r, x) ==
  LET n == Len(s)
  IN Len(r) = n /\ SameSteps(s, r, n) /\ r[n] = x /\ \A i \in 1..(n - 1) : r[i] = s[i]

\* The same steps are open in u as in t; more are; the innermost one is closed.
SameStack(t, u) ==
  LET n == Len(t.step_stack)
  IN /\ Len(u.step_stack) = n /\ SameSteps(t.step_stack, u.step_stack, n)
     /\ Ungranted(t.step_stack, n) => Ungranted(u.step_stack, n)

MoreSteps(t, u) ==
  /\ SameSteps(t.step_stack, u.step_stack, Len(t.step_stack))
  /\ Ungranted(t.step_stack, Len(t.step_stack)) => Ungranted(u.step_stack, Len(u.step_stack))

StepClosed(t, u) ==
  LET n == Len(t.step_stack) - 1
  IN /\ Len(u.step_stack) = n /\ SameSteps(t.step_stack, u.step_stack, n)
     /\ Ungranted(t.step_stack, n) => Ungranted(u.step_stack, n)

\* The flag cur_ast_typed tells the truth.
AstTyped(typed, ast) == typed => ast.ann = "typed"
Typed(t) == AstTyped(t.cur_ast_typed, t.cur_ast)

\* The program is the same, and it keeps its resources unless an exception is raised.
SameProgram(t, u) ==
  /\ u.cur_ast.code = t.cur_ast.code
  /\ Typed(t) => Typed(u)
  /\ u.exn = "none" /\ t.cur_ast.ann = "typed" => u.cur_ast.ann = "typed"

-----------------------------------------------------------------------------
(* What is kept of a stack.                                                 *)

\* The kinds that may be recorded or opened anywhere.
LEMMA AnywhereKinds ==
  ASSUME NEW kind \in Kinds \ {"root", "big", "small"}, NEW parent
  PROVE  kind \in MayContain(parent)
BY DEF MayContain

\* Changing the innermost open step.
LEMMA ReplaceTopGood ==
  ASSUME NEW t, Good(t), NEW x \in Steps, Kept(Top(t), x), SubsGood(x),
         NEW u, u.step_stack = Append(Front(t.step_stack), x)
  PROVE  /\ StackGood(u.step_stack) /\ Top(u) = x
         /\ LastReplaced(t.step_stack, u.step_stack, x)
<1> DEFINE s == t.step_stack
           r == u.step_stack
           n == Len(s)
<1>1. s \in Seq(Steps) /\ s # <<>> /\ n \in Nat /\ n > 0
  BY TopOfWf DEF Good
<1>2. /\ r \in Seq(Steps) /\ Len(r) = n /\ r[n] = x /\ Last(r) = x
      /\ \A i \in 1..(n - 1) : r[i] = s[i]
  BY <1>1, ReplaceLast
<1>3. Top(t) = s[n] /\ StackGood(s)
  BY DEF Top, Last, Good
<1>a. n = Len(s) /\ DOMAIN s = 1..n /\ DOMAIN r = 1..n
  BY <1>1, <1>2
<1> HIDE DEF s, r, n
<1>4. \A i \in 1..n : Kept(s[i], r[i])
  <2> TAKE i \in 1..n
  <2>1. CASE i = n
    BY <2>1, <1>2, <1>3
  <2>2. CASE i # n
    <3>1. i \in 1..(n - 1)
      BY <2>2, <1>1
    <3> QED BY <3>1, <1>2 DEF Kept
  <2> QED BY <2>1, <2>2
<1>5. \A i \in 1..n : SubsGood(r[i])
  <2> TAKE i \in 1..n
  <2>1. CASE i = n
    BY <2>1, <1>2
  <2>2. CASE i # n
    <3>1. i \in 1..(n - 1) /\ i \in DOMAIN s
      BY <2>2, <1>1, <1>a
    <3> QED BY <3>1, <1>2, <1>3 DEF StackGood
  <2> QED BY <2>1, <2>2
<1>6. StackGood(r)
  <2> SUFFICES ASSUME NEW i \in 1..n
               PROVE  /\ FixedFlags(r[i])
                      /\ i > 1 => r[i].kind \in MayContain(r[i - 1].kind)
    BY <1>5, <1>a DEF StackGood
  <2>1. i \in DOMAIN s /\ (i > 1 => i - 1 \in 1..n)
    BY <1>1, <1>a
  <2> QED BY <2>1, <1>3, <1>4 DEF StackGood, Kept, FixedFlags
<1>7. SameSteps(s, r, n)
  BY <1>1, <1>2, <1>4, <1>a DEF SameSteps
<1>8. LastReplaced(s, r, x)
  BY <1>2, <1>7, <1>a DEF LastReplaced
<1> QED BY <1>2, <1>6, <1>8 DEF s, r, Top

\* Opening a step on top of the stack.
LEMMA PushGood ==
  ASSUME NEW s \in Seq(Steps), s # <<>>, StackGood(s),
         NEW x \in Steps, x.sub = <<>>, FixedFlags(x), x.kind \in MayContain(Last(s).kind)
  PROVE  /\ StackGood(Append(s, x)) /\ Len(Append(s, x)) = Len(s) + 1
         /\ SameSteps(s, Append(s, x), Len(s))
         /\ \A i \in 1..Len(s) : Append(s, x)[i] = s[i]
         /\ Append(s, x)[Len(s) + 1] = x
<1> DEFINE r == Append(s, x)
           n == Len(s)
<1>1. /\ n \in Nat /\ n > 0 /\ r \in Seq(Steps) /\ Len(r) = n + 1
      /\ r[n + 1] = x /\ \A i \in 1..n : r[i] = s[i]
  BY LenProperties
<1>2. Last(s) = s[n] /\ SubsGood(x)
  BY DEF Last, SubsGood
<1> HIDE DEF r, n
<1>3. DOMAIN s = 1..n /\ DOMAIN r = 1..(n + 1)
  BY <1>1 DEF n
<1>4. StackGood(r)
  <2> SUFFICES ASSUME NEW i \in 1..(n + 1)
               PROVE  /\ SubsGood(r[i]) /\ FixedFlags(r[i])
                      /\ i > 1 => r[i].kind \in MayContain(r[i - 1].kind)
    BY <1>3 DEF StackGood
  <2>1. CASE i = n + 1
    <3>1. i - 1 = n /\ n \in 1..n
      BY <2>1, <1>1
    <3> QED BY <2>1, <3>1, <1>1, <1>2
  <2>2. CASE i # n + 1
    <3>1. i \in 1..n /\ (i > 1 => i - 1 \in 1..n)
      BY <2>2, <1>1
    <3> QED BY <3>1, <1>1, <1>3 DEF StackGood
  <2> QED BY <2>1, <2>2
<1>5. SameSteps(s, r, n)
  BY <1>1 DEF SameSteps, Kept, n
<1> QED BY <1>1, <1>4, <1>5 DEF r, n

\* Leaving the innermost step out.
LEMMA PopGood ==
  ASSUME NEW s \in Seq(Steps), Len(s) > 1, StackGood(s)
  PROVE  /\ StackGood(Front(s)) /\ Len(Front(s)) = Len(s) - 1
         /\ SameSteps(s, Front(s), Len(s) - 1)
         /\ \A i \in 1..(Len(s) - 1) : Front(s)[i] = s[i]
         /\ Last(s).kind \in MayContain(Last(Front(s)).kind)
<1> DEFINE r == Front(s)
           n == Len(s)
<1>1. /\ n \in Nat /\ n > 1 /\ r \in Seq(Steps) /\ Len(r) = n - 1
      /\ \A i \in 1..(n - 1) : r[i] = s[i]
  <2>1. s # <<>>
    OBVIOUS
  <2> QED BY <2>1, FrontLast
<1>2. DOMAIN s = 1..n /\ DOMAIN r = 1..(n - 1)
  BY <1>1
<1>3. Last(s) = s[n] /\ Last(r) = s[n - 1]
  BY <1>1 DEF Last
<1> HIDE DEF r, n
<1>4. StackGood(r)
  <2> SUFFICES ASSUME NEW i \in 1..(n - 1)
               PROVE  /\ SubsGood(r[i]) /\ FixedFlags(r[i])
                      /\ i > 1 => r[i].kind \in MayContain(r[i - 1].kind)
    BY <1>2 DEF StackGood
  <2>1. i \in 1..n /\ (i > 1 => i - 1 \in 1..(n - 1))
    BY <1>1
  <2> QED BY <2>1, <1>1, <1>2 DEF StackGood
<1>5. SameSteps(s, r, n - 1)
  <2>1. n - 1 <= Len(s)
    BY <1>1 DEF n
  <2> QED BY <1>1, <2>1 DEF SameSteps, Kept
<1>6. Last(s).kind \in MayContain(Last(r).kind)
  <2>1. n \in 1..n /\ n > 1
    BY <1>1
  <2> QED BY <2>1, <1>2, <1>3 DEF StackGood
<1> QED BY <1>1, <1>4, <1>5, <1>6 DEF r, n

-----------------------------------------------------------------------------
(* What the operators that change the_trace keep.                           *)

\* Nothing that StackGood reads has changed.
LEMMA SameStackGood ==
  ASSUME NEW t, Good(t), NEW u, Wf(u), u.step_stack = t.step_stack
  PROVE  Good(u) /\ SameStack(t, u)
<1>1. Len(t.step_stack) \in Nat
  BY TopOfWf DEF Good
<1> QED BY <1>1 DEF Good, SameStack, SameSteps, Kept

LEMMA OpenStepGood ==
  ASSUME NEW t, Good(t), NEW f \in FlagValues, FixedFlags(f),
         NEW kind \in MayContain(Top(t).kind), NEW valid \in BOOLEAN, NEW show \in BOOLEAN
  PROVE  LET u == open_step(t, f, kind, valid, show)
         IN /\ Good(u) /\ u.exn = t.exn /\ Len(u.step_stack) = Len(t.step_stack) + 1
            /\ SameSteps(t.step_stack, u.step_stack, Len(t.step_stack))
            /\ \A i \in 1..Len(t.step_stack) : u.step_stack[i] = t.step_stack[i]
            /\ Top(u).kind = kind /\ Top(u) = u.step_stack[Len(t.step_stack) + 1]
            /\ Top(u).before = t.cur_ast /\ Top(u).granted = valid
            /\ Top(u).check_validity = f.check_validity
            /\ (kind = "backtrack" => ~valid) =>
                 (Ungranted(t.step_stack, Len(t.step_stack)) =>
                    Ungranted(u.step_stack, Len(u.step_stack)))
            /\ u.cur_ast = t.cur_ast /\ u.cur_ast_typed = t.cur_ast_typed
<1> DEFINE u == open_step(t, f, kind, valid, show)
           x == [id |-> t.next_step_id, kind |-> kind, before |-> t.cur_ast, sub |-> <<>>,
                 valid |-> valid, granted |-> valid, check_validity |-> f.check_validity,
                 show |-> show]
           s == t.step_stack
           n == Len(s)
<1>1. t \in Traces /\ s \in Seq(Steps) /\ s # <<>> /\ n \in Nat /\ n > 0 /\ n = Len(s)
  BY TopOfWf DEF Good
<1>2. kind \in Kinds \ {"root"}
  BY DEF MayContain
<1>3. /\ Wf(u) /\ u.exn = t.exn /\ u.cur_ast = t.cur_ast /\ u.cur_ast_typed = t.cur_ast_typed
      /\ Len(u.step_stack) = n + 1
  BY <1>2, OpenStepWf DEF Good
<1>4. <<>> \in Seq(ClosedSteps)
  OBVIOUS
<1>5. /\ x \in Steps /\ x.kind = kind /\ x.sub = <<>> /\ x.before = t.cur_ast
      /\ x.granted = valid /\ x.check_validity = f.check_validity
  BY <1>1, <1>2, <1>4 DEF Steps, OpenSteps, Traces, FlagValues
<1>6. FixedFlags(x) /\ kind \in MayContain(Last(s).kind) /\ StackGood(s)
  BY <1>5 DEF FixedFlags, Top, Good
<1>7. u.step_stack = Append(s, x)
  BY <1>1 DEF open_step, Traces
<1> HIDE DEF x
<1>8. /\ StackGood(Append(s, x)) /\ SameSteps(s, Append(s, x), n)
      /\ \A i \in 1..n : Append(s, x)[i] = s[i]
      /\ Append(s, x)[n + 1] = x
  BY <1>1, <1>5, <1>6, PushGood
<1>9. Top(u) = x /\ u.step_stack[n + 1] = x
  BY <1>3, <1>7, <1>8 DEF Top, Last
<1> HIDE DEF u, s, n
<1>10. (kind = "backtrack" => ~valid) => (Ungranted(s, n) => Ungranted(u.step_stack, n + 1))
  <2> SUFFICES ASSUME kind = "backtrack" => ~valid, Ungranted(s, n), NEW i \in 1..(n + 1),
                      u.step_stack[i].kind = "backtrack", u.step_stack[i].granted
               PROVE  WithModels
    BY DEF Ungranted
  <2>1. i # n + 1
    BY <1>5, <1>9
  <2>2. i \in 1..n
    BY <2>1, <1>1
  <2> QED BY <2>2, <1>7, <1>8 DEF Ungranted
<1> QED BY <1>3, <1>5, <1>7, <1>8, <1>9, <1>10 DEF Good, u, s, n

\* The steps below the innermost one are not touched.
LEMMA JustifGood ==
  ASSUME NEW t, Good(t)
  PROVE  LET u == justif(t)
             n == Len(t.step_stack)
         IN /\ Good(u) /\ u.exn = t.exn /\ Len(u.step_stack) = n
            /\ SameSteps(t.step_stack, u.step_stack, n)
            /\ \A i \in 1..(n - 1) : u.step_stack[i] = t.step_stack[i]
            /\ Kept(Top(t), Top(u)) /\ u.step_stack[n] = Top(u)
            /\ (Top(t).kind = "backtrack" => WithModels) => SameStack(t, u)
            /\ u.cur_ast = t.cur_ast /\ u.cur_ast_typed = t.cur_ast_typed
<1> DEFINE u == justif(t)
           x == [Top(t) EXCEPT !.valid = TRUE, !.granted = TRUE]
           s == t.step_stack
           n == Len(s)
<1>1. t \in Traces /\ s \in Seq(Steps) /\ n \in Nat /\ n > 0 /\ n = Len(s) /\ Top(t) \in Steps
      /\ Top(t) = s[n] /\ StackGood(s)
  BY TopOfWf DEF Good, Top, Last
<1>2. Wf(u) /\ u.exn = t.exn /\ u.cur_ast = t.cur_ast
  BY JustifWf DEF Good
<1>3. u.step_stack = Append(Front(s), x) /\ u.cur_ast_typed = t.cur_ast_typed
  BY <1>1 DEF justif, WithTop, Traces
<1>4. x \in Steps /\ Kept(Top(t), x) /\ x.sub = Top(t).sub /\ x.kind = Top(t).kind
  BY <1>1 DEF Steps, OpenSteps, Kept
<1>5. SubsGood(x)
  <2>1. n \in DOMAIN s
    BY <1>1
  <2>2. SubsGood(Top(t))
    BY <2>1, <1>1 DEF StackGood
  <2> QED BY <2>2, <1>4 DEF SubsGood
<1> HIDE DEF x, u, s, n
<1>6. /\ StackGood(u.step_stack) /\ Top(u) = x /\ Len(u.step_stack) = n
      /\ SameSteps(s, u.step_stack, n)
      /\ \A i \in 1..(n - 1) : u.step_stack[i] = s[i]
      /\ u.step_stack[n] = x
  <2>1. x \in Steps /\ Kept(Top(t), x) /\ u.step_stack = Append(Front(t.step_stack), x)
    BY <1>3, <1>4 DEF s
  <2>2. /\ StackGood(u.step_stack) /\ Top(u) = x
        /\ LastReplaced(t.step_stack, u.step_stack, x)
    BY <1>5, <2>1, ReplaceTopGood
  <2> QED BY <2>2 DEF LastReplaced, s, n
<1>7. ASSUME Top(t).kind = "backtrack" => WithModels, Ungranted(s, n)
      PROVE  Ungranted(u.step_stack, n)
  <2> SUFFICES ASSUME NEW i \in 1..n, u.step_stack[i].kind = "backtrack", u.step_stack[i].granted
               PROVE  WithModels
    BY DEF Ungranted
  <2>1. CASE i = n
    BY <2>1, <1>4, <1>6, <1>7
  <2>2. CASE i # n
    <3>1. i \in 1..(n - 1)
      BY <2>2, <1>1
    <3> QED BY <3>1, <1>6, <1>7 DEF Ungranted
  <2> QED BY <2>1, <2>2
<1>8. (Top(t).kind = "backtrack" => WithModels) => SameStack(t, u)
  BY <1>6, <1>7 DEF SameStack, s, n
<1> QED BY <1>2, <1>3, <1>4, <1>6, <1>8 DEF Good, u, s, n

\* A step recorded in the innermost one.
LEMMA RecordGood ==
  ASSUME NEW t, Good(t), NEW closed \in ClosedSteps, Neutral(closed),
         closed.kind \in MayContain(Top(t).kind), NEW u, Wf(u),
         u.step_stack = Append(Front(t.step_stack), AddSub(Top(t), closed))
  PROVE  Good(u) /\ SameStack(t, u)
<1> DEFINE x == AddSub(Top(t), closed)
           s == t.step_stack
           n == Len(s)
<1>1. s \in Seq(Steps) /\ n \in Nat /\ n > 0 /\ n = Len(s) /\ Top(t) \in Steps /\ Top(t) = s[n]
      /\ StackGood(s)
  BY TopOfWf DEF Good, Top, Last
<1>2. /\ Top(t).sub \in Seq(ClosedSteps) /\ x.sub = Append(Top(t).sub, closed)
      /\ x \in Steps /\ Kept(Top(t), x) /\ x.granted = Top(t).granted /\ x.kind = Top(t).kind
  <2>1. Top(t).sub \in Seq(ClosedSteps) /\ Append(Top(t).sub, closed) \in Seq(ClosedSteps)
    BY <1>1 DEF Steps, OpenSteps
  <2> HIDE DEF s, n
  <2> QED BY <1>1, <2>1 DEF Steps, OpenSteps, AddSub, Kept
<1>3. SubsGood(x)
  <2>1. n \in DOMAIN s
    BY <1>1
  <2>2. SubsGood(Top(t))
    BY <2>1, <1>1 DEF StackGood
  <2> DEFINE m == Len(Top(t).sub)
  <2>3. /\ m \in Nat /\ DOMAIN Top(t).sub = 1..m /\ DOMAIN x.sub = 1..(m + 1)
        /\ x.sub[m + 1] = closed /\ \A j \in 1..m : x.sub[j] = Top(t).sub[j]
    <3> HIDE DEF x
    <3> QED BY <1>2
  <2> HIDE DEF m, x
  <2> SUFFICES ASSUME NEW j \in 1..(m + 1)
               PROVE  x.sub[j].kind \in MayContain(x.kind) /\ Neutral(x.sub[j])
    BY <2>3 DEF SubsGood
  <2>4. CASE j = m + 1
    BY <2>3, <2>4, <1>2
  <2>5. CASE j # m + 1
    <3>1. j \in 1..m
      BY <2>3, <2>5
    <3> QED BY <3>1, <2>2, <2>3, <1>2 DEF SubsGood
  <2> QED BY <2>4, <2>5
<1> HIDE DEF x
<1>4. u.step_stack = Append(Front(t.step_stack), x)
  BY DEF x
<1> HIDE DEF s, n
<1>5. /\ StackGood(u.step_stack) /\ Len(u.step_stack) = n
      /\ SameSteps(s, u.step_stack, n)
      /\ \A i \in 1..(n - 1) : u.step_stack[i] = s[i]
      /\ u.step_stack[n] = x
  <2>1. x \in Steps /\ Kept(Top(t), x)
    BY <1>2
  <2>2. StackGood(u.step_stack) /\ LastReplaced(t.step_stack, u.step_stack, x)
    BY <1>3, <1>4, <2>1, ReplaceTopGood
  <2> QED BY <2>2 DEF LastReplaced, s, n
<1>6. ASSUME Ungranted(s, n), NEW i \in 1..n,
             u.step_stack[i].kind = "backtrack", u.step_stack[i].granted
      PROVE  WithModels
  <2>1. CASE i = n
    BY <2>1, <1>1, <1>2, <1>5, <1>6 DEF Ungranted
  <2>2. CASE i # n
    <3>1. i \in 1..(n - 1)
      BY <2>2, <1>1
    <3> QED BY <3>1, <1>5, <1>6 DEF Ungranted
  <2> QED BY <2>1, <2>2
<1>7. Ungranted(s, n) => Ungranted(u.step_stack, n)
  BY <1>6 DEF Ungranted
<1> QED BY <1>5, <1>7 DEF Good, SameStack, s, n

LEMMA LeafStepGood ==
  ASSUME NEW t, Good(t), NEW kind \in Kinds \ {"root", "big", "small", "backtrack"},
         NEW before \in Asts, NEW after \in Asts, NEW valid \in BOOLEAN
  PROVE  LET u == LeafStep(t, kind, before, after, valid)
         IN /\ Good(u) /\ u.exn = t.exn /\ SameStack(t, u)
            /\ u.cur_ast = t.cur_ast /\ u.cur_ast_typed = t.cur_ast_typed
<1> DEFINE u == LeafStep(t, kind, before, after, valid)
           closed == [id |-> t.next_step_id, last |-> t.next_step_id, kind |-> kind,
                      before |-> before, after |-> after, valid |-> valid, granted |-> valid,
                      show |-> FALSE, extractable |-> kind = "show", grounded |-> TRUE]
<1>1. /\ Wf(u) /\ u.exn = t.exn /\ u.cur_ast = t.cur_ast /\ u.cur_ast_typed = t.cur_ast_typed
  BY LeafStepWf DEF Good
<1>2. CASE ~step_should_be_kept_in_trace(kind)
  <2>1. u.step_stack = t.step_stack
    BY <1>2 DEF LeafStep
  <2> QED BY <1>1, <2>1, SameStackGood
<1>3. CASE step_should_be_kept_in_trace(kind)
  <2>1. t.next_step_id \in Nat /\ t \in Traces
    BY DEF Good, Wf, Traces
  <2>2. closed \in ClosedSteps /\ closed.kind = kind
    BY <2>1 DEF ClosedSteps
  <2>3. u.step_stack = Append(Front(t.step_stack), AddSub(Top(t), closed))
    BY <1>3, <2>1 DEF LeafStep, WithTop, Traces
  <2> HIDE DEF u, closed
  <2>4. Neutral(closed) /\ closed.kind \in MayContain(Top(t).kind)
    BY <2>2, AnywhereKinds DEF Neutral
  <2>5. Good(u) /\ SameStack(t, u)
    BY <1>1, <2>2, <2>3, <2>4, RecordGood
  <2> QED BY <1>1, <2>5 DEF u
<1> QED BY <1>2, <1>3

\* A program whose typing succeeds, or needs none, is typed without an exception; the
\* step of a typing that fails stays open.
LEMMA RecomputeGood ==
  ASSUME NEW t, Good(t), t.exn = "none", NEW f \in FlagValues, FixedFlags(f)
  PROVE  LET u == recompute_resources(t, f)
         IN /\ Good(u) /\ u.exn \in {"none", "resource"} /\ SameProgram(t, u)
            /\ MoreSteps(t, u) /\ (u.exn = "none" => SameStack(t, u))
            /\ t.cur_ast.code \in Typable => u.exn = "none"
<1> DEFINE s == t.step_stack
           n == Len(s)
<1>1. /\ t \in Traces /\ t.cur_ast \in Asts /\ t.cur_ast.code \in Codes
      /\ s \in Seq(Steps) /\ n \in Nat /\ n = Len(s)
  BY TopOfWf DEF Good, Wf, Traces, Asts
<1>2. \A u : SameStack(t, u) => MoreSteps(t, u)
  BY <1>1 DEF SameStack, MoreSteps
<1>3. CASE t.cur_ast_typed
  <2>1. recompute_resources(t, f) = t
    BY <1>3 DEF recompute_resources
  <2>2. SameStack(t, t) /\ SameProgram(t, t)
    BY <1>1 DEF SameStack, SameSteps, Kept, SameProgram
  <2> QED BY <1>2, <2>1, <2>2
<1>4. CASE ~t.cur_ast_typed /\ t.cur_ast.code \in Typable
  <2> DEFINE u == PutNew(t, t.cur_ast.code, "typed", TRUE)
             v == LeafStep(u, "typing", t.cur_ast, u.cur_ast, TRUE)
  <2>1. /\ u.cur_ast.code = t.cur_ast.code /\ u.cur_ast.ann = "typed"
        /\ u.step_stack = s /\ u.exn = "none"
    BY <1>1 DEF PutNew, Traces
  <2>2. Wf(u)
    BY <1>1, PutNewWf DEF Good
  <2>3. u.cur_ast \in Asts /\ "typing" \in Kinds \ {"root", "big", "small", "backtrack"}
    BY <2>2 DEF Wf, Traces, Kinds
  <2>4. recompute_resources(t, f) = v
    BY <1>4 DEF recompute_resources
  <2> HIDE DEF u
  <2>5. Good(u)
    BY <2>1, <2>2, SameStackGood
  <2>6. /\ Good(v) /\ v.exn = u.exn /\ SameStack(u, v)
        /\ v.cur_ast = u.cur_ast /\ v.cur_ast_typed = u.cur_ast_typed
    BY <1>1, <2>3, <2>5, LeafStepGood
  <2> HIDE DEF v
  <2>7. SameStack(t, v) /\ SameProgram(t, v)
    BY <2>1, <2>6 DEF SameStack, SameProgram, Typed, AstTyped
  <2> QED BY <1>2, <2>1, <2>4, <2>6, <2>7
<1>5. CASE ~t.cur_ast_typed /\ t.cur_ast.code \notin Typable
  <2> DEFINE u == open_step(t, f, "typing", TRUE, FALSE)
             v == PutNew(u, t.cur_ast.code, "error", FALSE)
             w == [v EXCEPT !.exn = "resource"]
  <2>1. "typing" \in MayContain(Top(t).kind)
    BY AnywhereKinds DEF Kinds
  <2>2. /\ Good(u) /\ SameSteps(s, u.step_stack, n)
        /\ Ungranted(s, n) => Ungranted(u.step_stack, Len(u.step_stack))
    <3>1. \A b, c \in BOOLEAN :
            LET x == open_step(t, f, "typing", b, c)
            IN /\ Good(x) /\ SameSteps(s, x.step_stack, n)
               /\ Ungranted(s, n) => Ungranted(x.step_stack, Len(x.step_stack))
      BY <2>1, OpenStepGood
    <3> QED BY <3>1
  <2>3. recompute_resources(t, f) = w
    BY <1>5 DEF recompute_resources
  <2> HIDE DEF u
  <2>4. Wf(v) /\ v.step_stack = u.step_stack
    BY <1>1, <2>2, PutNewWf DEF Good
  <2>5. v.cur_ast.code = t.cur_ast.code /\ v.cur_ast_typed = FALSE
    BY <2>2 DEF PutNew, Good, Wf, Traces
  <2> HIDE DEF v
  <2>6. /\ w \in Traces /\ w.exn = "resource" /\ w.step_stack = v.step_stack
        /\ w.next_step_id = v.next_step_id /\ w.cur_ast = v.cur_ast
        /\ w.cur_ast_typed = v.cur_ast_typed
    BY <2>4 DEF Wf, Traces
  <2> HIDE DEF w
  <2>7. Wf(w)
    BY <2>4, <2>6, WfSameStack
  <2>8. Good(w)
    BY <2>2, <2>4, <2>6, <2>7, SameStackGood
  <2>9. MoreSteps(t, w) /\ SameProgram(t, w)
    BY <2>2, <2>4, <2>5, <2>6 DEF MoreSteps, SameProgram, Typed, AstTyped
  <2> QED BY <1>5, <2>3, <2>6, <2>8, <2>9
<1> QED BY <1>3, <1>4, <1>5

-----------------------------------------------------------------------------
(* What closing a step keeps.                                               *)

\* finalize_step may type the program; it raises when typing fails, or when
\* check_validity is not what it was when the step was opened.
LEMMA FinalizeStepGood ==
  ASSUME NEW t, Good(t), t.exn = "none", NEW f \in FlagValues, FixedFlags(f),
         NEW on_error \in BOOLEAN
  PROVE  LET u == finalize_step(t, f, on_error)
         IN /\ Good(u) /\ SameProgram(t, u)
            /\ MoreSteps(t, u) /\ (u.exn = "none" => SameStack(t, u))
            /\ ~f.recompute => u.cur_ast = t.cur_ast /\ u.step_stack = t.step_stack
            /\ f.check_validity = Top(t).check_validity => u.exn # "trace"
            /\ (~f.recompute \/ t.cur_ast.code \in Typable) =>
                 u.exn = "none" \/ u.exn = "trace"
<1> DEFINE r == recompute_resources(t, f)
           j == justif(r)
           typed == FinalTyping(t, f)
           u == finalize_step(t, f, on_error)
           n == Len(t.step_stack)
<1>1. t \in Traces /\ n \in Nat /\ n > 0 /\ n = Len(t.step_stack) /\ Top(t) = t.step_stack[n]
  BY TopOfWf DEF Good, Top, Last
<1>2. SameStack(t, t) /\ MoreSteps(t, t) /\ SameProgram(t, t)
  BY <1>1 DEF SameStack, MoreSteps, SameSteps, Kept, SameProgram
<1>3. /\ Good(r) /\ r.exn \in {"none", "resource"} /\ SameProgram(t, r)
      /\ MoreSteps(t, r) /\ (r.exn = "none" => SameStack(t, r))
      /\ t.cur_ast.code \in Typable => r.exn = "none"
  BY RecomputeGood
<1>4. typed = t \/ (f.recompute /\ (typed = r \/ (r.exn = "none" /\ WithModels /\ typed = j)))
  BY DEF FinalTyping, Then
<1>5. u = typed \/ (typed.exn = "none" /\ f.check_validity # Top(typed).check_validity
                      /\ u = [typed EXCEPT !.exn = "trace"])
  BY DEF finalize_step, Then, FinalCheck
<1>6. r.exn = "none" /\ WithModels =>
        /\ Good(j) /\ j.exn = "none" /\ SameStack(t, j) /\ MoreSteps(t, j) /\ SameProgram(t, j)
  <2> HIDE DEF r
  <2> SUFFICES ASSUME r.exn = "none", WithModels
               PROVE  /\ Good(j) /\ j.exn = "none" /\ SameStack(t, j)
                      /\ MoreSteps(t, j) /\ SameProgram(t, j)
    OBVIOUS
  <2>1. /\ Good(j) /\ j.exn = r.exn /\ SameStack(r, j)
        /\ j.cur_ast = r.cur_ast /\ j.cur_ast_typed = r.cur_ast_typed
    BY <1>3, JustifGood
  <2> HIDE DEF j
  <2>2. SameStack(t, j)
    BY <1>1, <1>3, <2>1 DEF SameStack, SameSteps, Kept
  <2>3. MoreSteps(t, j)
    BY <1>1, <2>2 DEF SameStack, MoreSteps
  <2>4. SameProgram(t, j)
    BY <1>3, <2>1 DEF SameProgram, Typed, AstTyped
  <2> QED BY <2>1, <2>2, <2>3, <2>4
<1> HIDE DEF r, j, typed
<1>7. /\ Good(typed) /\ typed.exn \in {"none", "resource"} /\ SameProgram(t, typed)
      /\ MoreSteps(t, typed) /\ (typed.exn = "none" => SameStack(t, typed))
      /\ (~f.recompute => typed = t)
      /\ (~f.recompute \/ t.cur_ast.code \in Typable) => typed.exn = "none"
  BY <1>2, <1>3, <1>4, <1>6
<1>8. typed.exn = "none" => Top(typed).check_validity = Top(t).check_validity
  <2> SUFFICES ASSUME typed.exn = "none"
               PROVE  Top(typed).check_validity = Top(t).check_validity
    OBVIOUS
  <2>1. Len(typed.step_stack) = n /\ Kept(t.step_stack[n], typed.step_stack[n])
    BY <1>1, <1>7 DEF SameStack, SameSteps
  <2> QED BY <1>1, <2>1 DEF Kept, Top, Last
<1> HIDE DEF u
<1>9. CASE u = typed
  BY <1>7, <1>9 DEF u
<1>10. CASE typed.exn = "none" /\ f.check_validity # Top(typed).check_validity
            /\ u = [typed EXCEPT !.exn = "trace"]
  <2>1. /\ u \in Traces /\ u.exn = "trace" /\ u.step_stack = typed.step_stack
        /\ u.next_step_id = typed.next_step_id
        /\ u.cur_ast = typed.cur_ast /\ u.cur_ast_typed = typed.cur_ast_typed
    BY <1>7, <1>10 DEF Good, Wf, Traces
  <2>2. Wf(u)
    BY <1>7, <2>1, WfSameStack DEF Good
  <2>3. Good(u)
    BY <1>7, <2>1, <2>2, SameStackGood
  <2>4. SameProgram(t, u)
    BY <1>7, <2>1 DEF SameProgram, Typed, AstTyped
  <2>5. MoreSteps(t, u)
    BY <1>7, <2>1 DEF MoreSteps
  <2> QED BY <1>7, <1>8, <1>10, <2>1, <2>3, <2>4, <2>5 DEF u
<1> QED BY <1>5, <1>9, <1>10

\* The innermost step may be recorded: no region is granted, or it has undone its edits.
Closable(t, f) ==
  \/ Ungranted(t.step_stack, Len(t.step_stack))
  \/ ~f.recompute /\ Top(t).before = t.cur_ast

\* A step that is not kept.
LEMMA DropStepGood ==
  ASSUME NEW t, Good(t), Len(t.step_stack) > 1
  PROVE  LET u == DropStep(t)
         IN /\ Good(u) /\ StepClosed(t, u) /\ u.exn = t.exn
            /\ u.cur_ast = t.cur_ast /\ u.cur_ast_typed = t.cur_ast_typed
            /\ u.step_stack = Front(t.step_stack)
            /\ Top(t).kind \in MayContain(Top(u).kind)
<1> DEFINE u == DropStep(t)
           s == t.step_stack
           n == Len(s)
<1>1. t \in Traces /\ s \in Seq(Steps) /\ n > 1 /\ n \in Nat /\ StackGood(s)
  BY TopOfWf DEF Good
<1>2. Wf(u) /\ u.exn = t.exn
  BY DropStepWf DEF Good
<1>3. /\ u.step_stack = Front(s) /\ u.cur_ast = t.cur_ast
      /\ u.cur_ast_typed = t.cur_ast_typed
  BY <1>1 DEF DropStep, PopStep, Traces
<1>4. /\ StackGood(Front(s)) /\ Len(Front(s)) = n - 1 /\ SameSteps(s, Front(s), n - 1)
      /\ \A i \in 1..(n - 1) : Front(s)[i] = s[i]
      /\ Last(s).kind \in MayContain(Last(Front(s)).kind)
  BY <1>1, PopGood
<1> HIDE DEF u
<1>5. StepClosed(t, u)
  BY <1>3, <1>4 DEF StepClosed, Ungranted
<1> QED BY <1>2, <1>3, <1>4, <1>5 DEF Good, Top, u

\* A step that is kept, recorded in the one around it.
LEMMA KeepStepGood ==
  ASSUME NEW t, Good(t), NEW f \in FlagValues, Len(t.step_stack) > 1,
         \/ Ungranted(t.step_stack, Len(t.step_stack))
         \/ Top(t).before = t.cur_ast
  PROVE  LET u == KeepStep(t, f)
         IN /\ Good(u) /\ StepClosed(t, u) /\ u.exn = t.exn
            /\ u.cur_ast = t.cur_ast /\ u.cur_ast_typed = t.cur_ast_typed
<1> DEFINE u == KeepStep(t, f)
           p == DropStep(t)
           closed == ClosedStep(t, f)
           n == Len(t.step_stack)
<1>1. t \in Traces /\ t.step_stack \in Seq(Steps) /\ n \in Nat /\ n > 1 /\ n = Len(t.step_stack)
      /\ Top(t) = t.step_stack[n]
  BY TopOfWf DEF Good, Top, Last
<1>2. Wf(u) /\ u.exn = t.exn
  BY KeepStepWf DEF Good
<1>3. /\ closed \in ClosedSteps /\ closed.kind = Top(t).kind /\ closed.before = Top(t).before
      /\ closed.after = t.cur_ast /\ closed.granted = Top(t).granted
  BY ClosedStepType DEF ClosedStep, Good
<1>4. /\ Good(p) /\ StepClosed(t, p) /\ p.step_stack = Front(t.step_stack)
      /\ Top(t).kind \in MayContain(Top(p).kind)
  BY <1>1, DropStepGood
<1>5. Neutral(closed)
  <2>1. CASE Top(t).before = t.cur_ast
    BY <1>3, <2>1 DEF Neutral
  <2>2. CASE Ungranted(t.step_stack, n)
    <3>1. n \in 1..n
      BY <1>1
    <3> QED BY <1>1, <1>3, <2>2, <3>1 DEF Ungranted, Neutral
  <2> QED BY <2>1, <2>2
<1>6. /\ u.step_stack = Append(Front(p.step_stack), AddSub(Top(p), closed))
      /\ u.cur_ast = t.cur_ast /\ u.cur_ast_typed = t.cur_ast_typed
  <2>1. PopStep(t).step_stack = p.step_stack /\ PopStep(t) \in
          [next_step_id : {t.next_step_id}, next_ver : {t.next_ver}, cur_ast : {t.cur_ast},
           cur_ast_typed : {t.cur_ast_typed}, step_stack : {p.step_stack}, exn : {t.exn}]
    BY <1>1, <1>4 DEF PopStep, Traces
  <2> HIDE DEF p, closed
  <2>2. Top(PopStep(t)) = Top(p)
    BY <2>1 DEF Top
  <2> QED BY <2>1, <2>2 DEF KeepStep, WithTop, closed
<1> HIDE DEF u, p, closed
<1>7. Good(u) /\ SameStack(p, u)
  BY <1>2, <1>3, <1>4, <1>5, <1>6, RecordGood
<1>8. StepClosed(t, u)
  BY <1>1, <1>4, <1>7 DEF StepClosed, SameStack, SameSteps, Kept
<1> QED BY <1>2, <1>6, <1>7, <1>8 DEF u

\* close_step keeps the program.  It raises when the program must be typed and cannot be,
\* or when check_validity has changed since the step was opened.
LEMMA CloseStepGood ==
  ASSUME NEW t, Good(t), t.exn = "none", Len(t.step_stack) > 1,
         NEW f \in FlagValues, FixedFlags(f), Closable(t, f),
         NEW discard \in BOOLEAN, NEW on_error \in BOOLEAN
  PROVE  LET u == close_step(t, f, discard, on_error)
         IN /\ Good(u) /\ SameProgram(t, u)
            /\ IF u.exn = "none" THEN StepClosed(t, u) ELSE MoreSteps(t, u)
            /\ ~f.recompute => u.cur_ast = t.cur_ast
            /\ f.check_validity = Top(t).check_validity => u.exn # "trace"
            /\ (~f.recompute \/ t.cur_ast.code \in Typable) =>
                 u.exn = "none" \/ u.exn = "trace"
<1> DEFINE v == finalize_step(t, f, on_error)
           u == close_step(t, f, discard, on_error)
           n == Len(t.step_stack)
<1>1. t \in Traces /\ n \in Nat /\ n > 1 /\ n = Len(t.step_stack) /\ Top(t) = t.step_stack[n]
  BY TopOfWf DEF Good, Top, Last
<1>2. /\ Good(v) /\ SameProgram(t, v)
      /\ MoreSteps(t, v) /\ (v.exn = "none" => SameStack(t, v))
      /\ ~f.recompute => v.cur_ast = t.cur_ast /\ v.step_stack = t.step_stack
      /\ f.check_validity = Top(t).check_validity => v.exn # "trace"
      /\ (~f.recompute \/ t.cur_ast.code \in Typable) =>
           v.exn = "none" \/ v.exn = "trace"
  BY FinalizeStepGood
<1>3. \/ u = DropStep(t)
      \/ u = v /\ v.exn # "none"
      \/ v.exn = "none" /\ (u = KeepStep(v, f) \/ u = DropStep(v))
  BY DEF close_step, Then
<1> HIDE DEF v, u
<1>4. CASE u = DropStep(t)
  <2>1. /\ Good(u) /\ StepClosed(t, u) /\ u.exn = t.exn
        /\ u.cur_ast = t.cur_ast /\ u.cur_ast_typed = t.cur_ast_typed
    BY <1>1, <1>4, DropStepGood
  <2>2. SameProgram(t, u)
    BY <2>1 DEF SameProgram, Typed
  <2> QED BY <2>1, <2>2 DEF u
<1>5. CASE u = v /\ v.exn # "none"
  BY <1>2, <1>5 DEF u
<1>6. CASE v.exn = "none" /\ (u = KeepStep(v, f) \/ u = DropStep(v))
  <2>1. SameStack(t, v) /\ Len(v.step_stack) = n /\ Len(v.step_stack) > 1
    BY <1>1, <1>2, <1>6 DEF SameStack
  <2>2. \/ Ungranted(v.step_stack, n)
        \/ Top(v).before = v.cur_ast
    <3>1. CASE Ungranted(t.step_stack, n)
      BY <2>1, <3>1 DEF SameStack
    <3>2. CASE ~f.recompute /\ Top(t).before = t.cur_ast
      BY <1>2, <3>2 DEF Top
    <3> QED BY <3>1, <3>2 DEF Closable
  <2>3. /\ Good(u) /\ StepClosed(v, u) /\ u.exn = "none"
        /\ u.cur_ast = v.cur_ast /\ u.cur_ast_typed = v.cur_ast_typed
    BY <1>2, <1>6, <2>1, <2>2, KeepStepGood, DropStepGood
  <2>4. SameProgram(t, u)
    BY <1>2, <1>6, <2>3 DEF SameProgram, Typed, AstTyped
  <2>5. Ungranted(t.step_stack, n - 1) => Ungranted(v.step_stack, n - 1)
    <3>1. CASE Ungranted(t.step_stack, n)
      <4>1. Ungranted(v.step_stack, n)
        BY <2>1, <3>1 DEF SameStack
      <4> QED BY <1>1, <4>1 DEF Ungranted
    <3>2. CASE ~f.recompute /\ Top(t).before = t.cur_ast
      BY <1>2, <3>2
    <3> QED BY <3>1, <3>2 DEF Closable
  <2>6. StepClosed(t, u)
    <3>1. Len(u.step_stack) = n - 1 /\ SameSteps(t.step_stack, u.step_stack, n - 1)
      BY <1>1, <2>1, <2>3 DEF StepClosed, SameStack, SameSteps, Kept
    <3> QED BY <2>1, <2>3, <2>5, <3>1 DEF StepClosed
  <2> QED BY <1>2, <2>3, <2>4, <2>6 DEF u
<1> QED BY <1>3, <1>4, <1>5, <1>6

\* close_step ~check: the step at this depth, or an exception.
LEMMA CloseCheckedGood ==
  ASSUME NEW t, Good(t), t.exn = "none", NEW f \in FlagValues, FixedFlags(f), Closable(t, f),
         NEW depth \in Nat, depth > 1, NEW discard \in BOOLEAN
  PROVE  LET u == CloseChecked(t, f, depth, discard)
         IN /\ Good(u) /\ SameProgram(t, u)
            /\ IF u.exn = "none" THEN StepClosed(t, u) ELSE MoreSteps(t, u)
            /\ ~f.recompute => u.cur_ast = t.cur_ast
            /\ Len(t.step_stack) = depth /\ f.check_validity = Top(t).check_validity =>
                 u.exn # "trace"
            /\ (~f.recompute \/ t.cur_ast.code \in Typable) =>
                 u.exn = "none" \/ u.exn = "trace"
<1>1. CASE Len(t.step_stack) # depth
  <2> DEFINE u == [t EXCEPT !.exn = "trace"]
             n == Len(t.step_stack)
  <2>1. /\ u \in Traces /\ u.step_stack = t.step_stack /\ u.next_step_id = t.next_step_id
        /\ u.exn = "trace" /\ u.cur_ast = t.cur_ast /\ u.cur_ast_typed = t.cur_ast_typed
    BY DEF Good, Wf, Traces
  <2>2. CloseChecked(t, f, depth, discard) = u
    BY <1>1 DEF CloseChecked
  <2> HIDE DEF u
  <2>3. Wf(u)
    BY <2>1, WfSameStack DEF Good
  <2>4. Good(u) /\ SameStack(t, u) /\ n \in Nat
    BY <2>1, <2>3, SameStackGood, TopOfWf DEF Good
  <2>5. MoreSteps(t, u) /\ SameProgram(t, u)
    BY <2>1, <2>4 DEF MoreSteps, SameStack, SameProgram, Typed
  <2> QED BY <1>1, <2>1, <2>2, <2>4, <2>5
<1>2. CASE Len(t.step_stack) = depth
  <2> DEFINE u == close_step(t, f, discard, FALSE)
  <2>1. CloseChecked(t, f, depth, discard) = u
    BY <1>2 DEF CloseChecked
  <2>2. \A b \in BOOLEAN :
          LET v == close_step(t, f, discard, b)
          IN /\ Good(v) /\ SameProgram(t, v)
             /\ IF v.exn = "none" THEN StepClosed(t, v) ELSE MoreSteps(t, v)
             /\ ~f.recompute => v.cur_ast = t.cur_ast
             /\ f.check_validity = Top(t).check_validity => v.exn # "trace"
             /\ (~f.recompute \/ t.cur_ast.code \in Typable) =>
                  v.exn = "none" \/ v.exn = "trace"
    BY <1>2, CloseStepGood
  <2>3. /\ Good(u) /\ SameProgram(t, u)
        /\ IF u.exn = "none" THEN StepClosed(t, u) ELSE MoreSteps(t, u)
        /\ ~f.recompute => u.cur_ast = t.cur_ast
        /\ f.check_validity = Top(t).check_validity => u.exn # "trace"
        /\ (~f.recompute \/ t.cur_ast.code \in Typable) =>
             u.exn = "none" \/ u.exn = "trace"
    BY <2>2
  <2> HIDE DEF u
  <2> QED BY <2>1, <2>3
<1> QED BY <1>1, <1>2

-----------------------------------------------------------------------------
(* Sequences of calls.                                                      *)

Neat(t) == Good(t) /\ Ungranted(t.step_stack, Len(t.step_stack))

ScriptSteps(stack, n) == \A i \in 1..n : stack[i].kind \in {"root", "big", "small"}

\* u is t with a step of this kind open on top of it.
Opened(t, u, kind, f) ==
  LET n == Len(t.step_stack)
  IN /\ Neat(u) /\ u.exn = "none" /\ Len(u.step_stack) = n + 1
     /\ SameSteps(t.step_stack, u.step_stack, n)
     /\ u.step_stack[n + 1].kind = kind /\ u.step_stack[n + 1].before = t.cur_ast
     /\ u.step_stack[n + 1].check_validity = f.check_validity
     /\ u.cur_ast = t.cur_ast /\ u.cur_ast_typed = t.cur_ast_typed

\* A step opened around the body of a combinator, or by the script.
LEMMA OpenNeat ==
  ASSUME NEW t, Neat(t), t.exn = "none", NEW f \in FlagValues, FixedFlags(f),
         NEW kind \in MayContain(Top(t).kind), NEW show \in BOOLEAN
  PROVE  Opened(t, open_step(t, f, kind, FALSE, show), kind, f)
<1> DEFINE u == open_step(t, f, kind, FALSE, show)
           n == Len(t.step_stack)
<1>1. Good(t) /\ Ungranted(t.step_stack, n)
  BY DEF Neat
<1>2. \A b \in BOOLEAN :
        LET o == open_step(t, f, kind, b, show)
        IN /\ Good(o) /\ o.exn = t.exn /\ Len(o.step_stack) = Len(t.step_stack) + 1
           /\ SameSteps(t.step_stack, o.step_stack, Len(t.step_stack))
           /\ Top(o).kind = kind /\ Top(o) = o.step_stack[Len(t.step_stack) + 1]
           /\ Top(o).before = t.cur_ast /\ Top(o).check_validity = f.check_validity
           /\ (kind = "backtrack" => ~b) =>
                (Ungranted(t.step_stack, Len(t.step_stack)) =>
                   Ungranted(o.step_stack, Len(o.step_stack)))
           /\ o.cur_ast = t.cur_ast /\ o.cur_ast_typed = t.cur_ast_typed
  BY <1>1, OpenStepGood
<1>3. /\ Good(u) /\ u.exn = t.exn /\ Len(u.step_stack) = n + 1
      /\ SameSteps(t.step_stack, u.step_stack, n)
      /\ Top(u).kind = kind /\ Top(u) = u.step_stack[n + 1]
      /\ Top(u).before = t.cur_ast /\ Top(u).check_validity = f.check_validity
      /\ Ungranted(u.step_stack, Len(u.step_stack))
      /\ u.cur_ast = t.cur_ast /\ u.cur_ast_typed = t.cur_ast_typed
  BY <1>1, <1>2
<1> HIDE DEF u
<1>4. Opened(t, u, kind, f)
  BY <1>3 DEF Neat, Opened
<1> QED BY <1>4 DEF u

\* Closing the innermost step, no region being granted.
LEMMA CloseStepNeat ==
  ASSUME NEW t, Neat(t), t.exn = "none", Len(t.step_stack) > 1,
         NEW f \in FlagValues, FixedFlags(f), NEW discard \in BOOLEAN, NEW on_error \in BOOLEAN
  PROVE  LET u == close_step(t, f, discard, on_error)
         IN /\ Neat(u) /\ SameProgram(t, u)
            /\ IF u.exn = "none" THEN StepClosed(t, u) ELSE MoreSteps(t, u)
<1> DEFINE u == close_step(t, f, discard, on_error)
           n == Len(t.step_stack)
<1>1. Good(t) /\ Ungranted(t.step_stack, n) /\ Closable(t, f) /\ n \in Nat
  BY TopOfWf DEF Neat, Closable, Good
<1>2. /\ Good(u) /\ SameProgram(t, u)
      /\ IF u.exn = "none" THEN StepClosed(t, u) ELSE MoreSteps(t, u)
  BY <1>1, CloseStepGood
<1> HIDE DEF u
<1>3. Ungranted(t.step_stack, n - 1)
  BY <1>1 DEF Ungranted
<1>4. Neat(u)
  BY <1>1, <1>2, <1>3 DEF Neat, StepClosed, MoreSteps
<1> QED BY <1>2, <1>4 DEF u

\* The implicit closing of a step of the script: the step around it is of another kind.
LEMMA CloseKindNeat ==
  ASSUME NEW t, Neat(t), t.exn = "none", NEW f \in FlagValues, FixedFlags(f),
         NEW kind \in {"small", "big"}
  PROVE  LET u == close_step_kind_if_needed(t, f, kind)
         IN /\ Neat(u) /\ SameProgram(t, u)
            /\ u.exn = "none" =>
                 /\ SameSteps(t.step_stack, u.step_stack, Len(u.step_stack))
                 /\ Len(u.step_stack) < Len(t.step_stack) => kind \in MayContain(Top(u).kind)
                 /\ Len(u.step_stack) = Len(t.step_stack) =>
                      Top(u).kind = Top(t).kind /\ Top(u).kind # kind
                 /\ Len(u.step_stack) <= Len(t.step_stack)
<1> DEFINE u == close_step_kind_if_needed(t, f, kind)
           c == close_step(t, f, FALSE, FALSE)
           s == t.step_stack
           n == Len(s)
<1>1. /\ n \in Nat /\ n > 0 /\ n = Len(s) /\ Top(t) = s[n] /\ Wf(t) /\ StackGood(s)
      /\ DOMAIN s = 1..n
  BY TopOfWf DEF Neat, Good, Top, Last
<1>2. CASE Top(t).kind # kind
  <2>1. u = t
    BY <1>2 DEF close_step_kind_if_needed
  <2>2. SameSteps(s, s, n) /\ SameProgram(t, t)
    BY <1>1 DEF SameSteps, Kept, SameProgram
  <2> QED BY <1>1, <1>2, <2>1, <2>2
<1>3. CASE Top(t).kind = kind
  <2>1. u = c
    BY <1>3 DEF close_step_kind_if_needed
  <2>2. n > 1
    BY <1>1, <1>3, NotRoot
  <2>3. /\ Neat(c) /\ SameProgram(t, c)
        /\ c.exn = "none" => StepClosed(t, c)
    <3>1. \A d, e \in BOOLEAN :
            LET v == close_step(t, f, d, e)
            IN /\ Neat(v) /\ SameProgram(t, v)
               /\ v.exn = "none" => StepClosed(t, v)
      BY <2>2, CloseStepNeat
    <3> QED BY <3>1
  <2> HIDE DEF c, u, s, n
  <2>4. ASSUME c.exn = "none"
        PROVE  /\ SameSteps(s, c.step_stack, Len(c.step_stack))
               /\ Len(c.step_stack) = n - 1
               /\ kind \in MayContain(Top(c).kind)
    <3>1. Len(c.step_stack) = n - 1 /\ SameSteps(s, c.step_stack, n - 1)
      BY <2>3, <2>4 DEF StepClosed, s, n
    <3>2. n - 1 \in 1..(n - 1) /\ n \in DOMAIN s
      BY <1>1, <2>2
    <3>3. Top(c).kind = s[n - 1].kind
      BY <3>1, <3>2 DEF SameSteps, Kept, Top, Last
    <3>4. s[n].kind \in MayContain(s[n - 1].kind)
      BY <1>1, <2>2, <3>2 DEF StackGood
    <3> QED BY <1>1, <1>3, <3>1, <3>3, <3>4
  <2>5. n - 1 < n /\ n - 1 # n /\ n - 1 <= n
    BY <1>1
  <2> QED BY <2>1, <2>3, <2>4, <2>5 DEF u, s, n
<1> QED BY <1>2, <1>3

\* Printing and parsing the program again.
LEMMA ReparseNeat ==
  ASSUME NEW t, Neat(t)
  PROVE  LET u == reparse(t)
         IN /\ Neat(u) /\ SameStack(t, u) /\ u.exn = t.exn
            /\ u.cur_ast.code = t.cur_ast.code /\ Typed(u)
<1> DEFINE u == PutNew(t, t.cur_ast.code, "none", FALSE)
           v == LeafStep(u, "io", t.cur_ast, u.cur_ast, TRUE)
           w == PutBack(v, u.cur_ast, FALSE)
<1>1. /\ t \in Traces /\ t.cur_ast \in Asts /\ t.cur_ast.code \in Codes
      /\ "io" \in Kinds \ {"root", "big", "small", "backtrack"}
  BY DEF Neat, Good, Wf, Traces, Asts, Kinds
<1>2. Wf(u) /\ u.exn = t.exn /\ u.step_stack = t.step_stack
  BY <1>1, PutNewWf DEF Neat, Good
<1>3. u.cur_ast \in Asts /\ u.cur_ast.code = t.cur_ast.code
  BY <1>1, <1>2 DEF Wf, Traces, PutNew
<1>4. reparse(t) = w
  BY DEF reparse
<1> HIDE DEF u
<1>5. Good(u)
  BY <1>2, SameStackGood DEF Neat
<1>6. Good(v) /\ v.exn = u.exn /\ SameStack(u, v)
  BY <1>1, <1>3, <1>5, LeafStepGood
<1> HIDE DEF v
<1>7. /\ Wf(w) /\ w.step_stack = v.step_stack /\ w.exn = v.exn
      /\ w.cur_ast = u.cur_ast /\ w.cur_ast_typed = FALSE
  <2>1. Wf(w) /\ w.step_stack = v.step_stack /\ w.exn = v.exn
    BY <1>3, <1>6, PutBackWf DEF Good
  <2>2. v \in Traces
    BY <1>6 DEF Good, Wf
  <2> QED BY <2>1, <2>2 DEF PutBack, Traces
<1> HIDE DEF w
<1>8. Good(w)
  BY <1>6, <1>7, SameStackGood
<1>9. SameStack(t, w)
  BY <1>2, <1>6, <1>7 DEF SameStack
<1>10. Neat(w)
  BY <1>8, <1>9 DEF Neat, SameStack
<1> QED BY <1>2, <1>3, <1>4, <1>6, <1>7, <1>9, <1>10 DEF Typed, AstTyped

\* A transformation that only puts an AST back, as a step of its own.
LEMMA RestoreStepNeat ==
  ASSUME NEW t, Neat(t), t.exn = "none", NEW f \in FlagValues, FixedFlags(f),
         NEW ast \in Asts, NEW typed \in BOOLEAN
  PROVE  LET v == PutBack(open_step(t, f, "transfo", FALSE, FALSE), ast, typed)
             u == close_step(v, f, FALSE, FALSE)
         IN /\ Neat(u) /\ MoreSteps(t, u) /\ (u.exn = "none" => SameStack(t, u))
            /\ AstTyped(typed, ast) => Typed(u)
<1> DEFINE o == open_step(t, f, "transfo", FALSE, FALSE)
           v == PutBack(o, ast, typed)
           u == close_step(v, f, FALSE, FALSE)
           s == t.step_stack
           n == Len(s)
<1>1. n \in Nat /\ n > 0 /\ n = Len(s) /\ Good(t) /\ Ungranted(s, n)
  BY TopOfWf DEF Neat, Good
<1>2. "transfo" \in MayContain(Top(t).kind)
  BY AnywhereKinds DEF Kinds
<1>3. /\ Good(o) /\ o.exn = "none" /\ Len(o.step_stack) = n + 1
      /\ SameSteps(s, o.step_stack, n) /\ Ungranted(o.step_stack, n + 1)
  <2>1. \A b, c \in BOOLEAN :
          LET w == open_step(t, f, "transfo", b, c)
          IN /\ Good(w) /\ w.exn = t.exn /\ Len(w.step_stack) = n + 1
             /\ SameSteps(s, w.step_stack, n)
             /\ Ungranted(s, n) => Ungranted(w.step_stack, Len(w.step_stack))
    BY <1>1, <1>2, OpenStepGood
  <2> QED BY <1>1, <2>1
<1> HIDE DEF o
<1>4. /\ Wf(v) /\ v.exn = "none" /\ v.step_stack = o.step_stack
      /\ v.cur_ast = ast /\ v.cur_ast_typed = typed
  <2>1. Wf(v) /\ v.exn = "none" /\ v.step_stack = o.step_stack
    BY <1>3, PutBackWf DEF Good
  <2> QED BY <1>3, <2>1 DEF PutBack, Good, Wf, Traces
<1> HIDE DEF v
<1>5. Neat(v) /\ Len(v.step_stack) > 1
  <2>1. Good(v)
    BY <1>3, <1>4, SameStackGood
  <2> QED BY <1>1, <1>3, <1>4, <2>1 DEF Neat
<1>6. /\ Neat(u) /\ SameProgram(v, u)
      /\ IF u.exn = "none" THEN StepClosed(v, u) ELSE MoreSteps(v, u)
  <2>1. \A d, e \in BOOLEAN :
          LET w == close_step(v, f, d, e)
          IN /\ Neat(w) /\ SameProgram(v, w)
             /\ IF w.exn = "none" THEN StepClosed(v, w) ELSE MoreSteps(v, w)
    BY <1>4, <1>5, CloseStepNeat
  <2> QED BY <2>1
<1> HIDE DEF u, s, n
<1>7. u.exn = "none" => SameStack(t, u)
  <2> SUFFICES ASSUME u.exn = "none" PROVE SameStack(t, u)
    OBVIOUS
  <2>1. Len(u.step_stack) = n /\ SameSteps(v.step_stack, u.step_stack, n)
    <3>1. Len(v.step_stack) - 1 = n
      BY <1>1, <1>3, <1>4
    <3>2. StepClosed(v, u)
      BY <1>6
    <3> QED BY <3>1, <3>2 DEF StepClosed
  <2>2. SameSteps(s, u.step_stack, n)
    BY <1>1, <1>3, <1>4, <2>1 DEF SameSteps, Kept
  <2> QED BY <1>6, <2>1, <2>2 DEF SameStack, Neat, s, n
<1>8. MoreSteps(t, u)
  <2>1. CASE u.exn = "none"
    BY <1>1, <1>7, <2>1 DEF SameStack, MoreSteps
  <2>2. CASE u.exn # "none"
    <3>1. SameSteps(v.step_stack, u.step_stack, n + 1)
      BY <1>3, <1>4, <1>6, <2>2 DEF MoreSteps
    <3>2. n <= n + 1 /\ \A i \in 1..n : i \in 1..(n + 1)
      BY <1>1
    <3>3. SameSteps(s, u.step_stack, n)
      <4>1. Len(u.step_stack) \in Nat
        BY <1>6, TopOfWf DEF Neat, Good
      <4> QED BY <1>1, <1>3, <1>4, <3>1, <3>2, <4>1 DEF SameSteps, Kept
    <3> QED BY <1>6, <3>3 DEF MoreSteps, Neat, s, n
  <2> QED BY <2>1, <2>2
<1>9. AstTyped(typed, ast) => Typed(u)
  BY <1>4, <1>6 DEF SameProgram, Typed
<1> QED BY <1>6, <1>7, <1>8, <1>9 DEF u, v, o

\* An exception that has been handled.
LEMMA ClearExnGood ==
  ASSUME NEW t, Good(t)
  PROVE  LET u == [t EXCEPT !.exn = "none"]
         IN /\ Good(u) /\ u.exn = "none" /\ u.step_stack = t.step_stack
            /\ u.cur_ast = t.cur_ast /\ u.cur_ast_typed = t.cur_ast_typed
<1> DEFINE u == [t EXCEPT !.exn = "none"]
<1>1. /\ Wf(u) /\ u.exn = "none" /\ u.step_stack = t.step_stack
      /\ u.cur_ast = t.cur_ast /\ u.cur_ast_typed = t.cur_ast_typed
  BY ClearExnWf DEF Good, Wf, Traces
<1> QED BY <1>1, SameStackGood

\* A region entered on this AST is undone: the AST is put back, the step closed without
\* typing, and the program typed again.
UndoRegion(t, ast, typed, g, f, retype, discard) ==
  LET c == close_step(justif(PutBack(t, ast, typed)), g, discard, FALSE)
  IN IF c.exn = "none" /\ retype THEN recompute_resources(c, f) ELSE c

\* The state w in which a region entered on this AST, with t as its last state, is undone.
Undone(t, ast, w) ==
  LET n == Len(t.step_stack) - 1
  IN /\ Good(w) /\ w.cur_ast.code = ast.code /\ SameSteps(t.step_stack, w.step_stack, n)
     /\ w.exn # "trace" => Neat(w) /\ Typed(w)
     /\ w.exn = "none" => /\ Len(w.step_stack) = n
                          /\ ast.ann = "typed" => w.cur_ast.ann = "typed"

LEMMA UndoGood ==
  ASSUME NEW t, Good(t), t.exn = "none", Len(t.step_stack) > 1,
         NEW ast \in Asts, NEW typed \in BOOLEAN, Top(t).before = ast, AstTyped(typed, ast),
         Ungranted(t.step_stack, Len(t.step_stack) - 1),
         NEW g \in FlagValues, FixedFlags(g), ~g.recompute,
         NEW f \in FlagValues, FixedFlags(f), NEW retype \in BOOLEAN, NEW discard \in BOOLEAN
  PROVE  LET w == UndoRegion(t, ast, typed, g, f, retype, discard)
         IN /\ Undone(t, ast, w)
            /\ g.check_validity = Top(t).check_validity => w.exn # "trace"
            /\ ~retype \/ ast.code \in Typable => w.exn \in {"none", "trace"}
<1> DEFINE p == PutBack(t, ast, typed)
           j == justif(p)
           c == close_step(j, g, discard, FALSE)
           r == recompute_resources(c, f)
           w == IF c.exn = "none" /\ retype THEN r ELSE c
           s == t.step_stack
           n == Len(s) - 1
<1>1. s \in Seq(Steps) /\ n \in Nat /\ n > 0 /\ n = Len(s) - 1 /\ Top(t) = s[n + 1]
  BY TopOfWf DEF Good, Top, Last
<1>2. /\ Good(p) /\ p.exn = "none" /\ p.step_stack = s
      /\ p.cur_ast = ast /\ p.cur_ast_typed = typed
  <2>1. Wf(p) /\ p.exn = "none" /\ p.step_stack = s
    BY PutBackWf DEF Good
  <2>2. p.cur_ast = ast /\ p.cur_ast_typed = typed
    BY DEF PutBack, Good, Wf, Traces
  <2> HIDE DEF p
  <2> QED BY <2>1, <2>2, SameStackGood
<1> HIDE DEF p
<1>3. /\ Good(j) /\ j.exn = "none" /\ Len(j.step_stack) = n + 1
      /\ SameSteps(s, j.step_stack, n + 1) /\ \A i \in 1..n : j.step_stack[i] = s[i]
      /\ Kept(Top(t), Top(j)) /\ j.cur_ast = ast /\ j.cur_ast_typed = typed
  <2> DEFINE m == Len(p.step_stack)
  <2>1. Top(p) = Top(t) /\ m = n + 1 /\ m - 1 = n
    BY <1>1, <1>2 DEF Top
  <2>2. /\ Good(j) /\ j.exn = p.exn /\ Len(j.step_stack) = m
        /\ SameSteps(p.step_stack, j.step_stack, m)
        /\ \A i \in 1..(m - 1) : j.step_stack[i] = p.step_stack[i]
        /\ Kept(Top(p), Top(j)) /\ j.cur_ast = p.cur_ast /\ j.cur_ast_typed = p.cur_ast_typed
    BY <1>2, JustifGood
  <2> HIDE DEF j, n, s, m
  <2>4. SameSteps(s, j.step_stack, n + 1)
    BY <1>2, <2>1, <2>2
  <2> QED BY <1>2, <2>1, <2>2, <2>4
<1> HIDE DEF j
<1>4. Closable(j, g) /\ Typed(j) /\ Len(j.step_stack) > 1
  BY <1>1, <1>3 DEF Closable, Kept, Typed
<1>5. /\ Good(c) /\ SameProgram(j, c)
      /\ IF c.exn = "none" THEN StepClosed(j, c) ELSE MoreSteps(j, c)
      /\ g.check_validity = Top(j).check_validity => c.exn # "trace"
      /\ c.exn = "none" \/ c.exn = "trace"
  <2>1. \A e \in BOOLEAN :
          LET x == close_step(j, g, discard, e)
          IN /\ Good(x) /\ SameProgram(j, x)
             /\ IF x.exn = "none" THEN StepClosed(j, x) ELSE MoreSteps(j, x)
             /\ g.check_validity = Top(j).check_validity => x.exn # "trace"
             /\ (~g.recompute \/ j.cur_ast.code \in Typable) => x.exn = "none" \/ x.exn = "trace"
    BY <1>3, <1>4, CloseStepGood
  <2> QED BY <2>1
<1> HIDE DEF c
<1>6. /\ c.cur_ast.code = ast.code /\ Typed(c)
      /\ c.exn = "none" /\ ast.ann = "typed" => c.cur_ast.ann = "typed"
  BY <1>3, <1>4, <1>5 DEF SameProgram
<1>7. ASSUME c.exn = "none"
      PROVE  Neat(c) /\ Len(c.step_stack) = n /\ SameSteps(j.step_stack, c.step_stack, n)
  <2>1. Len(j.step_stack) - 1 = n /\ StepClosed(j, c)
    BY <1>1, <1>3, <1>5, <1>7
  <2>2. Len(c.step_stack) = n /\ SameSteps(j.step_stack, c.step_stack, n)
    BY <2>1 DEF StepClosed
  <2>3. Ungranted(j.step_stack, n)
    BY <1>1, <1>3 DEF Ungranted
  <2>4. Ungranted(c.step_stack, n)
    BY <2>1, <2>3 DEF StepClosed
  <2> QED BY <1>5, <2>2, <2>4 DEF Neat
<1>a. SameSteps(s, c.step_stack, n)
  <2>1. SameSteps(j.step_stack, c.step_stack, n)
    <3>1. CASE c.exn = "none"
      BY <1>7, <3>1
    <3>2. CASE c.exn # "none"
      <4> HIDE DEF s, n
      <4>1. SameSteps(j.step_stack, c.step_stack, n + 1)
        BY <1>3, <1>5, <3>2 DEF MoreSteps
      <4>2. n <= n + 1 /\ \A i \in 1..n : i \in 1..(n + 1)
        BY <1>1
      <4>3. Len(j.step_stack) \in Nat /\ Len(c.step_stack) \in Nat
        BY <1>3, <1>5, TopOfWf DEF Good
      <4> QED BY <1>1, <4>1, <4>2, <4>3 DEF SameSteps
    <3> QED BY <3>1, <3>2
  <2> HIDE DEF s, n
  <2>2. n <= Len(s) /\ \A i \in 1..n : s[i] = j.step_stack[i]
    BY <1>1, <1>3
  <2> QED BY <2>1, <2>2 DEF SameSteps
<1>8. ASSUME c.exn = "none"
      PROVE  /\ Good(r) /\ r.exn \in {"none", "resource"} /\ SameProgram(c, r)
             /\ MoreSteps(c, r) /\ (r.exn = "none" => SameStack(c, r))
             /\ c.cur_ast.code \in Typable => r.exn = "none"
  BY <1>5, <1>8, RecomputeGood
<1> HIDE DEF r, s, n
<1>9. ASSUME c.exn = "none", retype
      PROVE  /\ Undone(t, ast, r) /\ r.exn # "trace"
             /\ ast.code \in Typable => r.exn = "none"
  <2>1. Neat(r)
    BY <1>7, <1>8, <1>9 DEF Neat, MoreSteps
  <2>2. SameSteps(s, r.step_stack, n)
    <3>1. SameSteps(s, c.step_stack, n) /\ SameSteps(c.step_stack, r.step_stack, n)
      BY <1>7, <1>8, <1>9, <1>a DEF MoreSteps
    <3> QED BY <3>1 DEF SameSteps, Kept
  <2>3. r.exn = "none" => Len(r.step_stack) = n
    BY <1>7, <1>8, <1>9 DEF SameStack
  <2> QED BY <1>6, <1>8, <1>9, <2>1, <2>2, <2>3 DEF Undone, SameProgram, Neat, s, n
<1>10. Undone(t, ast, c)
  BY <1>5, <1>6, <1>7, <1>a DEF Undone, s, n
<1>11. /\ g.check_validity = Top(t).check_validity => c.exn # "trace"
  BY <1>3, <1>5 DEF Kept
<1>12. /\ Undone(t, ast, w)
       /\ g.check_validity = Top(t).check_validity => w.exn # "trace"
       /\ ~retype \/ ast.code \in Typable => w.exn \in {"none", "trace"}
  <2>1. CASE c.exn = "none" /\ retype
    BY <1>9, <2>1
  <2>2. CASE ~(c.exn = "none" /\ retype)
    BY <1>5, <1>10, <1>11, <2>2
  <2> QED BY <2>1, <2>2
<1> QED BY <1>12 DEF UndoRegion, r, c, j, p

-----------------------------------------------------------------------------
(* The inductive invariant.                                                 *)

StepFrameKinds == {"step", "trustme", "backtrack", "expected", "onfailure"}

FramesOK(fs) ==
  /\ fs \in Seq(Frames)
  /\ \A i \in DOMAIN fs :
       /\ fs[i].kind \in StepFrameKinds => fs[i].depth > 1
       /\ fs[i].kind = "expected" => i > 1 /\ fs[i - 1].kind = "backtrack"

Reported(t, r) ==
  /\ Len(t.step_stack) = 1 /\ StackOK(t.step_stack, SubEnd(Last(t.step_stack)) + 1)
  /\ Len(r) = 1 /\ t.next_step_id = r[1].last + 1
  /\ SubEnd(t.step_stack[1]) <= r[1].last

TraceInv ==
  /\ the_trace \in Traces /\ the_trace.exn = "none"
  /\ mode # "done" => Wf(the_trace)
  /\ mode = "done" => Reported(the_trace, report)

ControlInv ==
  /\ flags \in FlagValues
  /\ FramesOK(frames)
  /\ mode \in Modes
  /\ mode = "closing" => frames # <<>> /\ Last(frames).kind \in {"backtrack", "onfailure"}

RecordsInv ==
  /\ saved \in Seq(Asts) /\ Len(saved) <= 1
  /\ report \in Seq(ClosedSteps) /\ Len(report) <= 1

IInv == TraceInv /\ ControlInv /\ RecordsInv

-----------------------------------------------------------------------------
(* The control stack.                                                       *)

\* Entering a combinator.
LEMMA PushOK ==
  ASSUME NEW fs, FramesOK(fs), NEW x \in Frames,
         x.kind \in StepFrameKinds => x.depth > 1,
         x.kind = "expected" => fs # <<>> /\ Last(fs).kind = "backtrack"
  PROVE  FramesOK(Append(fs, x)) /\ Append(fs, x) # <<>> /\ Last(Append(fs, x)) = x
<1> DEFINE gs == Append(fs, x)
           n == Len(fs)
<1>1. fs \in Seq(Frames) /\ n \in Nat /\ DOMAIN fs = 1..n
  BY DEF FramesOK
<1>2. gs \in Seq(Frames) /\ DOMAIN gs = 1..(n + 1) /\ gs[n + 1] = x /\ Len(gs) = n + 1
  BY <1>1
<1>3. \A i \in 1..n : gs[i] = fs[i]
  BY <1>1
<1>4. fs # <<>> => n > 0 /\ Last(fs) = fs[n]
  BY <1>1 DEF Last
<1>5. gs # <<>> /\ Last(gs) = x
  BY <1>1, <1>2 DEF Last
<1> HIDE DEF gs, n
<1>6. ASSUME NEW i \in DOMAIN gs
      PROVE  /\ gs[i].kind \in StepFrameKinds => gs[i].depth > 1
             /\ gs[i].kind = "expected" => i > 1 /\ gs[i - 1].kind = "backtrack"
  <2>1. CASE i \in 1..n
    <3>1. fs[i].kind = "expected" => i > 1 /\ i - 1 \in 1..n /\ fs[i - 1].kind = "backtrack"
      BY <1>1, <2>1 DEF FramesOK
    <3> QED BY <1>1, <1>3, <2>1, <3>1 DEF FramesOK
  <2>2. CASE i = n + 1
    <3>1. x.kind = "expected" => n > 0 /\ n \in 1..n /\ fs[n].kind = "backtrack"
      BY <1>1, <1>4
    <3>2. n + 1 - 1 = n /\ (n > 0 => n + 1 > 1)
      BY <1>1
    <3> QED BY <1>2, <1>3, <2>2, <3>1, <3>2
  <2> QED BY <1>1, <1>2, <2>1, <2>2
<1> QED BY <1>2, <1>5, <1>6 DEF FramesOK, gs

\* Leaving the innermost combinator.
LEMMA PopOK ==
  ASSUME NEW fs, FramesOK(fs), fs # <<>>
  PROVE  /\ Last(fs) \in Frames /\ FramesOK(Front(fs))
         /\ Last(fs).kind \in StepFrameKinds => Last(fs).depth > 1
         /\ Last(fs).kind = "expected" => Front(fs) # <<>> /\ Last(Front(fs)).kind = "backtrack"
<1> DEFINE gs == Front(fs)
           n == Len(fs)
<1>1. /\ fs \in Seq(Frames) /\ n \in Nat /\ n > 0 /\ DOMAIN fs = 1..n
      /\ Last(fs) \in Frames /\ Last(fs) = fs[n]
      /\ gs \in Seq(Frames) /\ Len(gs) = n - 1
      /\ \A i \in 1..(n - 1) : gs[i] = fs[i]
  BY FrontLast DEF FramesOK, Last
<1>2. DOMAIN gs = 1..(n - 1)
  BY <1>1
<1>3. n > 1 => gs # <<>> /\ Last(gs) = gs[n - 1]
  BY <1>1 DEF Last
<1> HIDE DEF gs, n
<1>4. ASSUME NEW i \in DOMAIN gs
      PROVE  /\ gs[i].kind \in StepFrameKinds => gs[i].depth > 1
             /\ gs[i].kind = "expected" => i > 1 /\ gs[i - 1].kind = "backtrack"
  <2>1. i \in DOMAIN fs /\ i \in 1..(n - 1)
    BY <1>1, <1>2
  <2>2. i > 1 => i - 1 \in 1..(n - 1)
    BY <1>1, <2>1
  <2> QED BY <1>1, <2>1, <2>2 DEF FramesOK
<1>5. /\ fs[n].kind \in StepFrameKinds => fs[n].depth > 1
      /\ fs[n].kind = "expected" => n > 1 /\ fs[n - 1].kind = "backtrack"
  BY <1>1 DEF FramesOK
<1>6. n > 1 => gs[n - 1] = fs[n - 1]
  BY <1>1
<1>7. FramesOK(gs)
  BY <1>1, <1>4 DEF FramesOK
<1> QED BY <1>1, <1>3, <1>5, <1>6, <1>7 DEF gs

\* The frame of a combinator: a step frame is deeper than the root step.
LEMMA PushFrameOK ==
  ASSUME IInv, mode # "done", NEW t, Wf(t), NEW kind \in FrameKinds \ {"expected"},
         NEW discard \in BOOLEAN,
         kind \in StepFrameKinds => Len(t.step_stack) > 1
  PROVE  LET fs == Push(t, kind, discard)
         IN FramesOK(fs) /\ fs # <<>> /\ Last(fs) \in Frames
            /\ Last(fs).kind = kind /\ Last(fs).depth = Len(t.step_stack)
<1> DEFINE x == [kind |-> kind, depth |-> Len(t.step_stack), ast |-> the_trace.cur_ast,
                 typed |-> the_trace.cur_ast_typed, flags |-> flags, discard |-> discard]
<1>1. /\ the_trace.cur_ast \in Asts /\ the_trace.cur_ast_typed \in BOOLEAN
      /\ flags \in FlagValues /\ FramesOK(frames)
  BY DEF IInv, TraceInv, ControlInv, Traces
<1>2. Len(t.step_stack) \in Nat \ {0}
  BY TopOfWf
<1>3. x \in Frames /\ x.kind = kind /\ x.depth = Len(t.step_stack) /\ kind # "expected"
  BY <1>1, <1>2 DEF Frames
<1>4. Push(t, kind, discard) = Append(frames, x)
  BY DEF Push
<1> HIDE DEF x
<1> QED BY <1>1, <1>3, <1>4, PushOK

\* Where a call goes on.
LEMMA ContinueOK ==
  ASSUME NEW t, Wf(t), Continue(t)
  PROVE  /\ Wf(the_trace') /\ the_trace'.exn = "none"
         /\ mode' \in {"run", "failed", "raise"}
<1>1. mode' \in {"run", "failed", "raise"}
  BY DEF Continue, Outcome
<1> QED BY <1>1, ClearExnWf DEF Continue

\* A step that leaves the trace well-formed and does not end the script.
LEMMA StepOK ==
  ASSUME IInv, Wf(the_trace'), the_trace'.exn = "none", flags' \in FlagValues,
         FramesOK(frames'), mode' \in Modes \ {"done"},
         mode' = "closing" => frames' # <<>> /\ Last(frames').kind \in {"backtrack", "onfailure"},
         saved' \in Seq(Asts), Len(saved') <= 1, report' = report
  PROVE  IInv'
<1>1. the_trace' \in Traces
  BY DEF Wf
<1> QED BY <1>1 DEF IInv, TraceInv, ControlInv, RecordsInv

\* What every step of a running program starts from.
LEMMA Facts ==
  ASSUME IInv, mode # "done"
  PROVE  /\ Wf(the_trace) /\ the_trace.exn = "none" /\ the_trace \in Traces
         /\ Depth \in Nat /\ Depth > 0
         /\ the_trace.cur_ast \in Asts /\ the_trace.cur_ast.code \in Codes
         /\ the_trace.cur_ast.ann \in {"none", "stale", "typed", "error"}
         /\ the_trace.cur_ast_typed \in BOOLEAN
         /\ flags \in FlagValues /\ FramesOK(frames) /\ mode \in Modes
         /\ saved \in Seq(Asts) /\ Len(saved) <= 1
<1>1. Wf(the_trace) /\ the_trace.exn = "none" /\ the_trace \in Traces
  BY DEF IInv, TraceInv
<1>2. Depth \in Nat /\ Depth > 0
  BY <1>1, TopOfWf DEF Depth
<1>3. /\ the_trace.cur_ast \in Asts /\ the_trace.cur_ast_typed \in BOOLEAN
      /\ the_trace.cur_ast.code \in Codes
      /\ the_trace.cur_ast.ann \in {"none", "stale", "typed", "error"}
  BY <1>1 DEF Traces, Asts
<1> QED BY <1>1, <1>2, <1>3 DEF IInv, ControlInv, RecordsInv

\* The values that with_flag gives to the flags.
LEMMA FlagsOK ==
  ASSUME NEW f \in FlagValues, NEW b \in BOOLEAN
  PROVE  /\ [f EXCEPT !.check_validity = b] \in FlagValues
         /\ [f EXCEPT !.recompute = b] \in FlagValues
         /\ f.check_validity \in BOOLEAN /\ f.recompute \in BOOLEAN
BY DEF FlagValues

-----------------------------------------------------------------------------
(* The steps of the script.                                                 *)

LEMMA InitOK ==
  Init => IInv
<1> SUFFICES ASSUME Init PROVE IInv
  OBVIOUS
<1> DEFINE x == [id |-> 0, kind |-> "root", before |-> EmptyTrace.cur_ast, sub |-> <<>>,
                 valid |-> FALSE, granted |-> FALSE,
                 check_validity |-> flags.check_validity, show |-> FALSE]
           t == open_step(EmptyTrace, flags, "root", FALSE, FALSE)
<1>1. flags \in FlagValues
  BY FlagsAssumption DEF Init, InitialFlags, FlagValues
<1>2. EmptyTrace.cur_ast \in Asts
  BY OriginalAssumption DEF EmptyTrace, Asts
<1>3. x \in Steps /\ x.id = 0 /\ x.kind = "root" /\ x.sub = <<>>
  <2>1. <<>> \in Seq(ClosedSteps) /\ "root" \in Kinds /\ flags.check_validity \in BOOLEAN
    BY <1>1 DEF Kinds, FlagValues
  <2> QED BY <1>2, <2>1 DEF Steps, OpenSteps
<1>4. /\ t.step_stack = <<x>> /\ t.next_step_id = 1 /\ t.exn = "none" /\ t \in Traces
  <2> DEFINE e == EmptyTrace
  <2>1. /\ e.next_step_id = 0 /\ e.step_stack = <<>> /\ e.cur_ast = EmptyTrace.cur_ast
        /\ e.exn = "none" /\ e.next_step_id + 1 = 1
    BY DEF EmptyTrace
  <2>2. e \in Traces
    <3>1. <<>> \in Seq(OpenSteps(ClosedSteps))
      OBVIOUS
    <3> QED BY <1>2, <3>1 DEF EmptyTrace, Traces
  <2>3. t = [e EXCEPT !.next_step_id = e.next_step_id + 1, !.step_stack = Append(e.step_stack, x)]
    BY <2>1 DEF open_step
  <2> HIDE DEF e, t, x
  <2>4. <<x>> \in Seq(OpenSteps(ClosedSteps)) /\ Append(<<>>, x) = <<x>> /\ 1 \in Nat
    BY <1>3 DEF Steps
  <2>5. t = [e EXCEPT !.next_step_id = 1, !.step_stack = <<x>>]
    BY <2>1, <2>3, <2>4
  <2> QED BY <2>1, <2>2, <2>4, <2>5 DEF Traces
<1> HIDE DEF x
<1>5. <<x>> \in Seq(Steps) /\ <<x>> # <<>> /\ Len(<<x>>) = 1 /\ <<x>>[1] = x
      /\ DOMAIN <<x>> = {1} /\ Last(<<x>>) = x
  BY <1>3 DEF Last
<1>6. SubIds(x) /\ SubEnd(x) = 0
  BY <1>3 DEF SubIds, SubEnd
<1>7. StackIds(<<x>>)
  BY <1>5, <1>6 DEF StackIds
<1>8. StackOK(<<x>>, 1)
  BY <1>3, <1>5, <1>6, <1>7 DEF StackOK
<1>10. Wf(t)
  BY <1>4, <1>8 DEF Wf
<1> HIDE DEF t
<1>11. the_trace = t /\ t.exn = "none"
  BY <1>4 DEF Init, t
<1>12. TraceInv
  BY <1>4, <1>10, <1>11 DEF TraceInv, Init
<1>13. ControlInv
  BY <1>1 DEF ControlInv, FramesOK, Init, Modes
<1>14. RecordsInv
  BY DEF RecordsInv, Init
<1> QED BY <1>12, <1>13, <1>14 DEF IInv

\* The end of the trace: the root step alone is left, and closed.
LEMMA FinalizeOK ==
  ASSUME IInv, mode # "done", NEW t, Wf(t), NEW on_error \in BOOLEAN,
         finalize(t, on_error), UNCHANGED <<flags, frames, saved>>
  PROVE  IInv'
<1> DEFINE p == PutBackSaved(t)
           u == Then(t, PutBackSaved)
           b == close_bigstep_if_needed(u, flags)
           r == finalize_step(b, flags, on_error)
           v == close_root_step(u, on_error)
           w == IF u.exn = "none" THEN v ELSE u
           root == ClosedStep(w, flags)
<1>1. Wf(u)
  <2>1. ASSUME t.exn = "none" PROVE Wf(p)
    <3>1. CASE saved = <<>>
      BY <3>1 DEF PutBackSaved
    <3>2. CASE saved # <<>>
      <4>1. saved[1] \in Asts /\ t.cur_ast_typed \in BOOLEAN
        BY <3>2, Facts DEF Wf, Traces
      <4>2. p = close_step(PutBack(open_step(t, flags, "transfo", FALSE, FALSE),
                                   saved[1], t.cur_ast_typed), flags, FALSE, FALSE)
        BY <3>2 DEF PutBackSaved, DirectStep, open_step
      <4> HIDE DEF p
      <4> QED BY <2>1, <4>1, <4>2, Facts, RestoreStepWf
    <3> QED BY <3>1, <3>2
  <2> QED BY <2>1 DEF Then
<1>2. /\ Wf(w)
      /\ w.exn = "none" => Len(w.step_stack) = 1
  <2>1. CASE u.exn # "none"
    BY <1>1, <2>1
  <2>2. CASE u.exn = "none"
    <3>1. Wf(b)
      BY <1>1, <2>2, Facts, CloseBigstepWf
    <3>2. v = IF b.exn # "none" THEN b
              ELSE IF Len(b.step_stack) # 1 THEN [b EXCEPT !.exn = "trace"] ELSE r
      BY DEF close_root_step, Then
    <3>3. b.exn = "none" => /\ Wf(r)
                            /\ r.exn = "none" => Len(r.step_stack) = Len(b.step_stack)
      <4> HIDE DEF b
      <4> QED BY <3>1, Facts, FinalizeStepWf
    <3>4. Wf([b EXCEPT !.exn = "trace"]) /\ [b EXCEPT !.exn = "trace"].exn = "trace"
      <4> DEFINE e == [b EXCEPT !.exn = "trace"]
      <4> HIDE DEF b
      <4>1. /\ e \in Traces /\ e.step_stack = b.step_stack
            /\ e.next_step_id = b.next_step_id /\ e.exn = "trace"
        BY <3>1 DEF Wf, Traces
      <4> QED BY <3>1, <4>1, WfSameStack
    <3> HIDE DEF b, r, v
    <3> QED BY <2>2, <3>1, <3>2, <3>3, <3>4
  <2> QED BY <2>1, <2>2
<1>3. IF w.exn = "none"
      THEN /\ the_trace' = [w EXCEPT !.next_step_id = root.last + 1]
           /\ report' = <<root>> /\ mode' = "done"
      ELSE /\ the_trace' = [w EXCEPT !.exn = "none"]
           /\ mode' \in {"failed", "crashed"} /\ report' = report
  BY DEF finalize, Then
<1> HIDE DEF p, u, b, r, v, w
<1>4. CASE w.exn # "none"
  <2>1. Wf(the_trace') /\ the_trace'.exn = "none"
    BY <1>2, <1>3, <1>4, ClearExnWf
  <2>2. mode' \in Modes \ {"done", "closing"} /\ report' = report
    BY <1>3, <1>4 DEF Modes
  <2> QED BY <2>1, <2>2, Facts, StepOK
<1>5. CASE w.exn = "none"
  <2>1. root \in ClosedSteps /\ SubEnd(Top(w)) <= root.last
    BY <1>2, Facts, ClosedStepType
  <2> HIDE DEF root
  <2>2. root.last + 1 \in Nat
    BY <2>1 DEF ClosedSteps
  <2>3. /\ the_trace' \in Traces /\ the_trace'.exn = "none"
        /\ the_trace'.step_stack = w.step_stack
        /\ the_trace'.next_step_id = root.last + 1
    BY <1>2, <1>3, <1>5, <2>2 DEF Wf, Traces
  <2>4. Len(w.step_stack) = 1 /\ Last(w.step_stack) = w.step_stack[1]
    BY <1>2, <1>5 DEF Last
  <2>5. StackOK(w.step_stack, SubEnd(Last(w.step_stack)) + 1)
    BY <1>2 DEF Wf, StackOK
  <2>6. report' = <<root>> /\ report'[1] = root /\ Len(report') = 1 /\ mode' = "done"
    BY <1>3, <1>5
  <2>7. Reported(the_trace', report')
    BY <2>1, <2>3, <2>4, <2>5, <2>6 DEF Reported, Top
  <2>8. report' \in Seq(ClosedSteps)
    BY <2>1, <2>6
  <2>9. TraceInv'
    BY <2>3, <2>6, <2>7 DEF TraceInv
  <2>10. ControlInv'
    BY <2>6, Facts DEF ControlInv, Modes
  <2> QED BY <2>6, <2>8, <2>9, <2>10, Facts DEF IInv, RecordsInv
<1> QED BY <1>4, <1>5

LEMMA OutputOK ==
  ASSUME IInv, mode # "done", NEW t, Wf(t), t.exn = "none", produce_output_and_exit(t)
  PROVE  IInv'
<1>1. Wf(the_trace') /\ the_trace'.exn = "none" /\ mode' \in Modes \ {"done", "closing"}
  BY DEF produce_output_and_exit, Modes
<1>2. UNCHANGED <<flags, frames, saved, report>>
  BY DEF produce_output_and_exit
<1> QED BY <1>1, <1>2, Facts, StepOK

LEMMA ContinueInv ==
  ASSUME IInv, mode # "done", NEW t, Wf(t), Continue(t), UNCHANGED report,
         flags' \in FlagValues, FramesOK(frames'), saved' \in Seq(Asts), Len(saved') <= 1
  PROVE  IInv'
<1>1. Wf(the_trace') /\ the_trace'.exn = "none" /\ mode' \in {"run", "failed", "raise"}
  BY ContinueOK
<1>2. mode' \in Modes \ {"done", "closing"}
  BY <1>1 DEF Modes
<1> QED BY <1>1, <1>2, StepOK

LEMMA OpenScriptStepOK ==
  ASSUME IInv, mode # "done", NEW t, Wf(t), NEW kind \in {"small", "big"},
         NEW parse_again \in BOOLEAN, OpenScriptStep(t, kind, parse_again)
  PROVE  IInv'
<1> DEFINE u == IF parse_again THEN reparse(t) ELSE t
           v == open_step(u, flags, kind, FALSE, FALSE)
<1>1. Wf(u)
  BY ReparseWf
<1> HIDE DEF u
<1>2. kind \in Kinds \ {"root"}
  BY DEF Kinds
<1>3. \A b, c \in BOOLEAN : Wf(open_step(u, flags, kind, b, c))
  BY <1>1, <1>2, Facts, OpenStepWf
<1>4. Wf(v)
  BY <1>3
<1>5. Continue(v) /\ UNCHANGED <<flags, frames, saved, report>>
  BY DEF OpenScriptStep, u
<1> HIDE DEF v
<1> QED BY <1>4, <1>5, Facts, ContinueInv

LEMMA StartOK ==
  IInv /\ Start => IInv'
<1> SUFFICES ASSUME IInv, Start PROVE IInv'
  OBVIOUS
<1> DEFINE t == open_step(the_trace, flags, "small", FALSE, FALSE)
<1>1. mode = "start" /\ mode' = "run" /\ UNCHANGED <<flags, saved, report>>
  BY DEF Start
<1>2. mode # "done" /\ mode' \in Modes \ {"done", "closing"}
  BY <1>1 DEF Modes
<1>3. CASE UNCHANGED <<the_trace, frames>>
  BY <1>1, <1>2, <1>3, Facts, StepOK
<1>4. CASE the_trace' = t /\ frames' = Push(t, "step", FALSE)
  <2>1. "small" \in Kinds \ {"root"} /\ "step" \in FrameKinds \ {"expected"}
    BY DEF Kinds, FrameKinds
  <2>2. \A b, c \in BOOLEAN :
          LET u == open_step(the_trace, flags, "small", b, c)
          IN Wf(u) /\ u.exn = "none" /\ Len(u.step_stack) = Depth + 1
    BY <1>2, <2>1, Facts, OpenStepWf DEF Depth
  <2>3. Wf(t) /\ t.exn = "none" /\ Len(t.step_stack) = Depth + 1
    BY <2>2
  <2> HIDE DEF t
  <2>4. Len(t.step_stack) > 1
    BY <1>2, <2>3, Facts
  <2>5. FramesOK(Push(t, "step", FALSE))
    BY <1>2, <2>1, <2>3, <2>4, PushFrameOK
  <2> QED BY <1>1, <1>2, <1>4, <2>3, <2>5, Facts, StepOK
<1> QED BY <1>3, <1>4 DEF Start

LEMMA SmallStepOK ==
  ASSUME NEW hit \in BOOLEAN, NEW parse_again \in BOOLEAN
  PROVE  IInv /\ open_smallstep(hit, parse_again) => IInv'
<1> SUFFICES ASSUME IInv, open_smallstep(hit, parse_again) PROVE IInv'
  OBVIOUS
<1> DEFINE t == close_step_kind_if_needed(the_trace, flags, "small")
<1>1. mode # "done"
  BY DEF open_smallstep, AtTop, Running
<1>2. Wf(t)
  BY <1>1, Facts, CloseKindWf
<1>3. CASE t.exn # "none"
  <2>1. Continue(t) /\ UNCHANGED <<flags, frames, saved, report>>
    BY <1>3 DEF open_smallstep, AndThen
  <2> HIDE DEF t
  <2> QED BY <1>1, <1>2, <2>1, Facts, ContinueInv
<1>4. CASE t.exn = "none"
  <2>1. produce_output_and_exit(t) \/ OpenScriptStep(t, "small", parse_again)
    BY <1>4 DEF open_smallstep, AndThen
  <2> HIDE DEF t
  <2> QED BY <1>1, <1>2, <1>4, <2>1, OutputOK, OpenScriptStepOK
<1> QED BY <1>3, <1>4

LEMMA BigStepOK ==
  ASSUME NEW hit \in BOOLEAN, NEW parse_again \in BOOLEAN
  PROVE  IInv /\ open_bigstep(hit, parse_again) => IInv'
<1> SUFFICES ASSUME IInv, open_bigstep(hit, parse_again) PROVE IInv'
  OBVIOUS
<1> DEFINE t == close_step_kind_if_needed(the_trace, flags, "small")
           u == close_bigstep_if_needed(t, flags)
<1>1. mode # "done"
  BY DEF open_bigstep, AtTop, Running
<1>2. Wf(t)
  BY <1>1, Facts, CloseKindWf
<1>3. CASE t.exn # "none"
  <2>1. Continue(t) /\ UNCHANGED <<flags, frames, saved, report>>
    BY <1>3 DEF open_bigstep, AndThen
  <2> HIDE DEF t
  <2> QED BY <1>1, <1>2, <2>1, Facts, ContinueInv
<1>4. CASE t.exn = "none"
  <2>1. Wf(u)
    <3> HIDE DEF t
    <3> QED BY <1>1, <1>2, <1>4, Facts, CloseBigstepWf
  <2>2. \/ produce_output_and_exit(t)
        \/ u.exn = "none" /\ produce_output_and_exit(u)
        \/ u.exn = "none" /\ OpenScriptStep(u, "big", parse_again)
        \/ Continue(u) /\ UNCHANGED <<flags, frames, saved, report>>
    BY <1>4 DEF open_bigstep, AndThen
  <2> HIDE DEF t, u
  <2> QED BY <1>1, <1>2, <1>4, <2>1, <2>2, Facts, OutputOK, OpenScriptStepOK, ContinueInv
<1> QED BY <1>3, <1>4

LEMMA EndScriptOK ==
  IInv /\ EndScript => IInv'
<1> SUFFICES ASSUME IInv, EndScript PROVE IInv'
  OBVIOUS
<1> DEFINE b == close_bigstep_if_needed(the_trace, flags)
           t == IF flags.only_big_steps THEN b
                ELSE close_step_kind_if_needed(the_trace, flags, "small")
<1>1. mode # "done" /\ UNCHANGED <<flags, frames, saved>>
  BY DEF EndScript, AtTop, Running
<1>2. Wf(b)
  BY <1>1, Facts, CloseBigstepWf
<1>3. Wf(t)
  BY <1>1, <1>2, Facts, CloseKindWf
<1>4. CASE ~Targetting
  <2>1. finalize(b, FALSE)
    BY <1>4 DEF EndScript
  <2>2. \A e \in BOOLEAN : finalize(b, e) => IInv'
    <3> HIDE DEF b
    <3> QED BY <1>1, <1>2, FinalizeOK
  <2> HIDE DEF b
  <2> QED BY <2>1, <2>2
<1>5. CASE Targetting /\ t.exn = "none"
  <2>1. produce_output_and_exit(t)
    BY <1>5 DEF EndScript
  <2> HIDE DEF t
  <2> QED BY <1>1, <1>3, <1>5, <2>1, OutputOK
<1>6. CASE Targetting /\ t.exn # "none"
  <2>1. the_trace' = [t EXCEPT !.exn = "none"] /\ mode' = "crashed" /\ report' = report
    BY <1>6 DEF EndScript
  <2> HIDE DEF t
  <2>2. Wf(the_trace') /\ the_trace'.exn = "none"
    BY <1>3, <2>1, ClearExnWf
  <2>3. mode' \in Modes \ {"done", "closing"}
    BY <2>1 DEF Modes
  <2> QED BY <1>1, <2>1, <2>2, <2>3, Facts, StepOK
<1> QED BY <1>4, <1>5, <1>6

-----------------------------------------------------------------------------
(* The steps of a body.                                                     *)

\* A step of a body that only changes the trace.
LEMMA TraceOnlyOK ==
  ASSUME IInv, Running, Wf(the_trace'), the_trace'.exn = "none", mode' \in Modes \ {"done", "closing"},
         UNCHANGED <<flags, frames, report>>, saved' \in Seq(Asts), Len(saved') <= 1
  PROVE  IInv'
<1>1. mode # "done"
  BY DEF Running
<1> QED BY <1>1, Facts, StepOK

LEMMA RunningFacts ==
  ASSUME Running
  PROVE  mode # "done" /\ mode \in Modes \ {"done", "closing"}
BY DEF Running, Modes

LEMMA ApplyOK ==
  ASSUME NEW code \in Codes
  PROVE  IInv /\ apply(code) => IInv'
<1> SUFFICES ASSUME IInv, apply(code) PROVE IInv'
  OBVIOUS
<1>1. Running /\ UNCHANGED <<flags, frames, mode, saved, report>>
  BY DEF apply, CanBuildAst
<1> DEFINE ann == IF the_trace.cur_ast.ann = "none" THEN "none" ELSE "stale"
<1>2. the_trace' = PutNew(the_trace, code, ann, FALSE)
  BY DEF apply
<1>3. ann \in {"none", "stale", "typed", "error"}
  OBVIOUS
<1> HIDE DEF ann
<1>4. \A b \in BOOLEAN : LET u == PutNew(the_trace, code, ann, b)
                         IN Wf(u) /\ u.exn = "none"
  BY <1>1, <1>3, Facts, RunningFacts, PutNewWf, ZenonT(60)
<1>5. Wf(the_trace') /\ the_trace'.exn = "none"
  BY <1>2, <1>4
<1> QED BY <1>1, <1>5, Facts, RunningFacts, TraceOnlyOK

\* A new AST for the same program.
LEMMA NewSameCode ==
  ASSUME IInv, mode # "done", NEW typed \in BOOLEAN
  PROVE  LET u == PutNew(the_trace, the_trace.cur_ast.code, the_trace.cur_ast.ann, typed)
         IN Wf(u) /\ u.exn = "none" /\ u.cur_ast \in Asts
<1> DEFINE u == PutNew(the_trace, the_trace.cur_ast.code, the_trace.cur_ast.ann, typed)
<1>1. Wf(u) /\ u.exn = "none"
  BY Facts, PutNewWf
<1> HIDE DEF u
<1>2. u.cur_ast \in Asts
  BY <1>1 DEF Wf, Traces
<1> QED BY <1>1, <1>2 DEF u

LEMMA ApplyMarksOK ==
  IInv /\ apply_marks => IInv'
<1> SUFFICES ASSUME IInv, apply_marks PROVE IInv'
  OBVIOUS
<1>1. Running /\ UNCHANGED <<flags, frames, mode, saved, report>>
  BY DEF apply_marks, CanBuildAst
<1>2. \A b \in BOOLEAN :
        LET u == PutNew(the_trace, the_trace.cur_ast.code, the_trace.cur_ast.ann, b)
        IN Wf(u) /\ u.exn = "none"
  BY <1>1, RunningFacts, NewSameCode
<1>3. Wf(the_trace') /\ the_trace'.exn = "none"
  BY <1>2 DEF apply_marks
<1> QED BY <1>1, <1>3, Facts, RunningFacts, TraceOnlyOK

LEMMA JustifyOK ==
  IInv /\ Justify => IInv'
<1> SUFFICES ASSUME IInv, Justify PROVE IInv'
  OBVIOUS
<1>1. Running /\ the_trace' = justif(the_trace) /\ UNCHANGED <<flags, frames, mode, saved, report>>
  BY DEF Justify
<1>2. Wf(the_trace') /\ the_trace'.exn = "none"
  BY <1>1, Facts, RunningFacts, JustifWf
<1> QED BY <1>1, <1>2, Facts, RunningFacts, TraceOnlyOK

\* A step of its own around one assignment, of a kind that preserves the code.
LEMMA LeafOK ==
  ASSUME NEW t, Wf(t), NEW kind \in Kinds, NEW before \in Asts, NEW after \in Asts,
         NEW b \in BOOLEAN
  PROVE  LET u == LeafStep(t, kind, before, after, b)
         IN Wf(u) /\ u.exn = t.exn
<1> DEFINE u == LeafStep(t, kind, before, after, b)
<1>1. Wf(u) /\ u.exn = t.exn
  BY LeafStepWf
<1> QED BY <1>1

LEMMA IterOK ==
  IInv /\ set_ast_for_target_iter => IInv'
<1> SUFFICES ASSUME IInv, set_ast_for_target_iter PROVE IInv'
  OBVIOUS
<1> DEFINE old == the_trace.cur_ast
           u == PutNew(the_trace, old.code, old.ann, FALSE)
<1>1. Running /\ UNCHANGED <<flags, frames, mode, saved, report>>
  BY DEF set_ast_for_target_iter, CanBuildAst
<1>2. the_trace' = LeafStep(u, "mark_manip", old, u.cur_ast, TRUE)
  BY DEF set_ast_for_target_iter
<1>3. Wf(u) /\ u.exn = "none" /\ u.cur_ast \in Asts
  <2>1. \A b \in BOOLEAN : LET w == PutNew(the_trace, old.code, old.ann, b)
                           IN Wf(w) /\ w.exn = "none" /\ w.cur_ast \in Asts
    BY <1>1, RunningFacts, NewSameCode
  <2> QED BY <2>1
<1>4. old \in Asts /\ "mark_manip" \in Kinds
  BY <1>1, Facts, RunningFacts DEF Kinds
<1> HIDE DEF old, u
<1>5. Wf(the_trace') /\ the_trace'.exn = "none"
  BY <1>2, <1>3, <1>4, LeafOK
<1> QED BY <1>1, <1>5, Facts, RunningFacts, TraceOnlyOK

LEMMA ResolveOK ==
  IInv /\ target_resolve_step => IInv'
<1> SUFFICES ASSUME IInv, target_resolve_step PROVE IInv'
  OBVIOUS
<1> DEFINE old == the_trace.cur_ast
           u == IF RequestTrace THEN PutNew(the_trace, old.code, old.ann, the_trace.cur_ast_typed)
                ELSE the_trace
           v == LeafStep(u, "target_resolve", old, u.cur_ast, TRUE)
<1>1. Running /\ UNCHANGED <<flags, frames, mode, saved, report>>
  BY DEF target_resolve_step, CanBuildAst
<1>2. the_trace' = PutBack(v, old, the_trace.cur_ast_typed)
  BY DEF target_resolve_step
<1>3. Wf(u) /\ u.exn = "none" /\ u.cur_ast \in Asts
  BY <1>1, Facts, RunningFacts, NewSameCode
<1>4. old \in Asts /\ "target_resolve" \in Kinds /\ the_trace.cur_ast_typed \in BOOLEAN
  BY <1>1, Facts, RunningFacts DEF Kinds
<1> HIDE DEF old, u
<1>5. Wf(v) /\ v.exn = "none"
  BY <1>3, <1>4, LeafOK
<1> HIDE DEF v
<1>6. Wf(the_trace') /\ the_trace'.exn = "none"
  BY <1>2, <1>4, <1>5, PutBackWf
<1> QED BY <1>1, <1>6, Facts, RunningFacts, TraceOnlyOK

LEMMA EnsureOK ==
  IInv /\ ensure_computed => IInv'
<1> SUFFICES ASSUME IInv, ensure_computed PROVE IInv'
  OBVIOUS
<1> DEFINE t == recompute_resources(the_trace, flags)
<1>1. mode # "done" /\ Continue(t) /\ UNCHANGED <<flags, frames, saved, report>>
  BY DEF ensure_computed, CanBuildAst, Running
<1>2. Wf(t)
  BY <1>1, Facts, RecomputeWf
<1> HIDE DEF t
<1> QED BY <1>1, <1>2, Facts, ContinueInv

\* The AST the script started from is the one its root step was opened on.
LEMMA RootBefore ==
  ASSUME NEW t, Wf(t)
  PROVE  t.step_stack[1].before \in Asts
<1>1. t.step_stack \in Seq(Steps) /\ Len(t.step_stack) \in Nat /\ Len(t.step_stack) > 0
  BY TopOfWf
<1>2. t.step_stack[1] \in Steps
  BY <1>1
<1> QED BY <1>2 DEF Steps, OpenSteps

LEMMA RestoreOK ==
  IInv /\ restore_original => IInv'
<1> SUFFICES ASSUME IInv, restore_original PROVE IInv'
  OBVIOUS
<1> DEFINE u == open_step(the_trace, flags, "transfo", FALSE, FALSE)
           ast == the_trace.step_stack[1].before
           t == close_step(PutBack(u, ast, FALSE), flags, FALSE, FALSE)
<1>1. mode # "done" /\ UNCHANGED <<flags, frames, report>> /\ saved' = SetAsideOnce
  BY DEF restore_original, CanBuildAst, Running
<1>2. u.step_stack[1].before = ast
  <2>1. /\ the_trace \in Traces /\ the_trace.step_stack \in Seq(Steps)
        /\ Len(the_trace.step_stack) \in Nat /\ Len(the_trace.step_stack) > 0
    BY <1>1, Facts, TopOfWf
  <2> DEFINE x == [id |-> the_trace.next_step_id, kind |-> "transfo",
                   before |-> the_trace.cur_ast, sub |-> <<>>,
                   valid |-> FALSE, granted |-> FALSE,
                   check_validity |-> flags.check_validity, show |-> FALSE]
  <2>2. u.step_stack = Append(the_trace.step_stack, x)
    BY <2>1 DEF open_step, Traces
  <2> HIDE DEF x, u
  <2> QED BY <2>1, <2>2
<1>3. Continue(t)
  BY <1>2 DEF restore_original, DirectStep
<1>4. ast \in Asts
  BY <1>1, Facts, RootBefore
<1>5. Wf(t)
  <2>1. \A b \in BOOLEAN : Wf(close_step(PutBack(u, ast, b), flags, FALSE, FALSE))
    <3> HIDE DEF ast
    <3> QED BY <1>1, <1>4, Facts, RestoreStepWf
  <2> QED BY <2>1
<1>6. saved' \in Seq(Asts) /\ Len(saved') <= 1
  BY <1>1, Facts DEF SetAsideOnce
<1> HIDE DEF t
<1> QED BY <1>1, <1>3, <1>5, <1>6, Facts, ContinueInv

LEMMA RaiseOK ==
  IInv /\ Raise => IInv'
<1> SUFFICES ASSUME IInv, Raise PROVE IInv'
  OBVIOUS
<1>1. Running /\ mode' \in Modes \ {"done", "closing"}
      /\ UNCHANGED <<the_trace, flags, frames, saved, report>>
  BY DEF Raise, Modes
<1> QED BY <1>1, Facts, RunningFacts, TraceOnlyOK

LEMMA ShowOK ==
  ASSUME NEW marked \in BOOLEAN
  PROVE  IInv /\ show_step(marked) => IInv'
<1> SUFFICES ASSUME IInv, show_step(marked) PROVE IInv'
  OBVIOUS
<1> DEFINE old == the_trace.cur_ast
           t == open_step(the_trace, flags, "backtrack", FALSE, TRUE)
           u == IF marked THEN PutNew(t, old.code, old.ann, t.cur_ast_typed) ELSE t
           l == LeafStep(u, "show", old, u.cur_ast, flags.check_validity)
           v == PutBack(l, old, t.cur_ast_typed)
           j == justif(v)
           f == [flags EXCEPT !.recompute = FALSE]
           c == close_step(j, f, FALSE, FALSE)
           r == recompute_resources(c, flags)
           w == IF c.exn = "none" /\ flags.recompute THEN r ELSE c
<1>1. mode # "done" /\ UNCHANGED <<flags, frames, saved, report>>
  BY DEF show_step, CanBuildAst, Running
<1>2. Continue(w)
  BY DEF show_step, Then
<1>3. /\ old \in Asts /\ old.code \in Codes /\ old.ann \in {"none", "stale", "typed", "error"}
      /\ "backtrack" \in Kinds \ {"root"} /\ "show" \in Kinds
      /\ Depth \in Nat /\ Depth > 0 /\ flags.check_validity \in BOOLEAN /\ f \in FlagValues
  BY <1>1, Facts, FlagsOK DEF Kinds
<1>4. Wf(t) /\ t.exn = "none" /\ Len(t.step_stack) = Depth + 1
  <2>1. "backtrack" \in Kinds \ {"root"} /\ Wf(the_trace) /\ the_trace.exn = "none"
        /\ flags \in FlagValues
    BY <1>1, <1>3, Facts
  <2>2. \A b, s \in BOOLEAN :
          LET o == open_step(the_trace, flags, "backtrack", b, s)
          IN Wf(o) /\ o.exn = "none" /\ Len(o.step_stack) = Depth + 1
    BY <2>1, OpenStepWf DEF Depth
  <2> QED BY <2>2
<1> HIDE DEF old, t, f
<1>5. t.cur_ast_typed \in BOOLEAN /\ t.cur_ast \in Asts
  BY <1>4 DEF Wf, Traces
<1>6. Wf(u) /\ u.exn = "none" /\ u.step_stack = t.step_stack
  BY <1>3, <1>4, <1>5, PutNewWf
<1> HIDE DEF u
<1>7. u.cur_ast \in Asts
  BY <1>6 DEF Wf, Traces
<1>8. Wf(l) /\ l.exn = "none" /\ Len(l.step_stack) = Len(u.step_stack)
  BY <1>3, <1>6, <1>7, LeafStepWf
<1> HIDE DEF l
<1>9. Wf(v) /\ v.exn = "none" /\ v.step_stack = l.step_stack
  BY <1>3, <1>5, <1>8, PutBackWf
<1> HIDE DEF v
<1>10. Wf(j) /\ j.exn = "none" /\ Len(j.step_stack) = Len(v.step_stack)
  BY <1>9, JustifWf
<1> HIDE DEF j
<1>11. Len(j.step_stack) > 1
  BY <1>3, <1>4, <1>6, <1>8, <1>9, <1>10
<1>12. Wf(c)
  <2>1. \A d, e \in BOOLEAN : Wf(close_step(j, f, d, e))
    BY <1>3, <1>10, <1>11, CloseStepWf
  <2> QED BY <2>1
<1> HIDE DEF c
<1>13. c.exn = "none" => Wf(r)
  BY <1>1, <1>12, Facts, RecomputeWf
<1> HIDE DEF r
<1>14. Wf(w)
  BY <1>12, <1>13
<1> HIDE DEF w
<1> QED BY <1>1, <1>2, <1>14, Facts, ContinueInv

-----------------------------------------------------------------------------
(* Entering the combinators.                                                *)

\* The frame of a combinator that has opened a step is the innermost one.
OnTop(fs, kind) ==
  /\ FramesOK(fs) /\ fs # <<>> /\ Last(fs) \in Frames
  /\ Last(fs).kind = kind /\ Last(fs).depth > 1

\* Opening a step and pushing its frame.
LEMMA OpenPush ==
  ASSUME IInv, mode # "done", NEW kind \in Kinds \ {"root"}, NEW frame \in FrameKinds \ {"expected"},
         NEW show \in BOOLEAN, NEW discard \in BOOLEAN
  PROVE  LET t == open_step(the_trace, flags, kind, FALSE, show)
             fs == Push(t, frame, discard)
         IN Wf(t) /\ t.exn = "none" /\ OnTop(fs, frame)
<1> DEFINE t == open_step(the_trace, flags, kind, FALSE, show)
           fs == Push(t, frame, discard)
<1>1. Wf(t) /\ t.exn = "none" /\ Len(t.step_stack) = Depth + 1
  <2>1. \A b \in BOOLEAN :
          LET u == open_step(the_trace, flags, kind, b, show)
          IN Wf(u) /\ u.exn = "none" /\ Len(u.step_stack) = Depth + 1
    BY Facts, OpenStepWf DEF Depth
  <2> QED BY <2>1
<1> HIDE DEF t
<1>2. Len(t.step_stack) > 1
  BY <1>1, Facts
<1>3. /\ FramesOK(fs) /\ fs # <<>> /\ Last(fs) \in Frames
      /\ Last(fs).kind = frame /\ Last(fs).depth = Len(t.step_stack)
  BY <1>1, <1>2, PushFrameOK
<1> HIDE DEF fs
<1>4. OnTop(fs, frame)
  BY <1>2, <1>3 DEF OnTop
<1> QED BY <1>1, <1>4 DEF t, fs

LEMMA EnterStepOK ==
  ASSUME IInv, Running, NEW kind \in Kinds \ {"root"}, NEW frame \in FrameKinds \ {"expected"},
         NEW discard \in BOOLEAN, EnterStep(frame, kind, FALSE, discard)
  PROVE  IInv'
<1> DEFINE t == open_step(the_trace, flags, kind, FALSE, FALSE)
<1>1. \A b \in BOOLEAN :
        LET u == open_step(the_trace, flags, kind, FALSE, b)
        IN Wf(u) /\ u.exn = "none" /\ OnTop(Push(u, frame, discard), frame)
  BY RunningFacts, OpenPush
<1>2. the_trace' = t /\ frames' = Push(t, frame, discard) /\ UNCHANGED <<flags, mode, saved, report>>
  BY DEF EnterStep
<1>3. Wf(the_trace') /\ the_trace'.exn = "none" /\ FramesOK(frames')
  BY <1>1, <1>2 DEF OnTop
<1> QED BY <1>2, <1>3, Facts, RunningFacts, StepOK

LEMMA EnterFlagOK ==
  ASSUME IInv, Running, NEW frame \in {"unchecked", "notyping", "preserve"},
         NEW f \in FlagValues, EnterFlag(frame, f)
  PROVE  IInv'
<1>1. frame \in FrameKinds \ {"expected"} /\ frame \notin StepFrameKinds
  BY DEF FrameKinds, StepFrameKinds
<1>2. \A b \in BOOLEAN : FramesOK(Push(the_trace, frame, b))
  BY <1>1, Facts, RunningFacts, PushFrameOK
<1>3. FramesOK(frames') /\ flags' = f /\ UNCHANGED <<the_trace, mode, saved, report>>
  BY <1>2 DEF EnterFlag
<1> QED BY <1>3, Facts, RunningFacts, StepOK

LEMMA EnterOK ==
  IInv /\ Enter => IInv'
<1> SUFFICES ASSUME IInv, Enter PROVE IInv'
  OBVIOUS
<1>1. Running /\ mode # "done"
  BY DEF Enter, Transfo, step_group, trustme, without_substep_validity_checks,
     without_resource_computation_between_steps, preserves_resource_typing, failure_expected,
     step_backtrack, step_backtrack_on_failure, CanOpen, Running
<1>2. /\ {"transfo", "group", "backtrack", "trustme"} \subseteq Kinds \ {"root"}
      /\ {"step", "backtrack", "onfailure", "trustme"} \subseteq FrameKinds \ {"expected"}
  BY DEF Kinds, FrameKinds
<1>a. /\ "backtrack" \in Kinds \ {"root"} /\ "trustme" \in Kinds \ {"root"}
      /\ "backtrack" \in FrameKinds \ {"expected"} /\ "trustme" \in FrameKinds \ {"expected"}
  BY <1>2
<1>3. /\ [flags EXCEPT !.check_validity = FALSE] \in FlagValues
      /\ [flags EXCEPT !.recompute = FALSE] \in FlagValues
  BY <1>1, Facts, FlagsOK
<1>4. ASSUME NEW kind \in Kinds \ {"root"}, NEW frame \in FrameKinds \ {"expected"},
             NEW discard \in BOOLEAN, EnterStep(frame, kind, FALSE, discard)
      PROVE  IInv'
  BY <1>1, <1>4, EnterStepOK
<1>5. CASE Transfo \/ step_group
  <2>1. EnterStep("step", "transfo", FALSE, FALSE) \/ EnterStep("step", "group", FALSE, FALSE)
    BY <1>5 DEF Transfo, step_group
  <2>2. \A b \in BOOLEAN, kind \in {"transfo", "group"} :
          EnterStep("step", kind, FALSE, b) => IInv'
    BY <1>2, <1>4
  <2> QED BY <2>1, <2>2
<1>6. CASE trustme
  <2> DEFINE t == open_step(the_trace, flags, "trustme", FALSE, FALSE)
  <2>1. \A b, c \in BOOLEAN :
          LET u == open_step(the_trace, flags, "trustme", FALSE, b)
          IN Wf(u) /\ u.exn = "none" /\ OnTop(Push(u, "trustme", c), "trustme")
    BY <1>1, <1>a, OpenPush
  <2>2. /\ the_trace' = t /\ frames' = Push(t, "trustme", FALSE)
        /\ flags' = [flags EXCEPT !.check_validity = FALSE] /\ UNCHANGED <<mode, saved, report>>
    BY <1>6 DEF trustme
  <2>3. Wf(the_trace') /\ the_trace'.exn = "none" /\ FramesOK(frames')
    BY <2>1, <2>2 DEF OnTop
  <2>4. flags' \in FlagValues /\ mode' \in Modes \ {"done", "closing"}
    BY <1>1, <1>3, <2>2, RunningFacts
  <2> QED BY <1>1, <2>2, <2>3, <2>4, Facts, StepOK
<1>7. CASE \/ without_substep_validity_checks \/ without_resource_computation_between_steps
           \/ preserves_resource_typing
  <2>1. \/ EnterFlag("unchecked", [flags EXCEPT !.check_validity = FALSE])
        \/ EnterFlag("notyping", [flags EXCEPT !.recompute = FALSE])
        \/ EnterFlag("preserve", [flags EXCEPT !.recompute = FALSE])
    BY <1>7 DEF without_substep_validity_checks, without_resource_computation_between_steps,
       preserves_resource_typing
  <2> QED BY <1>1, <1>3, <2>1, EnterFlagOK
<1>8. CASE \E discard \in BOOLEAN : step_backtrack(discard) \/ step_backtrack_on_failure(discard)
  <2>1. PICK discard \in BOOLEAN : \/ EnterStep("backtrack", "backtrack", FALSE, discard)
                                   \/ EnterStep("onfailure", "backtrack", FALSE, discard)
    BY <1>8 DEF step_backtrack, step_backtrack_on_failure
  <2> QED BY <1>2, <1>4, <2>1
<1>9. CASE failure_expected
  <2> DEFINE t == open_step(the_trace, flags, "backtrack", FALSE, FALSE)
             outer == Push(t, "backtrack", FALSE)
             x == [Last(outer) EXCEPT !.kind = "expected"]
  <2>1. \A b, c \in BOOLEAN :
          LET u == open_step(the_trace, flags, "backtrack", FALSE, b)
          IN Wf(u) /\ u.exn = "none" /\ OnTop(Push(u, "backtrack", c), "backtrack")
    BY <1>1, <1>a, OpenPush
  <2>2. Wf(t) /\ t.exn = "none" /\ OnTop(outer, "backtrack")
    BY <2>1
  <2>3. the_trace' = t /\ frames' = Append(outer, x) /\ UNCHANGED <<flags, mode, saved, report>>
    BY <1>9 DEF failure_expected
  <2> HIDE DEF t, outer
  <2>4. x \in Frames /\ x.kind = "expected" /\ x.depth > 1
    BY <2>2 DEF OnTop, Frames, FrameKinds
  <2> HIDE DEF x
  <2>5. FramesOK(frames')
    BY <2>2, <2>3, <2>4, PushOK DEF OnTop
  <2>6. flags' \in FlagValues /\ mode' \in Modes \ {"done", "closing"}
    BY <1>1, <2>3, Facts, RunningFacts
  <2> QED BY <1>1, <2>2, <2>3, <2>5, <2>6, Facts, StepOK
<1> QED BY <1>5, <1>6, <1>7, <1>8, <1>9 DEF Enter

-----------------------------------------------------------------------------
(* Leaving them.                                                            *)

LEMMA FrameFacts ==
  ASSUME IInv, mode # "done", frames # <<>>
  PROVE  /\ FramesOK(Front(frames)) /\ Frame \in Frames
         /\ Frame.kind \in FrameKinds /\ Frame.depth \in Nat
         /\ Frame.kind \in StepFrameKinds => Frame.depth > 1
         /\ Frame.kind = "expected" =>
              Front(frames) # <<>> /\ Last(Front(frames)).kind = "backtrack"
         /\ Frame.ast \in Asts /\ Frame.typed \in BOOLEAN /\ Frame.discard \in BOOLEAN
         /\ Frame.flags \in FlagValues
         /\ Frame.flags.check_validity \in BOOLEAN /\ Frame.flags.recompute \in BOOLEAN
<1>1. /\ FramesOK(Front(frames)) /\ Frame \in Frames
      /\ Frame.kind \in StepFrameKinds => Frame.depth > 1
      /\ Frame.kind = "expected" =>
           Front(frames) # <<>> /\ Last(Front(frames)).kind = "backtrack"
  BY Facts, PopOK DEF Frame
<1>2. /\ Frame.kind \in FrameKinds /\ Frame.depth \in Nat /\ Frame.ast \in Asts
      /\ Frame.typed \in BOOLEAN /\ Frame.discard \in BOOLEAN /\ Frame.flags \in FlagValues
  BY <1>1 DEF Frames
<1>3. Frame.flags.check_validity \in BOOLEAN /\ Frame.flags.recompute \in BOOLEAN
  BY <1>2, FlagsOK
<1> QED BY <1>1, <1>2, <1>3

\* A body that has returned, and whose step is closed.
LEMMA CloseFrameOK ==
  ASSUME IInv, mode # "done", frames # <<>>, Frame.kind \in StepFrameKinds,
         NEW f \in FlagValues, NEW discard \in BOOLEAN
  PROVE  Wf(CloseChecked(the_trace, f, Frame.depth, discard))
<1>1. Frame.depth \in Nat /\ Frame.depth > 1 /\ Wf(the_trace) /\ the_trace.exn = "none"
  BY Facts, FrameFacts
<1> QED BY <1>1, CloseCheckedWf

LEMMA LeaveStepOK ==
  ASSUME IInv, Running, frames # <<>>, Frame.kind \in StepFrameKinds,
         frames' = Front(frames), flags' \in FlagValues, UNCHANGED <<saved, report>>,
         Continue(CloseChecked(the_trace, flags', Frame.depth, FALSE))
  PROVE  IInv'
<1> DEFINE t == CloseChecked(the_trace, flags', Frame.depth, FALSE)
<1>1. Wf(t)
  <2>1. \A b \in BOOLEAN : Wf(CloseChecked(the_trace, flags', Frame.depth, b))
    BY RunningFacts, CloseFrameOK
  <2> QED BY <2>1
<1>2. Continue(t)
  OBVIOUS
<1> HIDE DEF t
<1> QED BY <1>1, <1>2, Facts, RunningFacts, FrameFacts, ContinueInv

LEMMA LeaveOK ==
  IInv /\ Leave => IInv'
<1> SUFFICES ASSUME IInv, Leave PROVE IInv'
  OBVIOUS
<1>1. Running /\ frames # <<>> /\ mode # "done"
  BY DEF Leave, step_and_get_handle, LeaveTrustme, LeaveUnchecked, LeaveNoTyping, LeavePreserve,
     LeaveOnFailure, LeaveBacktrack, LeaveExpected, Leaving, InFrame, Running
<1>2. RestoreValidityFlag \/ RestoreTypingFlag => flags' \in FlagValues
  BY <1>1, Facts, FrameFacts, FlagsOK DEF RestoreValidityFlag, RestoreTypingFlag
<1>3. CASE step_and_get_handle \/ LeaveOnFailure
  <2>1. /\ Frame.kind \in StepFrameKinds /\ frames' = Front(frames) /\ flags' = flags
        /\ UNCHANGED <<saved, report>>
        /\ Continue(CloseChecked(the_trace, flags', Frame.depth, FALSE))
    BY <1>3 DEF step_and_get_handle, LeaveOnFailure, Leaving, InFrame, StepFrameKinds
  <2>2. flags' \in FlagValues
    BY <1>1, <2>1, Facts
  <2> QED BY <1>1, <2>1, <2>2, LeaveStepOK
<1>4. CASE LeaveTrustme
  <2>1. /\ Frame.kind \in StepFrameKinds /\ frames' = Front(frames) /\ RestoreValidityFlag
        /\ UNCHANGED <<saved, report>>
        /\ Continue(CloseChecked(the_trace, flags', Frame.depth, FALSE))
    BY <1>4 DEF LeaveTrustme, Leaving, InFrame, StepFrameKinds
  <2> QED BY <1>1, <1>2, <2>1, LeaveStepOK
<1>5. CASE LeaveUnchecked
  <2>1. /\ frames' = Front(frames) /\ RestoreValidityFlag
        /\ UNCHANGED <<the_trace, mode, saved, report>>
    BY <1>5 DEF LeaveUnchecked, Leaving
  <2> QED BY <1>1, <1>2, <2>1, Facts, FrameFacts, RunningFacts, StepOK
<1>6. CASE LeaveNoTyping
  <2> DEFINE t == IF flags'.recompute THEN recompute_resources(the_trace, flags') ELSE the_trace
  <2>1. /\ frames' = Front(frames) /\ flags' \in FlagValues /\ Continue(t)
        /\ UNCHANGED <<saved, report>>
    BY <1>2, <1>6 DEF LeaveNoTyping, Leaving
  <2>2. Wf(t)
    BY <1>1, <2>1, Facts, RecomputeWf
  <2> HIDE DEF t
  <2> QED BY <1>1, <2>1, <2>2, Facts, FrameFacts, ContinueInv
<1>7. CASE LeavePreserve
  <2> DEFINE t == [the_trace EXCEPT !.cur_ast_typed = Frame.typed]
  <2>1. /\ frames' = Front(frames) /\ flags' \in FlagValues /\ the_trace' = t
        /\ UNCHANGED <<mode, saved, report>>
    BY <1>2, <1>7 DEF LeavePreserve, Leaving
  <2>2. /\ t \in Traces /\ t.step_stack = the_trace.step_stack
        /\ t.next_step_id = the_trace.next_step_id /\ t.exn = "none"
    BY <1>1, Facts, FrameFacts DEF Traces
  <2>3. Wf(t) /\ t.exn = "none"
    BY <1>1, <2>2, Facts, WfSameStack
  <2> QED BY <1>1, <2>1, <2>3, Facts, FrameFacts, RunningFacts, StepOK
<1>8. CASE LeaveBacktrack
  <2>1. /\ frames' = frames /\ Frame.kind = "backtrack" /\ mode' = "closing"
        /\ flags' = [flags EXCEPT !.recompute = FALSE] /\ UNCHANGED <<the_trace, saved, report>>
    BY <1>8 DEF LeaveBacktrack, InFrame
  <2>2. flags' \in FlagValues /\ mode' \in Modes \ {"done"}
    BY <1>1, <2>1, Facts, FlagsOK DEF Modes
  <2>3. frames' # <<>> /\ Last(frames').kind \in {"backtrack", "onfailure"}
    BY <1>1, <2>1 DEF Frame
  <2> QED BY <1>1, <2>1, <2>2, <2>3, Facts, StepOK
<1>9. CASE LeaveExpected
  <2>1. frames' = Front(frames) /\ mode' = "raise" /\ UNCHANGED <<the_trace, flags, saved, report>>
    BY <1>9 DEF LeaveExpected, Leaving
  <2>2. mode' \in Modes \ {"done", "closing"}
    BY <2>1 DEF Modes
  <2> QED BY <1>1, <2>1, <2>2, Facts, FrameFacts, StepOK
<1> QED BY <1>3, <1>4, <1>5, <1>6, <1>7, <1>8, <1>9 DEF Leave

-----------------------------------------------------------------------------
(* Exceptions.                                                              *)

LEMMA CloseInterruptedOK ==
  IInv /\ CloseInterrupted => IInv'
<1> SUFFICES ASSUME IInv, CloseInterrupted PROVE IInv'
  OBVIOUS
<1> DEFINE t == close_step(the_trace, flags, FALSE, FALSE)
<1>1. mode = "closing" /\ mode # "done" /\ ~(Depth <= Frame.depth) /\ UNCHANGED <<saved, report>>
  BY DEF CloseInterrupted, AllClosed
<1>2. frames # <<>> /\ Frame.kind \in {"backtrack", "onfailure"}
  BY <1>1 DEF IInv, ControlInv, Frame
<1>3. Len(the_trace.step_stack) > 1
  <2>1. Frame.depth \in Nat /\ Frame.depth > 1 /\ Depth \in Nat
    BY <1>1, <1>2, Facts, FrameFacts DEF StepFrameKinds
  <2> QED BY <1>1, <2>1 DEF Depth
<1>4. Wf(t)
  <2>1. \A d, e \in BOOLEAN : Wf(close_step(the_trace, flags, d, e))
    BY <1>1, <1>3, Facts, CloseStepWf
  <2> QED BY <2>1
<1>5. /\ the_trace' = [t EXCEPT !.exn = "none"]
      /\ \/ t.exn = "none" /\ UNCHANGED <<flags, frames, mode>>
         \/ t.exn # "none" /\ RestoreTypingFlag /\ frames' = Front(frames) /\ mode' = Outcome(t)
  BY DEF CloseInterrupted, CloseCurrent
<1> HIDE DEF t
<1>6. Wf(the_trace') /\ the_trace'.exn = "none"
  BY <1>4, <1>5, ClearExnWf
<1>7. CASE UNCHANGED <<flags, frames, mode>>
  <2>1. mode' \in Modes \ {"done"} /\ frames' # <<>> /\ Last(frames').kind \in {"backtrack", "onfailure"}
    BY <1>1, <1>2, <1>7 DEF Modes, Frame
  <2> QED BY <1>1, <1>6, <1>7, <2>1, Facts, StepOK
<1>8. CASE t.exn # "none" /\ RestoreTypingFlag /\ frames' = Front(frames) /\ mode' = Outcome(t)
  <2>1. flags' \in FlagValues
    BY <1>1, <1>2, <1>8, Facts, FrameFacts, FlagsOK DEF RestoreTypingFlag
  <2>2. mode' \in Modes \ {"done", "closing"}
    BY <1>8 DEF Outcome, Modes
  <2> QED BY <1>1, <1>2, <1>6, <1>8, <2>1, <2>2, Facts, FrameFacts, StepOK
<1> QED BY <1>5, <1>7, <1>8

LEMMA RestoreSnapshotOK ==
  IInv /\ RestoreSnapshot => IInv'
<1> SUFFICES ASSUME IInv, RestoreSnapshot PROVE IInv'
  OBVIOUS
<1> DEFINE p == PutBack(the_trace, Frame.ast, Frame.typed)
           j == justif(p)
           f == [flags EXCEPT !.recompute = FALSE]
           u == CloseChecked(j, f, Frame.depth, Frame.discard)
           r == recompute_resources(u, flags')
           w == IF u.exn = "none" /\ flags'.recompute THEN r ELSE u
<1>1. /\ mode = "closing" /\ mode # "done" /\ RestoreTypingFlag /\ frames' = Front(frames)
      /\ UNCHANGED <<saved, report>>
  BY DEF RestoreSnapshot
<1>2. Continue(w)
  BY DEF RestoreSnapshot, Restored, Then
<1>3. frames # <<>> /\ Frame.kind \in {"backtrack", "onfailure"}
  BY <1>1 DEF IInv, ControlInv, Frame
<1>4. /\ Frame.depth \in Nat /\ Frame.depth > 1 /\ Frame.ast \in Asts /\ Frame.typed \in BOOLEAN
      /\ Frame.discard \in BOOLEAN /\ f \in FlagValues
  BY <1>1, <1>3, Facts, FrameFacts, FlagsOK DEF StepFrameKinds
<1>5. flags' \in FlagValues
  BY <1>1, <1>3, Facts, FrameFacts, FlagsOK DEF RestoreTypingFlag
<1>6. Wf(p) /\ p.exn = "none"
  BY <1>1, <1>4, Facts, PutBackWf
<1> HIDE DEF p, f
<1>7. Wf(j) /\ j.exn = "none"
  BY <1>6, JustifWf
<1> HIDE DEF j
<1>8. Wf(u)
  BY <1>4, <1>7, CloseCheckedWf
<1> HIDE DEF u
<1>9. u.exn = "none" => Wf(r)
  BY <1>5, <1>8, RecomputeWf
<1> HIDE DEF r
<1>10. Wf(w)
  BY <1>8, <1>9
<1> HIDE DEF w
<1> QED BY <1>1, <1>2, <1>3, <1>5, <1>10, Facts, FrameFacts, ContinueInv

LEMMA PropagateOK ==
  IInv /\ (Propagate \/ CatchExpected \/ CatchOnFailure \/ Crash) => IInv'
<1> SUFFICES ASSUME IInv, Propagate \/ CatchExpected \/ CatchOnFailure \/ Crash PROVE IInv'
  OBVIOUS
<1>1. mode # "done" /\ UNCHANGED <<the_trace, saved, report>>
  BY DEF Propagate, CatchExpected, CatchOnFailure, Crash
<1>2. CASE Propagate
  <2>1. frames # <<>> /\ frames' = Front(frames) /\ flags' = FlagsUnwound /\ mode' = "raise"
    BY <1>2 DEF Propagate
  <2>2. FlagsUnwound \in FlagValues
    BY <1>1, <2>1, Facts, FrameFacts, FlagsOK DEF FlagsUnwound
  <2>3. mode' \in Modes \ {"done", "closing"}
    BY <2>1 DEF Modes
  <2> QED BY <1>1, <2>1, <2>2, <2>3, Facts, FrameFacts, StepOK
<1>3. CASE CatchExpected
  <2>1. /\ frames # <<>> /\ Frame.kind = "expected" /\ frames' = Front(frames)
        /\ mode' = "closing" /\ flags' = [flags EXCEPT !.recompute = FALSE]
    BY <1>3 DEF CatchExpected, InFrame
  <2>2. flags' \in FlagValues /\ mode' \in Modes \ {"done"}
    BY <1>1, <2>1, Facts, FlagsOK DEF Modes
  <2>3. frames' # <<>> /\ Last(frames').kind \in {"backtrack", "onfailure"}
    BY <1>1, <2>1, FrameFacts
  <2> QED BY <1>1, <2>1, <2>2, <2>3, Facts, FrameFacts, StepOK
<1>4. CASE CatchOnFailure
  <2>1. /\ frames # <<>> /\ Frame.kind = "onfailure" /\ mode' = "closing"
        /\ UNCHANGED <<flags, frames>>
    BY <1>4 DEF CatchOnFailure, InFrame
  <2>2. mode' \in Modes \ {"done"} /\ frames' # <<>> /\ Last(frames').kind \in {"backtrack", "onfailure"}
    BY <2>1 DEF Modes, Frame
  <2> QED BY <1>1, <2>1, <2>2, Facts, StepOK
<1>5. CASE Crash
  <2>1. mode' \in Modes \ {"done", "closing"} /\ UNCHANGED <<flags, frames>>
    BY <1>5 DEF Crash, Modes
  <2> QED BY <1>1, <2>1, Facts, StepOK
<1> QED BY <1>2, <1>3, <1>4, <1>5

LEMMA ErrorStepOK ==
  ASSUME NEW marked \in BOOLEAN
  PROVE  IInv /\ error_step(marked) => IInv'
<1> SUFFICES ASSUME IInv, error_step(marked) PROVE IInv'
  OBVIOUS
<1> DEFINE old == the_trace.cur_ast
           u == IF marked THEN PutNew(the_trace, old.code, old.ann, the_trace.cur_ast_typed)
                ELSE the_trace
<1>1. /\ mode # "done" /\ mode' \in Modes \ {"done", "closing"}
      /\ UNCHANGED <<flags, frames, saved, report>>
  BY DEF error_step, Modes
<1>2. the_trace' = LeafStep(u, "error", old, u.cur_ast, flags.check_validity)
  BY DEF error_step
<1>3. Wf(u) /\ u.exn = "none" /\ u.cur_ast \in Asts
  BY <1>1, Facts, NewSameCode
<1>4. old \in Asts /\ "error" \in Kinds /\ flags.check_validity \in BOOLEAN
  BY <1>1, Facts, FlagsOK DEF Kinds
<1> HIDE DEF old, u
<1>5. Wf(the_trace') /\ the_trace'.exn = "none"
  BY <1>2, <1>3, <1>4, LeafOK
<1> QED BY <1>1, <1>5, Facts, StepOK

LEMMA CloseAllOK ==
  IInv /\ close_all_steps => IInv'
<1> SUFFICES ASSUME IInv, close_all_steps PROVE IInv'
  OBVIOUS
<1> DEFINE t == close_step(the_trace, flags, FALSE, TRUE)
<1>1. mode = "closing_all" /\ mode # "done" /\ UNCHANGED <<flags, frames, saved>>
  BY DEF close_all_steps
<1>2. CASE Depth = 1
  <2>1. \A e \in BOOLEAN : finalize(the_trace, e) => IInv'
    BY <1>1, Facts, FinalizeOK
  <2>2. finalize(the_trace, TRUE)
    BY <1>2 DEF close_all_steps
  <2> QED BY <2>1, <2>2
<1>3. CASE Depth # 1
  <2>1. Len(the_trace.step_stack) > 1
    <3>1. Depth \in Nat /\ Depth > 0
      BY <1>1, Facts
    <3>2. Depth > 1
      BY <1>3, <3>1
    <3> QED BY <3>2 DEF Depth
  <2>2. Wf(t)
    <3>1. \A d, e \in BOOLEAN : Wf(close_step(the_trace, flags, d, e))
      BY <1>1, <2>1, Facts, CloseStepWf
    <3> QED BY <3>1
  <2>3. /\ the_trace' = [t EXCEPT !.exn = "none"] /\ mode' \in {"closing_all", "crashed"}
        /\ report' = report
    BY <1>1, <1>3 DEF close_all_steps
  <2> HIDE DEF t
  <2>4. Wf(the_trace') /\ the_trace'.exn = "none" /\ mode' \in Modes \ {"done", "closing"}
    BY <2>2, <2>3, ClearExnWf DEF Modes
  <2> QED BY <1>1, <2>3, <2>4, Facts, StepOK
<1> QED BY <1>2, <1>3

-----------------------------------------------------------------------------
(* The theorems.                                                            *)

LEMMA NextOK ==
  IInv /\ [Next]_vars => IInv'
<1> SUFFICES ASSUME IInv, [Next]_vars PROVE IInv'
  OBVIOUS
<1>1. CASE Script
  BY <1>1, StartOK, EndScriptOK, SmallStepOK, BigStepOK DEF Script
<1>2. CASE Edit
  BY <1>2, ApplyOK, ApplyMarksOK, JustifyOK, IterOK, ResolveOK, EnsureOK, RestoreOK, RaiseOK,
     ShowOK DEF Edit
<1>3. CASE Enter
  BY <1>3, EnterOK
<1>4. CASE Leave
  BY <1>4, LeaveOK
<1>5. CASE Unwind
  BY <1>5, CloseInterruptedOK, RestoreSnapshotOK, PropagateOK, ErrorStepOK, CloseAllOK DEF Unwind
<1>6. CASE UNCHANGED vars
  BY <1>6 DEF IInv, TraceInv, ControlInv, RecordsInv, vars
<1>7. Stopped => UNCHANGED vars
  BY DEF Stopped
<1> QED BY <1>1, <1>2, <1>3, <1>4, <1>5, <1>6, <1>7 DEF Next

LEMMA Invariance ==
  Spec => []IInv
<1> QED BY InitOK, NextOK, PTL DEF Spec

\* Type correctness: the record the_trace, the flags, the control stack and the outputs
\* keep their types through every combinator of trace.ml and every exception.
THEOREM TypeCorrect ==
  Spec => []TypeOK
<1>1. IInv => TypeOK
  <2> SUFFICES ASSUME IInv PROVE TypeOK
    OBVIOUS
  <2>1. the_trace \in Traces /\ the_trace.exn = "none" /\ the_trace.step_stack # <<>>
    BY DEF IInv, TraceInv, Wf, StackOK, Reported
  <2>2. flags \in FlagValues /\ frames \in Seq(Frames) /\ mode \in Modes
    BY DEF IInv, ControlInv, FramesOK
  <2> QED BY <2>1, <2>2 DEF TypeOK, IInv, RecordsInv
<1> QED BY <1>1, Invariance, PTL

\* The steps of the trace are numbered contiguously, in the order they are displayed in,
\* whatever steps close_step discards, filters out or completes with change steps, and
\* whatever steps an exception leaves open.
THEOREM IdsAlwaysContiguous ==
  Spec => []IdsContiguous
<1>1. IInv => IdsContiguous
  <2> SUFFICES ASSUME IInv PROVE IdsContiguous
    OBVIOUS
  <2>1. CASE mode # "done"
    BY <2>1 DEF IInv, TraceInv, Wf, StackOK, IdsContiguous, Top
  <2>2. CASE mode = "done"
    BY <2>2 DEF IInv, TraceInv, Reported, StackOK, IdsContiguous, Depth
  <2> QED BY <2>1, <2>2
<1> QED BY <1>1, Invariance, PTL

-----------------------------------------------------------------------------
(* with_flag restores the flags on every exit: the flags always are what    *)
(* the combinators that are still running make them.                        *)

ValidityKinds == {"trustme", "unchecked"}
TypingKinds == {"notyping", "preserve"}

NoneOf(fs, kinds, n) == \A j \in 1..n : fs[j].kind \notin kinds

\* The flags f are those of a program in which the first n combinators of fs are running.
FlagsUnder(fs, n, f) ==
  /\ f.check_validity <=> CheckValidity /\ NoneOf(fs, ValidityKinds, n)
  /\ f.recompute <=> Recompute /\ NoneOf(fs, TypingKinds, n)

\* The flags that each combinator captured are those under which it was called.
Captured(fs) == \A i \in DOMAIN fs : FlagsUnder(fs, i - 1, fs[i].flags)

\* The end of step_backtrack runs without typing.
Closing == mode = "closing" /\ InFrame("backtrack")

FlagsInv ==
  /\ Captured(frames)
  /\ Closing => ~flags.recompute
  /\ FlagsUnder(frames, Len(frames), flags) \/ Closing
  /\ flags.check_validity <=> CheckValidity /\ NoneOf(frames, ValidityKinds, Len(frames))

-----------------------------------------------------------------------------
\* The kinds of the combinators that are running, as FlagsScoped reads them.
LEMMA NoneRunning ==
  ASSUME NEW kinds, frames \in Seq(Frames)
  PROVE  FramesOf(kinds) = {} <=> NoneOf(frames, kinds, Len(frames))
<1>1. DOMAIN frames = 1..Len(frames)
  OBVIOUS
<1> QED BY <1>1 DEF FramesOf, NoneOf

\* A combinator that is called captures the flags, and may clear one around its body.
LEMMA PushFlags ==
  ASSUME NEW fs \in Seq(Frames), NEW x \in Frames, NEW f \in FlagValues,
         Captured(fs), FlagsUnder(fs, Len(fs), x.flags),
         f.check_validity <=> x.flags.check_validity /\ x.kind \notin ValidityKinds,
         f.recompute <=> x.flags.recompute /\ x.kind \notin TypingKinds
  PROVE  Captured(Append(fs, x)) /\ FlagsUnder(Append(fs, x), Len(Append(fs, x)), f)
<1> DEFINE gs == Append(fs, x)
           n == Len(fs)
<1>1. /\ n \in Nat /\ DOMAIN fs = 1..n /\ DOMAIN gs = 1..(n + 1) /\ Len(gs) = n + 1
      /\ gs[n + 1] = x /\ \A i \in 1..n : gs[i] = fs[i]
  OBVIOUS
<1> HIDE DEF gs
<1>2. ASSUME NEW kinds, NEW m \in 0..n
      PROVE  NoneOf(gs, kinds, m) <=> NoneOf(fs, kinds, m)
  <2>1. \A j \in 1..m : gs[j] = fs[j]
    BY <1>1
  <2> QED BY <2>1 DEF NoneOf
<1>3. ASSUME NEW m \in 0..n, NEW g
      PROVE  FlagsUnder(gs, m, g) <=> FlagsUnder(fs, m, g)
  BY <1>2 DEF FlagsUnder
<1>4. ASSUME NEW kinds
      PROVE  NoneOf(gs, kinds, n + 1) <=> NoneOf(fs, kinds, n) /\ x.kind \notin kinds
  <2>1. NoneOf(gs, kinds, n + 1) <=> NoneOf(gs, kinds, n) /\ gs[n + 1].kind \notin kinds
    BY <1>1 DEF NoneOf
  <2> QED BY <1>1, <1>2, <2>1
<1>5. Captured(gs)
  <2>1. SUFFICES ASSUME NEW i \in 1..(n + 1) PROVE FlagsUnder(gs, i - 1, gs[i].flags)
    BY <1>1 DEF Captured
  <2>2. i - 1 \in 0..n
    BY <1>1
  <2>3. FlagsUnder(fs, i - 1, gs[i].flags)
    <3>1. CASE i \in 1..n
      BY <1>1, <3>1 DEF Captured
    <3>2. CASE i = n + 1
      BY <1>1, <3>2
    <3> QED BY <1>1, <3>1, <3>2
  <2> QED BY <1>3, <2>2, <2>3
<1>6. FlagsUnder(gs, n + 1, f)
  BY <1>4 DEF FlagsUnder
<1> QED BY <1>1, <1>5, <1>6 DEF gs

\* A combinator that ends gives back the flags it captured.
LEMMA PopFlags ==
  ASSUME NEW fs \in Seq(Frames), fs # <<>>, Captured(fs)
  PROVE  /\ Captured(Front(fs)) /\ FlagsUnder(Front(fs), Len(Front(fs)), Last(fs).flags)
         /\ \A kinds : NoneOf(fs, kinds, Len(fs)) <=>
              NoneOf(Front(fs), kinds, Len(Front(fs))) /\ Last(fs).kind \notin kinds
<1> DEFINE gs == Front(fs)
           n == Len(fs)
<1>1. /\ n \in Nat /\ n > 0 /\ DOMAIN fs = 1..n /\ Last(fs) = fs[n]
      /\ gs \in Seq(Frames) /\ Len(gs) = n - 1 /\ \A i \in 1..(n - 1) : gs[i] = fs[i]
  BY FrontLast DEF Last
<1>2. DOMAIN gs = 1..(n - 1)
  BY <1>1
<1> HIDE DEF gs
<1>3. ASSUME NEW kinds, NEW m \in 0..(n - 1)
      PROVE  NoneOf(gs, kinds, m) <=> NoneOf(fs, kinds, m)
  <2>1. \A j \in 1..m : gs[j] = fs[j]
    BY <1>1
  <2> QED BY <2>1 DEF NoneOf
<1>4. ASSUME NEW m \in 0..(n - 1), NEW g
      PROVE  FlagsUnder(gs, m, g) <=> FlagsUnder(fs, m, g)
  BY <1>3 DEF FlagsUnder
<1>5. ASSUME NEW kinds
      PROVE  NoneOf(fs, kinds, n) <=> NoneOf(gs, kinds, n - 1) /\ fs[n].kind \notin kinds
  <2>1. NoneOf(fs, kinds, n) <=> NoneOf(fs, kinds, n - 1) /\ fs[n].kind \notin kinds
    BY <1>1 DEF NoneOf
  <2> QED BY <1>1, <1>3, <2>1
<1>6. Captured(gs)
  <2>1. SUFFICES ASSUME NEW i \in 1..(n - 1) PROVE FlagsUnder(gs, i - 1, gs[i].flags)
    BY <1>2 DEF Captured
  <2>2. i - 1 \in 0..(n - 1) /\ i \in DOMAIN fs /\ gs[i] = fs[i]
    BY <1>1
  <2> QED BY <1>4, <2>2 DEF Captured
<1>7. FlagsUnder(gs, n - 1, fs[n].flags)
  <2>1. n \in DOMAIN fs /\ n - 1 \in 0..(n - 1)
    BY <1>1
  <2>2. FlagsUnder(fs, n - 1, fs[n].flags)
    BY <2>1 DEF Captured
  <2> QED BY <1>4, <2>1, <2>2
<1> QED BY <1>1, <1>5, <1>6, <1>7 DEF gs

-----------------------------------------------------------------------------
(* What every step does to the flags.                                       *)

\* A step that enters and leaves no combinator.
LEMMA KeepFlags ==
  ASSUME FlagsInv, UNCHANGED <<flags, frames>>, Closing' <=> Closing
  PROVE  FlagsInv'
BY DEF FlagsInv, Captured, FlagsUnder, NoneOf

\* A step that enters one.
LEMMA CallFlags ==
  ASSUME IInv, FlagsInv, ~Closing, ~Closing', NEW x \in Frames, x.flags = flags,
         frames' = Append(frames, x), flags' \in FlagValues,
         flags'.check_validity <=> flags.check_validity /\ x.kind \notin ValidityKinds,
         flags'.recompute <=> flags.recompute /\ x.kind \notin TypingKinds
  PROVE  FlagsInv'
<1>1. frames \in Seq(Frames) /\ Captured(frames) /\ FlagsUnder(frames, Len(frames), flags)
  BY DEF IInv, ControlInv, FramesOK, FlagsInv
<1>2. Captured(frames') /\ FlagsUnder(frames', Len(frames'), flags')
  BY <1>1, PushFlags
<1> QED BY <1>2 DEF FlagsInv, FlagsUnder, Captured, NoneOf

\* A step that leaves one: what the combinator changed is restored.
LEMMA EndFlags ==
  ASSUME IInv, FlagsInv, frames # <<>>, frames' = Front(frames), ~Closing',
         \/ flags'.check_validity = Frame.flags.check_validity
         \/ Frame.kind \notin ValidityKinds /\ flags'.check_validity = flags.check_validity,
         \/ flags'.recompute = Frame.flags.recompute
         \/ Frame.kind \notin TypingKinds /\ ~Closing /\ flags'.recompute = flags.recompute
  PROVE  FlagsInv'
<1>1. frames \in Seq(Frames) /\ Captured(frames)
  BY DEF IInv, ControlInv, FramesOK, FlagsInv
<1>2. /\ Captured(frames') /\ FlagsUnder(frames', Len(frames'), Frame.flags)
      /\ \A kinds : NoneOf(frames, kinds, Len(frames)) <=>
           NoneOf(frames', kinds, Len(frames')) /\ Frame.kind \notin kinds
  BY <1>1, PopFlags DEF Frame
<1>3. flags'.check_validity <=> CheckValidity /\ NoneOf(frames', ValidityKinds, Len(frames'))
  <2>1. CASE flags'.check_validity = Frame.flags.check_validity
    BY <1>2, <2>1 DEF FlagsUnder
  <2>2. CASE Frame.kind \notin ValidityKinds /\ flags'.check_validity = flags.check_validity
    BY <1>2, <2>2 DEF FlagsInv
  <2> QED BY <2>1, <2>2
<1>4. flags'.recompute <=> Recompute /\ NoneOf(frames', TypingKinds, Len(frames'))
  <2>1. CASE flags'.recompute = Frame.flags.recompute
    BY <1>2, <2>1 DEF FlagsUnder
  <2>2. CASE Frame.kind \notin TypingKinds /\ ~Closing /\ flags'.recompute = flags.recompute
    BY <1>2, <2>2 DEF FlagsInv, FlagsUnder
  <2> QED BY <2>1, <2>2
<1> QED BY <1>2, <1>3, <1>4 DEF FlagsInv, FlagsUnder, Captured, NoneOf

LEMMA InitFlags ==
  Init => FlagsInv
<1> SUFFICES ASSUME Init PROVE FlagsInv
  OBVIOUS
<1>1. frames = <<>> /\ flags.check_validity = CheckValidity /\ flags.recompute = Recompute
      /\ ~Closing
  BY DEF Init, InitialFlags, Closing
<1>2. Len(frames) = 0 /\ DOMAIN frames = 1..0
  BY <1>1
<1> QED BY <1>1, <1>2 DEF FlagsInv, Captured, FlagsUnder, NoneOf

\* The frame that Push makes.
LEMMA PushedFrame ==
  ASSUME IInv, mode # "done", NEW t, Wf(t), NEW kind \in FrameKinds, NEW discard \in BOOLEAN
  PROVE  \E x \in Frames : /\ Push(t, kind, discard) = Append(frames, x)
                           /\ x.flags = flags /\ x.kind = kind /\ x.ast = the_trace.cur_ast
<1> DEFINE x == [kind |-> kind, depth |-> Len(t.step_stack), ast |-> the_trace.cur_ast,
                 typed |-> the_trace.cur_ast_typed, flags |-> flags, discard |-> discard]
<1>1. /\ the_trace.cur_ast \in Asts /\ the_trace.cur_ast_typed \in BOOLEAN
      /\ flags \in FlagValues
  BY DEF IInv, TraceInv, ControlInv, Traces
<1>2. Len(t.step_stack) \in Nat \ {0}
  BY TopOfWf
<1>3. x \in Frames /\ x.kind = kind /\ x.flags = flags /\ x.ast = the_trace.cur_ast
  BY <1>1, <1>2 DEF Frames
<1>4. Push(t, kind, discard) = Append(frames, x)
  BY DEF Push
<1> QED BY <1>3, <1>4

\* Run.script, the steps of the script and the edits: only the preprocessing has a combinator.
LEMMA ScriptFlags ==
  IInv /\ FlagsInv /\ (Script \/ Edit) => FlagsInv'
<1> SUFFICES ASSUME IInv, FlagsInv, Script \/ Edit PROVE FlagsInv'
  OBVIOUS
<1>1. CASE Start
  <2>1. mode = "start" /\ mode' = "run" /\ ~Closing /\ ~Closing' /\ flags' = flags /\ mode # "done"
    BY <1>1 DEF Start, Closing
  <2>2. CASE frames' = frames
    BY <2>1, <2>2, KeepFlags
  <2>3. CASE frames' = Push(open_step(the_trace, flags, "small", FALSE, FALSE), "step", FALSE)
    <3> DEFINE t == open_step(the_trace, flags, "small", FALSE, FALSE)
    <3>1. Wf(t)
      BY <2>1, Facts, OpenStepWf DEF Kinds
    <3> HIDE DEF t
    <3>2. PICK x \in Frames : /\ Push(t, "step", FALSE) = Append(frames, x)
                              /\ x.flags = flags /\ x.kind = "step"
      <4>1. "step" \in FrameKinds /\ FALSE \in BOOLEAN
        BY DEF FrameKinds
      <4> QED BY <2>1, <3>1, <4>1, PushedFrame
    <3>3. flags \in FlagValues /\ x.kind \notin ValidityKinds \cup TypingKinds
      BY <2>1, <3>2, Facts DEF ValidityKinds, TypingKinds
    <3> QED BY <2>1, <2>3, <3>2, <3>3, CallFlags DEF t
  <2> QED BY <1>1, <2>2, <2>3 DEF Start
<1>2. CASE mode = "run" /\ UNCHANGED <<flags, frames>>
           /\ (mode' # "closing" \/ frames = <<>>)
  BY <1>2, KeepFlags DEF Closing, InFrame
<1>3. EndScript \/ (\E hit, parse_again \in BOOLEAN :
        open_smallstep(hit, parse_again) \/ open_bigstep(hit, parse_again))
        => mode = "run" /\ frames = <<>> /\ UNCHANGED <<flags, frames>>
  BY DEF EndScript, open_smallstep, open_bigstep, AtTop, Running, AndThen, OpenScriptStep,
     produce_output_and_exit
<1>4. Edit => mode = "run" /\ UNCHANGED <<flags, frames>> /\ mode' # "closing"
  BY DEF Edit, apply, apply_marks, Justify, set_ast_for_target_iter, target_resolve_step,
     ensure_computed, restore_original, Raise, show_step, CanBuildAst, Running, Continue, Outcome
<1> QED BY <1>1, <1>2, <1>3, <1>4 DEF Script

\* A combinator that is called, with the step it may open.
LEMMA EnterFlags ==
  ASSUME IInv, FlagsInv, Running, NEW t, Wf(t), NEW kind \in FrameKinds, NEW discard \in BOOLEAN,
         frames' = Push(t, kind, discard), mode' = mode, flags' \in FlagValues,
         flags'.check_validity <=> flags.check_validity /\ kind \notin ValidityKinds,
         flags'.recompute <=> flags.recompute /\ kind \notin TypingKinds
  PROVE  FlagsInv'
<1>1. mode # "done" /\ ~Closing /\ ~Closing'
  BY DEF Running, Closing
<1>2. PICK x \in Frames : /\ Push(t, kind, discard) = Append(frames, x)
                          /\ x.flags = flags /\ x.kind = kind
  BY <1>1, PushedFrame
<1> QED BY <1>1, <1>2, CallFlags

\* A flag that is cleared, the other staying as it is.
LEMMA ClearFlag ==
  ASSUME NEW f \in FlagValues
  PROVE  LET g == [f EXCEPT !.check_validity = FALSE]
             h == [f EXCEPT !.recompute = FALSE]
         IN /\ g \in FlagValues /\ ~g.check_validity /\ g.recompute = f.recompute
            /\ h \in FlagValues /\ ~h.recompute /\ h.check_validity = f.check_validity
BY DEF FlagValues

LEMMA EnterFlagsOK ==
  IInv /\ FlagsInv /\ Enter => FlagsInv'
<1> SUFFICES ASSUME IInv, FlagsInv, Enter PROVE FlagsInv'
  OBVIOUS
<1>1. Running /\ mode # "done" /\ mode' = mode
  BY DEF Enter, Transfo, step_group, trustme, without_substep_validity_checks,
     without_resource_computation_between_steps, preserves_resource_typing, failure_expected,
     step_backtrack, step_backtrack_on_failure, CanOpen, Running, EnterStep, EnterFlag
<1>2. flags \in FlagValues /\ Wf(the_trace) /\ FALSE \in BOOLEAN
  BY <1>1, Facts
<1>3. ASSUME NEW kind \in Kinds \ {"root"}
      PROVE  Wf(open_step(the_trace, flags, kind, FALSE, FALSE))
  BY <1>1, <1>2, Facts, OpenStepWf
<1>4. /\ {"transfo", "group", "backtrack", "trustme"} \subseteq Kinds \ {"root"}
      /\ {"step", "backtrack", "onfailure"} \subseteq FrameKinds \ (ValidityKinds \cup TypingKinds)
      /\ {"trustme", "unchecked"} \subseteq (FrameKinds \cap ValidityKinds) \ TypingKinds
      /\ {"notyping", "preserve"} \subseteq (FrameKinds \cap TypingKinds) \ ValidityKinds
  BY DEF Kinds, FrameKinds, ValidityKinds, TypingKinds
<1>5. ASSUME NEW kind \in {"transfo", "group", "backtrack"},
             NEW frame \in {"step", "backtrack", "onfailure"},
             NEW discard \in BOOLEAN, EnterStep(frame, kind, FALSE, discard)
      PROVE  FlagsInv'
  <2>1. /\ frames' = Push(open_step(the_trace, flags, kind, FALSE, FALSE), frame, discard)
        /\ flags' = flags
    BY <1>5 DEF EnterStep
  <2>2. Wf(open_step(the_trace, flags, kind, FALSE, FALSE))
    BY <1>3, <1>4
  <2>3. frame \in FrameKinds /\ frame \notin ValidityKinds /\ frame \notin TypingKinds
    BY <1>4
  <2> QED BY <1>1, <1>2, <2>1, <2>2, <2>3, EnterFlags
<1>6. CASE Transfo \/ step_group
  <2>1. \E kind \in {"transfo", "group", "backtrack"} : EnterStep("step", kind, FALSE, FALSE)
    BY <1>6 DEF Transfo, step_group
  <2> QED BY <1>2, <1>5, <2>1
<1>7. CASE \E discard \in BOOLEAN : step_backtrack(discard) \/ step_backtrack_on_failure(discard)
  <2>1. PICK discard \in BOOLEAN : \E frame \in {"step", "backtrack", "onfailure"} :
          EnterStep(frame, "backtrack", FALSE, discard)
    BY <1>7 DEF step_backtrack, step_backtrack_on_failure
  <2> QED BY <1>5, <2>1
<1>8. CASE trustme
  <2>1. /\ frames' = Push(open_step(the_trace, flags, "trustme", FALSE, FALSE), "trustme", FALSE)
        /\ flags' = [flags EXCEPT !.check_validity = FALSE]
    BY <1>8 DEF trustme
  <2>2. Wf(open_step(the_trace, flags, "trustme", FALSE, FALSE))
    BY <1>3, <1>4
  <2>3. "trustme" \in FrameKinds /\ "trustme" \in ValidityKinds /\ "trustme" \notin TypingKinds
    BY <1>4
  <2>4. flags' \in FlagValues /\ ~flags'.check_validity /\ flags'.recompute = flags.recompute
    BY <1>2, <2>1, ClearFlag
  <2> QED BY <1>1, <1>2, <2>1, <2>2, <2>3, <2>4, EnterFlags
<1>9. CASE without_substep_validity_checks
  <2>1. /\ frames' = Push(the_trace, "unchecked", FALSE)
        /\ flags' = [flags EXCEPT !.check_validity = FALSE]
    BY <1>9 DEF without_substep_validity_checks, EnterFlag
  <2>2. "unchecked" \in FrameKinds /\ "unchecked" \in ValidityKinds /\ "unchecked" \notin TypingKinds
    BY <1>4
  <2>3. flags' \in FlagValues /\ ~flags'.check_validity /\ flags'.recompute = flags.recompute
    BY <1>2, <2>1, ClearFlag
  <2> QED BY <1>1, <1>2, <2>1, <2>2, <2>3, EnterFlags
<1>10. ASSUME NEW frame \in {"notyping", "preserve"},
              EnterFlag(frame, [flags EXCEPT !.recompute = FALSE])
       PROVE  FlagsInv'
  <2>1. frames' = Push(the_trace, frame, FALSE) /\ flags' = [flags EXCEPT !.recompute = FALSE]
    BY <1>10 DEF EnterFlag
  <2>2. frame \in FrameKinds /\ frame \notin ValidityKinds /\ frame \in TypingKinds
    BY <1>4
  <2>3. flags' \in FlagValues /\ ~flags'.recompute /\ flags'.check_validity = flags.check_validity
    BY <1>2, <2>1, ClearFlag
  <2> QED BY <1>1, <1>2, <2>1, <2>2, <2>3, EnterFlags
<1>11. CASE without_resource_computation_between_steps \/ preserves_resource_typing
  <2>1. \E frame \in {"notyping", "preserve"} : EnterFlag(frame, [flags EXCEPT !.recompute = FALSE])
    BY <1>11 DEF without_resource_computation_between_steps, preserves_resource_typing
  <2> QED BY <1>10, <2>1
<1>12. CASE failure_expected
  <2> DEFINE t == open_step(the_trace, flags, "backtrack", FALSE, FALSE)
             outer == Push(t, "backtrack", FALSE)
             y == [Last(outer) EXCEPT !.kind = "expected"]
  <2>1. Wf(t) /\ "backtrack" \in FrameKinds
    BY <1>3, <1>4
  <2>2. frames' = Append(outer, y) /\ UNCHANGED <<flags, mode>>
    BY <1>12 DEF failure_expected
  <2> HIDE DEF t
  <2>3. PICK x \in Frames : outer = Append(frames, x) /\ x.flags = flags /\ x.kind = "backtrack"
    BY <1>1, <1>2, <2>1, PushedFrame
  <2>4. ~Closing /\ ~Closing' /\ frames \in Seq(Frames)
    BY <1>1, <2>2 DEF Closing, Running, IInv, ControlInv, FramesOK
  <2>5. Captured(frames) /\ FlagsUnder(frames, Len(frames), flags)
    BY <2>4 DEF FlagsInv
  <2>6. outer \in Seq(Frames) /\ Last(outer) = x
    <3>1. Append(frames, x) \in Seq(Frames) /\ Last(Append(frames, x)) = x
      BY <2>4 DEF Last
    <3> HIDE DEF outer
    <3> QED BY <2>3, <3>1
  <2>7. y \in Frames /\ y.flags = flags /\ y.kind = "expected"
    BY <2>3, <2>6 DEF Frames, FrameKinds
  <2> HIDE DEF outer, y
  <2>8. Captured(outer) /\ FlagsUnder(outer, Len(outer), flags)
    BY <1>2, <2>3, <2>4, <2>5, PushFlags DEF ValidityKinds, TypingKinds
  <2>9. Captured(frames') /\ FlagsUnder(frames', Len(frames'), flags')
    BY <1>2, <2>2, <2>6, <2>7, <2>8, PushFlags DEF ValidityKinds, TypingKinds
  <2> QED BY <2>4, <2>9 DEF FlagsInv, FlagsUnder, Captured, NoneOf
<1> QED BY <1>6, <1>7, <1>8, <1>9, <1>11, <1>12 DEF Enter

\* A combinator ends: the flag it changed is restored, the other is as it was.
LEMMA LeaveFlagsOK ==
  IInv /\ FlagsInv /\ Leave => FlagsInv'
<1> SUFFICES ASSUME IInv, FlagsInv, Leave PROVE FlagsInv'
  OBVIOUS
<1>1. Running /\ frames # <<>> /\ mode # "done" /\ ~Closing
  BY DEF Leave, step_and_get_handle, LeaveTrustme, LeaveUnchecked, LeaveNoTyping, LeavePreserve,
     LeaveOnFailure, LeaveBacktrack, LeaveExpected, Leaving, InFrame, Running, Closing
<1>2. /\ flags \in FlagValues /\ Frame.flags.check_validity \in BOOLEAN
      /\ Frame.flags.recompute \in BOOLEAN
  BY <1>1, Facts, FrameFacts
<1>3. ASSUME NEW b \in BOOLEAN
      PROVE  /\ [flags EXCEPT !.check_validity = b].check_validity = b
             /\ [flags EXCEPT !.check_validity = b].recompute = flags.recompute
             /\ [flags EXCEPT !.recompute = b].recompute = b
             /\ [flags EXCEPT !.recompute = b].check_validity = flags.check_validity
  BY <1>2 DEF FlagValues
<1>4. RestoreValidityFlag => /\ flags'.check_validity = Frame.flags.check_validity
                             /\ flags'.recompute = flags.recompute
  BY <1>2, <1>3 DEF RestoreValidityFlag
<1>5. RestoreTypingFlag => /\ flags'.recompute = Frame.flags.recompute
                           /\ flags'.check_validity = flags.check_validity
  BY <1>2, <1>3 DEF RestoreTypingFlag
<1>6. CASE step_and_get_handle \/ LeaveOnFailure \/ LeaveExpected
  <2>1. /\ Frame.kind \notin ValidityKinds /\ Frame.kind \notin TypingKinds
        /\ frames' = Front(frames) /\ flags' = flags /\ mode' # "closing"
    BY <1>6 DEF step_and_get_handle, LeaveOnFailure, LeaveExpected, Leaving, InFrame,
       ValidityKinds, TypingKinds, Continue, Outcome
  <2> QED BY <1>1, <2>1, EndFlags DEF Closing
<1>7. CASE LeaveTrustme \/ LeaveUnchecked
  <2>1. /\ Frame.kind \notin TypingKinds /\ frames' = Front(frames) /\ RestoreValidityFlag
        /\ mode' # "closing"
    BY <1>7 DEF LeaveTrustme, LeaveUnchecked, Leaving, InFrame, TypingKinds, Continue, Outcome,
       Running
  <2> QED BY <1>1, <1>4, <2>1, EndFlags DEF Closing
<1>8. CASE LeaveNoTyping \/ LeavePreserve
  <2>1. /\ Frame.kind \notin ValidityKinds /\ frames' = Front(frames) /\ RestoreTypingFlag
        /\ mode' # "closing"
    BY <1>8 DEF LeaveNoTyping, LeavePreserve, Leaving, InFrame, ValidityKinds, Continue, Outcome,
       Running
  <2> QED BY <1>1, <1>5, <2>1, EndFlags DEF Closing
<1>9. CASE LeaveBacktrack
  <2>1. frames' = frames /\ flags' = [flags EXCEPT !.recompute = FALSE] /\ Closing'
    BY <1>9 DEF LeaveBacktrack, InFrame, Frame, Closing
  <2>2. ~flags'.recompute /\ flags'.check_validity = flags.check_validity
    BY <1>2, <2>1, ClearFlag
  <2> QED BY <2>1, <2>2 DEF FlagsInv, Captured, FlagsUnder, NoneOf
<1> QED BY <1>6, <1>7, <1>8, <1>9 DEF Leave

\* The handlers, and an exception on its way up.
LEMMA UnwindFlagsOK ==
  IInv /\ FlagsInv /\ Unwind => FlagsInv'
<1> SUFFICES ASSUME IInv, FlagsInv, Unwind PROVE FlagsInv'
  OBVIOUS
<1>1. mode \in {"raise", "closing", "closing_all"} /\ mode # "done" /\ flags \in FlagValues
  <2>1. mode \in {"raise", "closing", "closing_all"}
    BY DEF Unwind, CloseInterrupted, RestoreSnapshot, Propagate, CatchExpected, CatchOnFailure,
       Crash, close_all_steps, error_step
  <2> QED BY <2>1, Facts
<1>2. frames # <<>> => /\ Frame.flags.check_validity \in BOOLEAN
                       /\ Frame.flags.recompute \in BOOLEAN
  BY <1>1, FrameFacts
<1>3. ASSUME frames # <<>>
      PROVE  /\ RestoreTypingFlag => /\ flags'.recompute = Frame.flags.recompute
                                     /\ flags'.check_validity = flags.check_validity
             /\ flags' = [flags EXCEPT !.check_validity = Frame.flags.check_validity] =>
                  /\ flags'.check_validity = Frame.flags.check_validity
                  /\ flags'.recompute = flags.recompute
  BY <1>1, <1>2, <1>3 DEF RestoreTypingFlag, FlagValues
<1>4. mode = "closing" => /\ frames # <<>> /\ Frame.kind \in {"backtrack", "onfailure"}
                          /\ Frame.kind \notin ValidityKinds /\ Frame.kind \notin TypingKinds
  BY DEF IInv, ControlInv, Frame, ValidityKinds, TypingKinds
<1>5. CASE CloseInterrupted
  <2>1. \/ UNCHANGED <<flags, frames, mode>>
        \/ RestoreTypingFlag /\ frames' = Front(frames) /\ mode' # "closing"
    BY <1>5 DEF CloseInterrupted, Outcome
  <2>2. mode = "closing"
    BY <1>5 DEF CloseInterrupted
  <2>3. CASE UNCHANGED <<flags, frames, mode>>
    BY <2>3, KeepFlags DEF Closing, InFrame, Frame
  <2>4. CASE RestoreTypingFlag /\ frames' = Front(frames) /\ mode' # "closing"
    BY <1>3, <1>4, <2>2, <2>4, EndFlags DEF Closing
  <2> QED BY <2>1, <2>3, <2>4
<1>6. CASE RestoreSnapshot
  <2>1. mode = "closing" /\ RestoreTypingFlag /\ frames' = Front(frames) /\ mode' # "closing"
    BY <1>6 DEF RestoreSnapshot, Continue, Outcome
  <2> QED BY <1>3, <1>4, <2>1, EndFlags DEF Closing
<1>7. CASE Propagate
  <2>1. /\ mode = "raise" /\ mode' = "raise" /\ frames # <<>> /\ frames' = Front(frames)
        /\ flags' = FlagsUnwound
    BY <1>7 DEF Propagate
  <2>2. CASE Frame.kind \in ValidityKinds
    <3>1. flags' = [flags EXCEPT !.check_validity = Frame.flags.check_validity]
          /\ Frame.kind \notin TypingKinds
      BY <2>1, <2>2 DEF FlagsUnwound, ValidityKinds, TypingKinds
    <3> QED BY <1>3, <2>1, <3>1, EndFlags DEF Closing
  <2>3. CASE Frame.kind \in TypingKinds
    <3>1. RestoreTypingFlag /\ Frame.kind \notin ValidityKinds
      BY <2>1, <2>3 DEF FlagsUnwound, ValidityKinds, TypingKinds, RestoreTypingFlag
    <3> QED BY <1>3, <2>1, <3>1, EndFlags DEF Closing
  <2>4. CASE Frame.kind \notin ValidityKinds \cup TypingKinds
    <3>1. flags' = flags
      BY <2>1, <2>4 DEF FlagsUnwound, ValidityKinds, TypingKinds
    <3> QED BY <2>1, <2>4, <3>1, EndFlags DEF Closing
  <2> QED BY <2>2, <2>3, <2>4
<1>8. CASE CatchExpected
  <2>1. /\ mode = "raise" /\ frames # <<>> /\ Frame.kind = "expected" /\ mode' = "closing"
        /\ frames' = Front(frames) /\ flags' = [flags EXCEPT !.recompute = FALSE]
    BY <1>8 DEF CatchExpected, InFrame
  <2>2. frames' # <<>> /\ Last(frames').kind = "backtrack"
    BY <1>1, <2>1, FrameFacts
  <2>3. Closing'
    BY <2>1, <2>2 DEF Closing, InFrame, Frame
  <2>4. ~flags'.recompute /\ flags'.check_validity = flags.check_validity
    BY <1>1, <2>1, ClearFlag
  <2>5. frames \in Seq(Frames) /\ Captured(frames)
    BY DEF IInv, ControlInv, FramesOK, FlagsInv
  <2>6. /\ Captured(frames')
        /\ \A kinds : NoneOf(frames, kinds, Len(frames)) <=>
             NoneOf(frames', kinds, Len(frames')) /\ Frame.kind \notin kinds
    BY <2>1, <2>5, PopFlags DEF Frame
  <2>7. flags'.check_validity <=> CheckValidity /\ NoneOf(frames', ValidityKinds, Len(frames'))
    BY <2>1, <2>4, <2>6 DEF FlagsInv, ValidityKinds
  <2> QED BY <2>3, <2>4, <2>6, <2>7 DEF FlagsInv, FlagsUnder, Captured, NoneOf
<1>9. CASE \/ CatchOnFailure \/ Crash \/ close_all_steps
           \/ \E marked \in BOOLEAN : error_step(marked)
  <2>1. UNCHANGED <<flags, frames>>
    BY <1>9 DEF CatchOnFailure, Crash, close_all_steps, error_step
  <2>2. ~Closing /\ ~Closing'
    BY <1>9, <2>1 DEF CatchOnFailure, Crash, close_all_steps, error_step, finalize, Closing, InFrame,
       Frame
  <2> QED BY <2>1, <2>2, KeepFlags
<1> QED BY <1>5, <1>6, <1>7, <1>8, <1>9 DEF Unwind

-----------------------------------------------------------------------------
(* The theorem on flags.                                                    *)

LEMMA NextFlags ==
  IInv /\ FlagsInv /\ [Next]_vars => FlagsInv'
<1> SUFFICES ASSUME IInv, FlagsInv, [Next]_vars PROVE FlagsInv'
  OBVIOUS
<1>1. CASE Script \/ Edit
  BY <1>1, ScriptFlags
<1>2. CASE Enter
  BY <1>2, EnterFlagsOK
<1>3. CASE Leave
  BY <1>3, LeaveFlagsOK
<1>4. CASE Unwind
  BY <1>4, UnwindFlagsOK
<1>5. CASE UNCHANGED vars
  BY <1>5, KeepFlags DEF vars, Closing, InFrame, Frame
<1>6. Stopped => UNCHANGED vars
  BY DEF Stopped
<1> QED BY <1>1, <1>2, <1>3, <1>4, <1>5, <1>6 DEF Next

\* with_flag: whatever exit a combinator takes, by returning, by an exception, or by a
\* handler that fails, check_validity and recompute_resources_between_steps are what the
\* combinators still running make them.
THEOREM FlagsAlwaysScoped ==
  Spec => []FlagsScoped
<1>1. IInv /\ FlagsInv => FlagsScoped
  <2> SUFFICES ASSUME IInv, FlagsInv PROVE FlagsScoped
    OBVIOUS
  <2>1. frames \in Seq(Frames) /\ flags \in FlagValues
    BY DEF IInv, ControlInv, FramesOK
  <2>2. flags.check_validity \in BOOLEAN /\ flags.recompute \in BOOLEAN
    BY <2>1, FlagsOK
  <2>3. /\ FramesOf({"trustme", "unchecked"}) = {} <=>
             NoneOf(frames, ValidityKinds, Len(frames))
        /\ FramesOf({"notyping", "preserve"}) = {} <=>
             NoneOf(frames, TypingKinds, Len(frames))
    BY <2>1, NoneRunning DEF ValidityKinds, TypingKinds
  <2>4. flags.check_validity <=> CheckValidity /\ FramesOf({"trustme", "unchecked"}) = {}
    BY <2>3 DEF FlagsInv
  <2>5. flags.recompute <=> /\ Recompute /\ FramesOf({"notyping", "preserve"}) = {}
                            /\ ~(mode = "closing" /\ InFrame("backtrack"))
    BY <2>3 DEF FlagsInv, FlagsUnder, Closing
  <2> QED BY <2>2, <2>4, <2>5 DEF FlagsScoped
<1> QED BY <1>1, InitOK, InitFlags, NextOK, NextFlags, PTL DEF Spec

-----------------------------------------------------------------------------
(* The control stack and the stack of open steps: the inductive invariant.   *)

IsStep(frame) == frame.kind \in StepFrameKinds

StepKindsOf(kind) ==
  CASE kind = "step" -> {"small", "transfo", "group"}
    [] kind = "trustme" -> {"trustme"}
    [] OTHER -> {"backtrack"}

\* d is the depth of the step that the first n combinators of fs run in: that of the
\* innermost of them that opened one, or else that of a step of the script.
Level(fs, n, stack, d) ==
  \/ \E i \in 1..n : IsStep(fs[i]) /\ (\A k \in (i + 1)..n : ~IsStep(fs[k])) /\ d = fs[i].depth
  \/ (\A k \in 1..n : ~IsStep(fs[k])) /\ ScriptSteps(stack, d)

\* What preserves_resource_typing puts back is right for this AST.
Pinned(fs, n, ast) == \A k \in 1..n : fs[k].kind = "preserve" => AstTyped(fs[k].typed, ast)

NoDeeper(fs, n, d) == \A i \in 1..n : IsStep(fs[i]) => fs[i].depth <= d

\* The step of a combinator was opened on top of the step that those around run in; the
\* try of failure_expected has the step of the step_backtrack around it.
Outside(frame) == IF frame.kind = "expected" THEN frame.depth ELSE frame.depth - 1

StepFrameGood(fs, n, x, stack) ==
  /\ x.depth \in 2..Len(stack)
  /\ stack[x.depth].kind \in StepKindsOf(x.kind)
  /\ x.kind \notin {"step", "trustme"} => stack[x.depth].before = x.ast
  /\ Level(fs, n, stack, Outside(x)) /\ NoDeeper(fs, n, Outside(x))

\* The combinator x, called by the first n combinators of fs.
FrameGood(fs, n, x, stack) ==
  /\ FixedFlags(x.flags)
  /\ AstTyped(x.typed, x.ast) /\ Pinned(fs, n, x.ast)
  /\ IsStep(x) => StepFrameGood(fs, n, x, stack)

FramesGood(fs, stack) == \A j \in DOMAIN fs : FrameGood(fs, j - 1, fs[j], stack)

StepsInv ==
  /\ StackGood(the_trace.step_stack)
  /\ mode # "failed" => Ungranted(the_trace.step_stack, Depth)

CallsInv == FixedFlags(flags) /\ FramesGood(frames, the_trace.step_stack)

\* While the script runs, the current step is that of the innermost combinator.
RunInv ==
  /\ mode \in {"start", "run"} =>
       /\ Level(frames, Len(frames), the_trace.step_stack, Depth)
       /\ Pinned(frames, Len(frames), the_trace.cur_ast)
  /\ mode \in {"start", "run", "raise", "closing", "closing_all"} => Typed(the_trace)

EndInv ==
  /\ mode = "start" => Depth = 1
  /\ mode \in {"start", "closing_all", "done", "exited"} => frames = <<>>
  /\ ExitAtScriptLevel

HInv == StepsInv /\ CallsInv /\ RunInv /\ EndInv

-----------------------------------------------------------------------------
(* The control stack.                                                       *)

LEMMA FrameTypes ==
  ASSUME NEW fs \in Seq(Frames), NEW i \in 1..Len(fs)
  PROVE  fs[i] \in Frames /\ fs[i].depth \in Nat /\ fs[i].depth > 0 /\ Outside(fs[i]) \in Nat
<1>1. fs[i] \in Frames
  OBVIOUS
<1> QED BY <1>1 DEF Frames, Outside

LEMMA LevelKept ==
  ASSUME NEW fs, NEW n \in Nat, NEW s, NEW r, NEW m \in Nat, NEW d \in Nat, d <= m,
         SameSteps(s, r, m), Level(fs, n, s, d)
  PROVE  Level(fs, n, r, d)
<1>1. \A i \in 1..d : i \in 1..m
  OBVIOUS
<1>2. ScriptSteps(s, d) => ScriptSteps(r, d)
  BY <1>1 DEF ScriptSteps, SameSteps, Kept
<1> QED BY <1>2 DEF Level

\* The combinators at the first n places are the same.
LEMMA SameCallers ==
  ASSUME NEW fs, NEW gs, NEW n \in Nat, \A i \in 1..n : gs[i] = fs[i], NEW s, NEW d
  PROVE  /\ Level(gs, n, s, d) <=> Level(fs, n, s, d)
         /\ NoDeeper(gs, n, d) <=> NoDeeper(fs, n, d)
         /\ \A ast : Pinned(gs, n, ast) <=> Pinned(fs, n, ast)
<1>1. \A i \in 1..n : \A k \in (i + 1)..n : k \in 1..n
  OBVIOUS
<1>2. Level(gs, n, s, d) <=> Level(fs, n, s, d)
  BY <1>1 DEF Level
<1> QED BY <1>2 DEF NoDeeper, Pinned

LEMMA SameCallersGood ==
  ASSUME NEW fs, NEW gs, NEW n \in Nat, \A i \in 1..n : gs[i] = fs[i], NEW s, NEW x,
         FrameGood(fs, n, x, s)
  PROVE  FrameGood(gs, n, x, s)
<1>1. /\ Level(gs, n, s, Outside(x)) <=> Level(fs, n, s, Outside(x))
      /\ NoDeeper(gs, n, Outside(x)) <=> NoDeeper(fs, n, Outside(x))
      /\ Pinned(gs, n, x.ast) <=> Pinned(fs, n, x.ast)
  BY SameCallers
<1> QED BY <1>1 DEF FrameGood, StepFrameGood

\* The steps of the combinators are still open.
LEMMA FramesKept ==
  ASSUME NEW fs \in Seq(Frames), NEW s, NEW r \in Seq(Steps), NEW m \in Nat,
         SameSteps(s, r, m), FramesGood(fs, s), NoDeeper(fs, Len(fs), m)
  PROVE  FramesGood(fs, r)
<1> SUFFICES ASSUME NEW j \in DOMAIN fs PROVE FrameGood(fs, j - 1, fs[j], r)
  BY DEF FramesGood
<1>1. j \in 1..Len(fs) /\ j - 1 \in Nat /\ Len(r) \in Nat
  OBVIOUS
<1>a. fs[j].depth \in Nat /\ fs[j].depth > 0 /\ Outside(fs[j]) \in Nat
  BY <1>1, FrameTypes
<1>2. FrameGood(fs, j - 1, fs[j], s)
  BY DEF FramesGood
<1>3. ASSUME IsStep(fs[j]) PROVE StepFrameGood(fs, j - 1, fs[j], r)
  <2>1. fs[j].depth <= m /\ StepFrameGood(fs, j - 1, fs[j], s)
    BY <1>1, <1>2, <1>3 DEF NoDeeper, FrameGood
  <2>2. fs[j].depth \in 2..Len(r) /\ fs[j].depth \in 1..m
    BY <1>1, <1>a, <2>1 DEF StepFrameGood, SameSteps
  <2>3. Kept(s[fs[j].depth], r[fs[j].depth])
    BY <2>2 DEF SameSteps
  <2>4. Outside(fs[j]) \in Nat /\ Outside(fs[j]) <= m
    BY <1>a, <2>1, <2>2 DEF Outside
  <2>5. Level(fs, j - 1, r, Outside(fs[j]))
    BY <1>1, <2>1, <2>4, LevelKept DEF StepFrameGood
  <2> QED BY <2>1, <2>2, <2>3, <2>5 DEF StepFrameGood, Kept
<1> QED BY <1>2, <1>3 DEF FrameGood

\* No combinator is deeper than the current step.
LEMMA Deepest ==
  ASSUME NEW fs \in Seq(Frames), NEW s, NEW d \in Nat, FramesGood(fs, s),
         Level(fs, Len(fs), s, d)
  PROVE  NoDeeper(fs, Len(fs), d)
<1>1. CASE \A k \in 1..Len(fs) : ~IsStep(fs[k])
  BY <1>1 DEF NoDeeper
<1>2. CASE \E i \in 1..Len(fs) : IsStep(fs[i]) /\ (\A k \in (i + 1)..Len(fs) : ~IsStep(fs[k]))
                                 /\ d = fs[i].depth
  <2>1. PICK i \in 1..Len(fs) : IsStep(fs[i]) /\ (\A k \in (i + 1)..Len(fs) : ~IsStep(fs[k]))
                                /\ d = fs[i].depth
    BY <1>2
  <2>2. NoDeeper(fs, i - 1, Outside(fs[i]))
    BY <2>1 DEF FramesGood, FrameGood, StepFrameGood
  <2>3. Outside(fs[i]) <= d /\ Outside(fs[i]) \in Nat
    BY <2>1, FrameTypes DEF Outside
  <2> SUFFICES ASSUME NEW j \in 1..Len(fs), IsStep(fs[j]) PROVE fs[j].depth <= d
    BY DEF NoDeeper
  <2>4. CASE j = i
    BY <2>1, <2>4
  <2>5. CASE j < i
    <3>1. j \in 1..(i - 1) /\ fs[j].depth \in Nat
      BY <2>5, FrameTypes
    <3> QED BY <2>2, <2>3, <3>1 DEF NoDeeper
  <2>6. CASE j > i
    BY <2>1, <2>6
  <2> QED BY <2>4, <2>5, <2>6
<1> QED BY <1>1, <1>2 DEF Level

\* The innermost combinator has opened a step.
LEMMA InnermostStep ==
  ASSUME NEW fs \in Seq(Frames), NEW s, FramesGood(fs, s), fs # <<>>, IsStep(Last(fs))
  PROVE  /\ NoDeeper(fs, Len(fs), Last(fs).depth)
         /\ \A d : Level(fs, Len(fs), s, d) <=> d = Last(fs).depth
<1> DEFINE n == Len(fs)
<1>1. n \in Nat /\ n > 0 /\ n \in 1..n /\ Last(fs) = fs[n] /\ n = Len(fs)
  BY DEF Last
<1>2. \A k \in (n + 1)..n : ~IsStep(fs[k])
  BY <1>1
<1>3. \A i \in 1..n : (\A k \in (i + 1)..n : ~IsStep(fs[k])) => i = n
  <2> SUFFICES ASSUME NEW i \in 1..n, i # n PROVE n \in (i + 1)..n
    BY <1>1
  <2> QED BY <1>1
<1>4. \A d : Level(fs, n, s, d) <=> d = fs[n].depth
  BY <1>1, <1>2, <1>3 DEF Level
<1>5. fs[n].depth \in Nat
  BY <1>1, FrameTypes
<1>6. NoDeeper(fs, n, fs[n].depth)
  BY <1>4, <1>5, Deepest
<1> QED BY <1>1, <1>4, <1>6

\* Entering a combinator.
LEMMA FramesPush ==
  ASSUME NEW fs \in Seq(Frames), NEW s, FramesGood(fs, s), NEW x \in Frames,
         FrameGood(fs, Len(fs), x, s)
  PROVE  LET gs == Append(fs, x)
         IN /\ FramesGood(gs, s)
            /\ \A d : Level(gs, Len(gs), s, d) <=>
                 IF IsStep(x) THEN d = x.depth ELSE Level(fs, Len(fs), s, d)
            /\ \A ast : Pinned(gs, Len(gs), ast) <=>
                 Pinned(fs, Len(fs), ast) /\ (x.kind = "preserve" => AstTyped(x.typed, ast))
<1> DEFINE gs == Append(fs, x)
           n == Len(fs)
<1>1. /\ n \in Nat /\ n = Len(fs) /\ Len(gs) = n + 1 /\ DOMAIN gs = 1..(n + 1)
      /\ DOMAIN fs = 1..n /\ gs[n + 1] = x /\ (\A i \in 1..n : gs[i] = fs[i]) /\ Last(gs) = x
      /\ gs \in Seq(Frames) /\ gs # <<>>
  BY DEF Last
<1> HIDE DEF gs, n
<1>2. FramesGood(gs, s)
  <2> SUFFICES ASSUME NEW j \in 1..(n + 1) PROVE FrameGood(gs, j - 1, gs[j], s)
    BY <1>1 DEF FramesGood
  <2>1. j - 1 \in Nat /\ \A i \in 1..(j - 1) : i \in 1..n
    BY <1>1
  <2>2. \A i \in 1..(j - 1) : gs[i] = fs[i]
    BY <1>1, <2>1
  <2>3. FrameGood(fs, j - 1, gs[j], s)
    <3>1. CASE j = n + 1
      <4>1. n + 1 - 1 = n
        BY <1>1
      <4> QED BY <1>1, <3>1, <4>1
    <3>2. CASE j # n + 1
      <4>1. j \in 1..n
        BY <1>1, <3>2
      <4> QED BY <1>1, <4>1 DEF FramesGood
    <3> QED BY <3>1, <3>2
  <2> QED BY <2>1, <2>2, <2>3, SameCallersGood
<1>3. ASSUME IsStep(x), NEW d
      PROVE  Level(gs, n + 1, s, d) <=> d = x.depth
  BY <1>1, <1>2, <1>3, InnermostStep
<1>4. ASSUME ~IsStep(x), NEW d
      PROVE  Level(gs, n + 1, s, d) <=> Level(fs, n, s, d)
  <2>1. Level(gs, n, s, d) <=> Level(fs, n, s, d)
    BY <1>1, SameCallers
  <2>2. \A i \in 1..n : n + 1 \in (i + 1)..(n + 1) /\ \A k \in (i + 1)..(n + 1) : k # n + 1 => k \in (i + 1)..n
    BY <1>1
  <2>3. \A k \in 1..(n + 1) : k # n + 1 => k \in 1..n
    BY <1>1
  <2>4. Level(gs, n + 1, s, d) <=> Level(gs, n, s, d)
    BY <1>1, <1>4, <2>2, <2>3 DEF Level
  <2> QED BY <2>1, <2>4
<1>5. ASSUME NEW ast
      PROVE  Pinned(gs, n + 1, ast) <=>
               Pinned(fs, n, ast) /\ (x.kind = "preserve" => AstTyped(x.typed, ast))
  <2>1. Pinned(gs, n, ast) <=> Pinned(fs, n, ast)
    BY <1>1, SameCallers
  <2>2. n + 1 \in 1..(n + 1) /\ \A k \in 1..(n + 1) : k # n + 1 => k \in 1..n
    BY <1>1
  <2>3. \A k \in 1..n : k \in 1..(n + 1)
    BY <1>1
  <2> QED BY <1>1, <2>1, <2>2, <2>3 DEF Pinned
<1> QED BY <1>1, <1>2, <1>3, <1>4, <1>5 DEF gs, n

\* Leaving the innermost combinator.
LEMMA FramesPop ==
  ASSUME NEW fs \in Seq(Frames), NEW s, FramesGood(fs, s), fs # <<>>
  PROVE  LET gs == Front(fs)
             x == Last(fs)
         IN /\ gs \in Seq(Frames) /\ FramesGood(gs, s) /\ FrameGood(gs, Len(gs), x, s)
            /\ \A d : ~IsStep(x) => (Level(gs, Len(gs), s, d) <=> Level(fs, Len(fs), s, d))
            /\ \A ast : Pinned(fs, Len(fs), ast) <=>
                 Pinned(gs, Len(gs), ast) /\ (x.kind = "preserve" => AstTyped(x.typed, ast))
<1> DEFINE gs == Front(fs)
           x == Last(fs)
           n == Len(fs)
<1>1. /\ n \in Nat /\ n > 0 /\ n = Len(fs) /\ DOMAIN fs = 1..n /\ x = fs[n] /\ x \in Frames
      /\ gs \in Seq(Frames) /\ Len(gs) = n - 1 /\ \A i \in 1..(n - 1) : gs[i] = fs[i]
  BY FrontLast DEF Last
<1>2. DOMAIN gs = 1..(n - 1)
  BY <1>1
<1> HIDE DEF gs, x, n
<1>a. fs = Append(gs, x)
  <2>1. /\ Append(gs, x) \in Seq(Frames) /\ Len(Append(gs, x)) = n
        /\ \A i \in 1..(n - 1) : Append(gs, x)[i] = gs[i]
        /\ Append(gs, x)[n] = x
    BY <1>1
  <2>2. \A i \in 1..n : fs[i] = Append(gs, x)[i]
    BY <1>1, <2>1
  <2> QED BY <1>1, <2>1, <2>2, SeqEqual
<1>3. FramesGood(gs, s)
  <2> SUFFICES ASSUME NEW j \in 1..(n - 1) PROVE FrameGood(gs, j - 1, gs[j], s)
    BY <1>2 DEF FramesGood
  <2>1. j \in 1..n /\ j - 1 \in Nat /\ (\A i \in 1..(j - 1) : fs[i] = gs[i]) /\ gs[j] = fs[j]
    BY <1>1
  <2>2. FrameGood(fs, j - 1, gs[j], s)
    BY <1>1, <2>1 DEF FramesGood
  <2> QED BY <2>1, <2>2, SameCallersGood
<1>4. FrameGood(gs, n - 1, x, s)
  <2>1. n \in 1..n /\ n - 1 \in Nat /\ \A i \in 1..(n - 1) : fs[i] = gs[i]
    BY <1>1
  <2>2. FrameGood(fs, n - 1, x, s)
    BY <1>1, <2>1 DEF FramesGood
  <2> QED BY <2>1, <2>2, SameCallersGood
<1>5. /\ \A d : Level(fs, Len(fs), s, d) <=>
           IF IsStep(x) THEN d = x.depth ELSE Level(gs, Len(gs), s, d)
      /\ \A ast : Pinned(fs, Len(fs), ast) <=>
           Pinned(gs, Len(gs), ast) /\ (x.kind = "preserve" => AstTyped(x.typed, ast))
  <2>1. FrameGood(gs, Len(gs), x, s)
    BY <1>1, <1>4
  <2>2. LET hs == Append(gs, x)
        IN /\ FramesGood(hs, s)
           /\ \A d : Level(hs, Len(hs), s, d) <=>
                IF IsStep(x) THEN d = x.depth ELSE Level(gs, Len(gs), s, d)
           /\ \A ast : Pinned(hs, Len(hs), ast) <=>
                Pinned(gs, Len(gs), ast) /\ (x.kind = "preserve" => AstTyped(x.typed, ast))
    <3>1. gs \in Seq(Frames) /\ x \in Frames
      BY <1>1
    <3> QED BY <1>3, <2>1, <3>1, FramesPush
  <2> QED BY <1>a, <2>2
<1> QED BY <1>1, <1>3, <1>4, <1>5 DEF gs, x

-----------------------------------------------------------------------------
(* What the steps of the program have in common.                            *)

\* What every step of a script starts from.
LEMMA Handles ==
  ASSUME IInv, HInv, mode # "done"
  PROVE  /\ Good(the_trace) /\ the_trace.exn = "none" /\ Depth \in Nat /\ Depth > 0
         /\ Depth = Len(the_trace.step_stack) /\ the_trace.step_stack \in Seq(Steps)
         /\ mode # "failed" => Neat(the_trace)
         /\ flags \in FlagValues /\ FixedFlags(flags)
         /\ frames \in Seq(Frames) /\ FramesGood(frames, the_trace.step_stack)
         /\ mode \in {"start", "run"} =>
              /\ Level(frames, Len(frames), the_trace.step_stack, Depth)
              /\ Pinned(frames, Len(frames), the_trace.cur_ast)
              /\ NoDeeper(frames, Len(frames), Depth)
         /\ mode \in {"start", "run", "raise", "closing", "closing_all"} => Typed(the_trace)
<1>1. /\ Wf(the_trace) /\ the_trace.exn = "none" /\ Depth \in Nat /\ Depth > 0
      /\ flags \in FlagValues /\ frames \in Seq(Frames)
  BY Facts DEF FramesOK
<1>2. Depth = Len(the_trace.step_stack) /\ the_trace.step_stack \in Seq(Steps)
  BY <1>1, TopOfWf DEF Depth
<1>3. Good(the_trace) /\ (mode # "failed" => Neat(the_trace))
  BY <1>1, <1>2 DEF HInv, StepsInv, Good, Neat
<1>4. FixedFlags(flags) /\ FramesGood(frames, the_trace.step_stack)
  BY DEF HInv, CallsInv
<1>5. mode \in {"start", "run"} =>
        /\ Level(frames, Len(frames), the_trace.step_stack, Depth)
        /\ Pinned(frames, Len(frames), the_trace.cur_ast)
  BY DEF HInv, RunInv
<1>6. mode \in {"start", "run"} => NoDeeper(frames, Len(frames), Depth)
  BY <1>1, <1>4, <1>5, Deepest
<1> QED BY <1>1, <1>2, <1>3, <1>4, <1>5, <1>6 DEF HInv, RunInv

\* A call that ends in state t, by returning or by an exception.
LEMMA GoOn ==
  ASSUME NEW t, Good(t), Continue(t), FixedFlags(flags'), FramesGood(frames', t.step_stack),
         t.exn # "trace" => Neat(t) /\ Typed(t),
         t.exn = "none" => /\ Level(frames', Len(frames'), t.step_stack, Len(t.step_stack))
                           /\ Pinned(frames', Len(frames'), t.cur_ast)
  PROVE  HInv'
<1>1. /\ the_trace'.step_stack = t.step_stack /\ the_trace'.cur_ast = t.cur_ast
      /\ the_trace'.cur_ast_typed = t.cur_ast_typed
  BY ClearExnGood DEF Continue
<1>2. /\ mode' \in {"run", "raise", "failed"}
      /\ mode' # "failed" => t.exn # "trace"
      /\ mode' = "run" => t.exn = "none"
  BY DEF Continue, Outcome
<1>3. Depth' = Len(t.step_stack)
  BY <1>1 DEF Depth
<1>4. StepsInv'
  BY <1>1, <1>2, <1>3 DEF StepsInv, Good, Neat
<1>5. CallsInv'
  BY <1>1 DEF CallsInv
<1>6. RunInv'
  BY <1>1, <1>2, <1>3 DEF RunInv, Typed
<1>7. EndInv'
  BY <1>2 DEF EndInv, ExitAtScriptLevel
<1> QED BY <1>4, <1>5, <1>6, <1>7 DEF HInv

\* A body that goes on after a call that raised nothing.
LEMMA Returned ==
  ASSUME NEW t, Wf(t), t.exn = "none", the_trace' = t, mode' = "run"
  PROVE  Continue(t)
<1>1. t = [t EXCEPT !.exn = "none"]
  BY DEF Wf, Traces
<1> QED BY <1>1 DEF Continue, Outcome

\* A call made by the body of a combinator.
LEMMA BodyCall ==
  ASSUME IInv, HInv, Running, UNCHANGED <<flags, frames>>,
         NEW t, Neat(t), MoreSteps(the_trace, t), Typed(t), Continue(t),
         t.exn = "none" => /\ SameStack(the_trace, t)
                           /\ Pinned(frames, Len(frames), t.cur_ast)
  PROVE  HInv'
<1> DEFINE s == the_trace.step_stack
           n == Len(s)
<1>1. /\ n \in Nat /\ n = Len(s) /\ Depth = n /\ FixedFlags(flags) /\ frames \in Seq(Frames)
      /\ FramesGood(frames, s) /\ NoDeeper(frames, Len(frames), n)
      /\ Level(frames, Len(frames), s, n)
  BY Handles DEF Running
<1>2. t.step_stack \in Seq(Steps) /\ Good(t)
  BY TopOfWf DEF Neat, Good
<1>3. SameSteps(s, t.step_stack, n)
  BY DEF MoreSteps
<1> HIDE DEF s, n
<1>4. FramesGood(frames, t.step_stack)
  BY <1>1, <1>2, <1>3, FramesKept
<1>5. t.exn = "none" => Level(frames, Len(frames), t.step_stack, Len(t.step_stack))
  <2> SUFFICES ASSUME t.exn = "none" PROVE Level(frames, Len(frames), t.step_stack, n)
    BY <1>1 DEF SameStack, s
  <2>1. Len(frames) \in Nat
    BY <1>1
  <2> QED BY <1>1, <1>3, <2>1, LevelKept
<1> QED BY <1>1, <1>2, <1>4, <1>5, GoOn

\* A call that leaves the open steps as they are, and raises nothing.
LEMMA BodyReturn ==
  ASSUME IInv, HInv, Running, UNCHANGED <<flags, frames, mode>>,
         Good(the_trace'), the_trace'.exn = "none", SameStack(the_trace, the_trace'),
         Typed(the_trace'), Pinned(frames, Len(frames), the_trace'.cur_ast)
  PROVE  HInv'
<1> DEFINE t == the_trace'
<1>1. Continue(t)
  BY Returned DEF Good, Running
<1>2. Neat(the_trace) /\ Good(t)
  BY Handles DEF Running
<1>3. Neat(t) /\ MoreSteps(the_trace, t)
  BY <1>2 DEF Neat, SameStack, MoreSteps
<1>4. t.exn = "none" => SameStack(the_trace, t) /\ Pinned(frames, Len(frames), t.cur_ast)
  OBVIOUS
<1>5. Typed(t)
  OBVIOUS
<1> HIDE DEF t
<1> QED BY <1>1, <1>3, <1>4, <1>5, BodyCall

-----------------------------------------------------------------------------
(* What the body of a combinator does.                                      *)

\* A newly built AST.
LEMMA NewGood ==
  ASSUME NEW t, Good(t), NEW code \in Codes,
         NEW ann \in {"none", "stale", "typed", "error"}, NEW typed \in BOOLEAN
  PROVE  LET u == PutNew(t, code, ann, typed)
         IN /\ Good(u) /\ u.exn = t.exn /\ u.step_stack = t.step_stack /\ SameStack(t, u)
            /\ u.cur_ast \in Asts /\ u.cur_ast.code = code /\ u.cur_ast.ann = ann
            /\ u.cur_ast_typed = typed
<1> DEFINE u == PutNew(t, code, ann, typed)
<1>1. Wf(u) /\ u.step_stack = t.step_stack /\ u.exn = t.exn
  BY PutNewWf DEF Good
<1>2. /\ u.cur_ast = [ver |-> t.next_ver, code |-> code, ann |-> ann]
      /\ u.cur_ast_typed = typed
  BY DEF PutNew, Good, Wf, Traces
<1> HIDE DEF u
<1>3. u.cur_ast \in Asts
  BY <1>1 DEF Wf, Traces
<1> QED BY <1>1, <1>2, <1>3, SameStackGood DEF u

\* The same program with the same annotations.
LEMMA NewSameGood ==
  ASSUME NEW t, Good(t), NEW typed \in BOOLEAN
  PROVE  LET u == PutNew(t, t.cur_ast.code, t.cur_ast.ann, typed)
         IN /\ Good(u) /\ u.exn = t.exn /\ u.step_stack = t.step_stack /\ SameStack(t, u)
            /\ u.cur_ast \in Asts /\ u.cur_ast.code = t.cur_ast.code
            /\ u.cur_ast.ann = t.cur_ast.ann /\ u.cur_ast_typed = typed
<1>1. /\ t.cur_ast.code \in Codes
      /\ t.cur_ast.ann \in {"none", "stale", "typed", "error"}
  BY DEF Good, Wf, Traces, Asts
<1> QED BY <1>1, NewGood, SMTT(30)

LEMMA NothingPinned ==
  ASSUME frames \in Seq(Frames), ~InPreserve, NEW ast
  PROVE  Pinned(frames, Len(frames), ast)
BY DEF InPreserve, FramesOf, Pinned

LEMMA ApplyGood ==
  ASSUME NEW code \in Codes
  PROVE  IInv /\ HInv /\ apply(code) => HInv'
<1> SUFFICES ASSUME IInv, HInv, apply(code) PROVE HInv'
  OBVIOUS
<1> DEFINE ann == IF the_trace.cur_ast.ann = "none" THEN "none" ELSE "stale"
           u == PutNew(the_trace, code, ann, FALSE)
<1>1. /\ Running /\ ~InPreserve /\ UNCHANGED <<flags, frames, mode>>
      /\ the_trace' = u
  BY DEF apply, CanBuildAst
<1>2. ann \in {"none", "stale", "typed", "error"}
  OBVIOUS
<1>3. Good(the_trace) /\ the_trace.exn = "none" /\ frames \in Seq(Frames)
  BY <1>1, Handles DEF Running
<1> HIDE DEF ann
<1>4. \A b \in BOOLEAN :
        LET w == PutNew(the_trace, code, ann, b)
        IN Good(w) /\ w.exn = the_trace.exn /\ SameStack(the_trace, w) /\ w.cur_ast_typed = b
  BY <1>2, <1>3, NewGood
<1>5. Good(u) /\ u.exn = "none" /\ SameStack(the_trace, u) /\ u.cur_ast_typed = FALSE
  BY <1>3, <1>4
<1>6. Typed(u) /\ Pinned(frames, Len(frames), u.cur_ast)
  BY <1>1, <1>3, <1>5, NothingPinned DEF Typed, AstTyped
<1> HIDE DEF u
<1> QED BY <1>1, <1>5, <1>6, BodyReturn

\* An AST with the same annotations is as good for preserves_resource_typing.
LEMMA PinnedSame ==
  ASSUME NEW fs, NEW n, NEW a, NEW b, a.ann = b.ann
  PROVE  Pinned(fs, n, a) <=> Pinned(fs, n, b)
BY DEF Pinned, AstTyped

LEMMA ApplyMarksGood ==
  IInv /\ HInv /\ apply_marks => HInv'
<1> SUFFICES ASSUME IInv, HInv, apply_marks PROVE HInv'
  OBVIOUS
<1> DEFINE u == PutNew(the_trace, the_trace.cur_ast.code, the_trace.cur_ast.ann, FALSE)
<1>1. Running /\ UNCHANGED <<flags, frames, mode>> /\ the_trace' = u
  BY DEF apply_marks, CanBuildAst
<1>2. /\ Good(the_trace) /\ the_trace.exn = "none"
      /\ Pinned(frames, Len(frames), the_trace.cur_ast)
  BY <1>1, Handles DEF Running
<1>3. \A b \in BOOLEAN :
        LET w == PutNew(the_trace, the_trace.cur_ast.code, the_trace.cur_ast.ann, b)
        IN /\ Good(w) /\ w.exn = the_trace.exn /\ SameStack(the_trace, w)
           /\ w.cur_ast.ann = the_trace.cur_ast.ann /\ w.cur_ast_typed = b
  BY <1>2, NewSameGood
<1>4. /\ Good(u) /\ u.exn = "none" /\ SameStack(the_trace, u)
      /\ u.cur_ast.ann = the_trace.cur_ast.ann /\ u.cur_ast_typed = FALSE
  BY <1>2, <1>3
<1> HIDE DEF u
<1>5. Typed(u) /\ Pinned(frames, Len(frames), u.cur_ast)
  BY <1>2, <1>4, PinnedSame DEF Typed, AstTyped
<1> QED BY <1>1, <1>4, <1>5, BodyReturn

LEMMA JustifyGood ==
  IInv /\ HInv /\ Justify => HInv'
<1> SUFFICES ASSUME IInv, HInv, Justify PROVE HInv'
  OBVIOUS
<1> DEFINE u == justif(the_trace)
<1>1. /\ Running /\ UNCHANGED <<flags, frames, mode>> /\ the_trace' = u
      /\ Top(the_trace).kind # "backtrack"
  BY DEF Justify
<1>2. /\ Good(the_trace) /\ the_trace.exn = "none" /\ Typed(the_trace)
      /\ Pinned(frames, Len(frames), the_trace.cur_ast)
  BY <1>1, Handles DEF Running
<1>3. /\ Good(u) /\ u.exn = "none" /\ SameStack(the_trace, u)
      /\ u.cur_ast = the_trace.cur_ast /\ u.cur_ast_typed = the_trace.cur_ast_typed
  BY <1>1, <1>2, JustifGood
<1> HIDE DEF u
<1>4. Typed(u)
  BY <1>2, <1>3 DEF Typed
<1> QED BY <1>1, <1>2, <1>3, <1>4, BodyReturn

\* SameStack composes.
LEMMA SameStackTrans ==
  ASSUME NEW t, NEW u, NEW v, SameStack(t, u), SameStack(u, v)
  PROVE  SameStack(t, v)
BY DEF SameStack, SameSteps, Kept

LEMMA IterGood ==
  IInv /\ HInv /\ set_ast_for_target_iter => HInv'
<1> SUFFICES ASSUME IInv, HInv, set_ast_for_target_iter PROVE HInv'
  OBVIOUS
<1> DEFINE old == the_trace.cur_ast
           u == PutNew(the_trace, old.code, old.ann, FALSE)
           v == LeafStep(u, "mark_manip", old, u.cur_ast, TRUE)
<1>1. Running /\ UNCHANGED <<flags, frames, mode>> /\ the_trace' = v
  BY DEF set_ast_for_target_iter, CanBuildAst
<1>2. /\ Good(the_trace) /\ the_trace.exn = "none" /\ old \in Asts
      /\ Pinned(frames, Len(frames), old)
  BY <1>1, Handles DEF Running, Good, Wf, Traces
<1>3. /\ Good(u) /\ u.exn = "none" /\ SameStack(the_trace, u) /\ u.cur_ast \in Asts
      /\ u.cur_ast.ann = old.ann /\ u.cur_ast_typed = FALSE
  <2>1. \A b \in BOOLEAN :
          LET w == PutNew(the_trace, old.code, old.ann, b)
          IN /\ Good(w) /\ w.exn = the_trace.exn /\ SameStack(the_trace, w) /\ w.cur_ast \in Asts
             /\ w.cur_ast.ann = old.ann /\ w.cur_ast_typed = b
    BY <1>2, NewSameGood
  <2> QED BY <1>2, <2>1
<1> HIDE DEF u, old
<1>4. /\ Good(v) /\ v.exn = "none" /\ SameStack(u, v)
      /\ v.cur_ast = u.cur_ast /\ v.cur_ast_typed = u.cur_ast_typed
  <2>1. "mark_manip" \in Kinds \ {"root", "big", "small", "backtrack"}
    BY DEF Kinds
  <2> QED BY <1>2, <1>3, <2>1, LeafStepGood, ZenonT(60)
<1> HIDE DEF v
<1>5. /\ SameStack(the_trace, v) /\ Typed(v) /\ Pinned(frames, Len(frames), v.cur_ast)
  BY <1>2, <1>3, <1>4, SameStackTrans, PinnedSame DEF Typed, AstTyped
<1> QED BY <1>1, <1>4, <1>5, BodyReturn

LEMMA ResolveGood ==
  IInv /\ HInv /\ target_resolve_step => HInv'
<1> SUFFICES ASSUME IInv, HInv, target_resolve_step PROVE HInv'
  OBVIOUS
<1> DEFINE old == the_trace.cur_ast
           typed == the_trace.cur_ast_typed
           new == PutNew(the_trace, old.code, old.ann, typed)
           u == IF RequestTrace THEN new ELSE the_trace
           v == LeafStep(u, "target_resolve", old, u.cur_ast, TRUE)
           w == PutBack(v, old, typed)
<1>1. Running /\ UNCHANGED <<flags, frames, mode>> /\ the_trace' = w
  BY DEF target_resolve_step, CanBuildAst
<1>2. /\ Good(the_trace) /\ the_trace.exn = "none" /\ old \in Asts /\ typed \in BOOLEAN
      /\ Pinned(frames, Len(frames), old) /\ AstTyped(typed, old)
  BY <1>1, Handles DEF Running, Good, Wf, Traces, Typed
<1>3. /\ Good(u) /\ u.exn = "none" /\ SameStack(the_trace, u) /\ u.cur_ast \in Asts
  <2>1. Good(new) /\ new.exn = "none" /\ SameStack(the_trace, new) /\ new.cur_ast \in Asts
    BY <1>2, NewSameGood
  <2>2. SameStack(the_trace, the_trace)
    BY <1>2, SameStackGood DEF Good
  <2> HIDE DEF new
  <2> QED BY <1>2, <2>1, <2>2
<1> HIDE DEF u, old, typed
<1>4. Good(v) /\ v.exn = "none" /\ SameStack(u, v)
  <2>1. "target_resolve" \in Kinds \ {"root", "big", "small", "backtrack"}
    BY DEF Kinds
  <2> QED BY <1>2, <1>3, <2>1, LeafStepGood, ZenonT(60)
<1> HIDE DEF v
<1>5. /\ Wf(w) /\ w.exn = "none" /\ w.step_stack = v.step_stack
      /\ w.cur_ast = old /\ w.cur_ast_typed = typed
  <2>1. Wf(w) /\ w.exn = "none" /\ w.step_stack = v.step_stack
    BY <1>2, <1>4, PutBackWf DEF Good
  <2> QED BY <2>1, <1>4 DEF PutBack, Good, Wf, Traces
<1> HIDE DEF w
<1>6. Good(w) /\ SameStack(the_trace, w)
  BY <1>3, <1>4, <1>5, SameStackGood, SameStackTrans
<1>7. Typed(w)
  BY <1>2, <1>5 DEF Typed
<1> QED BY <1>1, <1>2, <1>5, <1>6, <1>7, BodyReturn

LEMMA EnsureGood ==
  IInv /\ HInv /\ ensure_computed => HInv'
<1> SUFFICES ASSUME IInv, HInv, ensure_computed PROVE HInv'
  OBVIOUS
<1> DEFINE t == recompute_resources(the_trace, flags)
<1>1. Running /\ UNCHANGED <<flags, frames>> /\ Continue(t)
  BY DEF ensure_computed, CanBuildAst
<1>2. /\ Good(the_trace) /\ the_trace.exn = "none" /\ Neat(the_trace) /\ Typed(the_trace)
      /\ Pinned(frames, Len(frames), the_trace.cur_ast) /\ flags \in FlagValues /\ FixedFlags(flags)
  BY <1>1, Handles DEF Running
<1>3. /\ Good(t) /\ SameProgram(the_trace, t) /\ MoreSteps(the_trace, t)
      /\ t.exn = "none" => SameStack(the_trace, t)
  BY <1>2, RecomputeGood
<1> HIDE DEF t
<1>4. Neat(t) /\ Typed(t)
  BY <1>2, <1>3 DEF Neat, MoreSteps, SameProgram
<1>5. t.exn = "none" => Pinned(frames, Len(frames), t.cur_ast)
  BY <1>2, <1>3 DEF SameProgram, Pinned, AstTyped
<1> QED BY <1>1, <1>3, <1>4, <1>5, BodyCall

LEMMA RestoreGood ==
  IInv /\ HInv /\ restore_original => HInv'
<1> SUFFICES ASSUME IInv, HInv, restore_original PROVE HInv'
  OBVIOUS
<1> DEFINE o == open_step(the_trace, flags, "transfo", FALSE, FALSE)
           ast == the_trace.step_stack[1].before
           t == close_step(PutBack(o, ast, FALSE), flags, FALSE, FALSE)
<1>1. Running /\ ~InPreserve /\ UNCHANGED <<flags, frames>>
  BY DEF restore_original, CanBuildAst
<1>2. /\ Neat(the_trace) /\ the_trace.exn = "none" /\ flags \in FlagValues /\ FixedFlags(flags)
      /\ ast \in Asts /\ frames \in Seq(Frames) /\ Good(the_trace)
  BY <1>1, Handles, RootBefore DEF Running, Good
<1>3. o.step_stack[1].before = ast
  <2>1. "transfo" \in MayContain(Top(the_trace).kind)
    BY AnywhereKinds DEF Kinds
  <2>2. \A b \in BOOLEAN :
          LET w == open_step(the_trace, flags, "transfo", b, b)
          IN \A i \in 1..Len(the_trace.step_stack) : w.step_stack[i] = the_trace.step_stack[i]
    BY <1>2, <2>1, OpenStepGood
  <2>3. 1 \in 1..Len(the_trace.step_stack)
    BY <1>2, TopOfWf DEF Good
  <2> QED BY <2>2, <2>3
<1>4. Continue(t)
  BY <1>3 DEF restore_original, DirectStep
<1>5. /\ Neat(t) /\ MoreSteps(the_trace, t) /\ (t.exn = "none" => SameStack(the_trace, t))
      /\ Typed(t)
  <2>1. \A b \in BOOLEAN :
          LET v == PutBack(open_step(the_trace, flags, "transfo", FALSE, FALSE), ast, b)
              u == close_step(v, flags, FALSE, FALSE)
          IN /\ Neat(u) /\ MoreSteps(the_trace, u) /\ (u.exn = "none" => SameStack(the_trace, u))
             /\ AstTyped(b, ast) => Typed(u)
    <3> HIDE DEF ast
    <3> QED BY <1>2, RestoreStepNeat
  <2> QED BY <2>1 DEF AstTyped
<1>6. Pinned(frames, Len(frames), t.cur_ast)
  <2> HIDE DEF t
  <2> QED BY <1>1, <1>2, NothingPinned
<1> HIDE DEF t
<1> QED BY <1>1, <1>4, <1>5, <1>6, BodyCall

\* An exception that is raised or goes up; a program that stops.
LEMMA SameTrace ==
  ASSUME IInv, HInv, mode \in {"run", "raise"}, UNCHANGED the_trace, FixedFlags(flags'),
         FramesGood(frames', the_trace.step_stack), mode' \in {"raise", "closing", "crashed"}
  PROVE  HInv'
<1>1. Depth' = Depth
  BY DEF Depth
<1>2. StepsInv'
  BY <1>1 DEF HInv, StepsInv
<1>3. CallsInv'
  BY DEF CallsInv
<1>4. RunInv'
  BY DEF HInv, RunInv, Typed
<1>5. EndInv'
  BY DEF EndInv, ExitAtScriptLevel
<1> QED BY <1>2, <1>3, <1>4, <1>5 DEF HInv

LEMMA RaiseGood ==
  IInv /\ HInv /\ Raise => HInv'
<1> SUFFICES ASSUME IInv, HInv, Raise PROVE HInv'
  OBVIOUS
<1>1. mode = "run" /\ mode' = "raise" /\ UNCHANGED <<the_trace, flags, frames>>
  BY DEF Raise, Running
<1>2. FixedFlags(flags') /\ FramesGood(frames', the_trace.step_stack)
  BY <1>1, Handles
<1> QED BY <1>1, <1>2, SameTrace

\* The steps that stay open through two calls.
LEMMA SameStepsTrans ==
  ASSUME NEW s, NEW r, NEW q, NEW m \in Nat, NEW n \in Nat, m <= n,
         SameSteps(s, r, m), SameSteps(r, q, n)
  PROVE  SameSteps(s, q, m)
BY DEF SameSteps, Kept

LEMMA ShowGood ==
  ASSUME NEW marked \in BOOLEAN
  PROVE  IInv /\ HInv /\ show_step(marked) => HInv'
<1> SUFFICES ASSUME IInv, HInv, show_step(marked) PROVE HInv'
  OBVIOUS
<1> DEFINE old == the_trace.cur_ast
           s == the_trace.step_stack
           n == Len(s)
           t == open_step(the_trace, flags, "backtrack", FALSE, TRUE)
           new == PutNew(t, old.code, old.ann, t.cur_ast_typed)
           u == IF marked THEN new ELSE t
           l == LeafStep(u, "show", old, u.cur_ast, flags.check_validity)
           f == [flags EXCEPT !.recompute = FALSE]
           c == close_step(justif(PutBack(l, old, t.cur_ast_typed)), f, FALSE, FALSE)
           w == IF c.exn = "none" /\ flags.recompute THEN recompute_resources(c, flags) ELSE c
<1>1. Running /\ UNCHANGED <<flags, frames>> /\ Continue(w)
  BY DEF show_step, CanBuildAst, Then
<1>2. /\ Neat(the_trace) /\ the_trace.exn = "none" /\ Typed(the_trace) /\ Good(the_trace)
      /\ Pinned(frames, Len(frames), old) /\ flags \in FlagValues /\ FixedFlags(flags)
      /\ frames \in Seq(Frames)
  BY <1>1, Handles DEF Running
<1>3. /\ old \in Asts /\ f \in FlagValues /\ FixedFlags(f) /\ ~f.recompute
      /\ f.check_validity = flags.check_validity /\ flags.check_validity \in BOOLEAN
      /\ flags.recompute \in BOOLEAN /\ n \in Nat /\ n > 0 /\ n = Len(s)
  <2>1. old \in Asts
    BY <1>2 DEF Good, Wf, Traces
  <2>2. n \in Nat /\ n > 0
    BY <1>2, TopOfWf DEF Good
  <2> QED BY <1>2, <2>1, <2>2, FlagsOK, ClearFlag DEF FixedFlags
<1>4. /\ Good(t) /\ t.exn = "none" /\ Len(t.step_stack) = n + 1
      /\ SameSteps(s, t.step_stack, n) /\ Ungranted(t.step_stack, n + 1)
      /\ t.step_stack[n + 1].before = old
      /\ t.step_stack[n + 1].check_validity = flags.check_validity
      /\ t.cur_ast = old /\ t.cur_ast_typed = the_trace.cur_ast_typed
  <2>1. "backtrack" \in MayContain(Top(the_trace).kind)
    BY AnywhereKinds DEF Kinds
  <2>2. \A d \in BOOLEAN :
          Opened(the_trace, open_step(the_trace, flags, "backtrack", FALSE, d), "backtrack", flags)
    BY <1>2, <2>1, OpenNeat
  <2>3. Opened(the_trace, t, "backtrack", flags)
    BY <2>2
  <2> HIDE DEF t
  <2> QED BY <2>3 DEF Opened, Neat
<1> HIDE DEF t
<1>5. /\ Good(u) /\ u.exn = "none" /\ SameStack(t, u) /\ u.cur_ast \in Asts
  <2>1. Good(new) /\ new.exn = "none" /\ SameStack(t, new) /\ new.cur_ast \in Asts
    <3>1. t.cur_ast_typed \in BOOLEAN
      BY <1>4 DEF Good, Wf, Traces
    <3>2. \A b \in BOOLEAN :
            LET x == PutNew(t, old.code, old.ann, b)
            IN Good(x) /\ x.exn = t.exn /\ SameStack(t, x) /\ x.cur_ast \in Asts
      BY <1>4, NewSameGood
    <3> QED BY <1>4, <3>1, <3>2
  <2>2. SameStack(t, t)
    BY <1>4, SameStackGood DEF Good
  <2> HIDE DEF new
  <2> QED BY <1>3, <1>4, <2>1, <2>2
<1> HIDE DEF u, old
<1>6. Good(l) /\ l.exn = "none" /\ SameStack(t, l)
  <2>1. "show" \in Kinds \ {"root", "big", "small", "backtrack"}
    BY DEF Kinds
  <2>2. Good(l) /\ l.exn = u.exn /\ SameStack(u, l)
    BY <1>3, <1>5, <2>1, LeafStepGood, SMTT(30)
  <2> QED BY <1>5, <2>2, SameStackTrans
<1> HIDE DEF l
<1>7. /\ Len(l.step_stack) = n + 1 /\ Top(l).before = old
      /\ Top(l).check_validity = flags.check_validity
      /\ Ungranted(l.step_stack, n) /\ SameSteps(s, l.step_stack, n)
  <2>1. Len(l.step_stack) = n + 1 /\ SameSteps(t.step_stack, l.step_stack, n + 1)
    BY <1>4, <1>6 DEF SameStack
  <2>2. n + 1 \in 1..(n + 1) /\ n <= n + 1 /\ n + 1 \in Nat
    BY <1>3
  <2>3. Kept(t.step_stack[n + 1], Top(l))
    BY <2>1, <2>2 DEF SameSteps, Top, Last
  <2>4. Ungranted(l.step_stack, n + 1)
    BY <1>4, <1>6 DEF SameStack
  <2>5. \A i \in 1..n : i \in 1..(n + 1)
    BY <1>3
  <2>6. Ungranted(l.step_stack, n)
    BY <2>4, <2>5 DEF Ungranted
  <2>7. SameSteps(s, l.step_stack, n)
    <3> HIDE DEF s, n
    <3> QED BY <1>3, <1>4, <2>1, <2>2, SameStepsTrans
  <2> QED BY <1>4, <2>1, <2>3, <2>6, <2>7 DEF Kept
<1>8. t.cur_ast_typed \in BOOLEAN /\ AstTyped(t.cur_ast_typed, old)
  BY <1>2, <1>4 DEF Typed, Good, Wf, Traces, old
<1>9. Undone(l, old, w) /\ w.exn # "trace"
  <2> HIDE DEF n, s, f
  <2>1. Len(l.step_stack) > 1 /\ Len(l.step_stack) - 1 = n /\ Ungranted(l.step_stack, Len(l.step_stack) - 1)
    BY <1>3, <1>7
  <2>2. \A d \in BOOLEAN :
          LET x == UndoRegion(l, old, t.cur_ast_typed, f, flags, flags.recompute, d)
          IN /\ Undone(l, old, x)
             /\ f.check_validity = Top(l).check_validity => x.exn # "trace"
    BY <1>2, <1>3, <1>6, <1>7, <1>8, <2>1, UndoGood
  <2>3. w = UndoRegion(l, old, t.cur_ast_typed, f, flags, flags.recompute, FALSE)
    BY DEF UndoRegion
  <2> HIDE DEF w
  <2> QED BY <1>3, <1>7, <2>2, <2>3
<1> HIDE DEF w, s, n
<1>10. /\ Neat(w) /\ Typed(w) /\ SameSteps(s, w.step_stack, n)
       /\ w.exn = "none" => Len(w.step_stack) = n /\ (old.ann = "typed" => w.cur_ast.ann = "typed")
  <2>1. Len(l.step_stack) - 1 = n
    BY <1>3, <1>7
  <2>2. /\ Neat(w) /\ Typed(w) /\ SameSteps(l.step_stack, w.step_stack, n)
        /\ w.exn = "none" => Len(w.step_stack) = n /\ (old.ann = "typed" => w.cur_ast.ann = "typed")
    BY <1>9, <2>1 DEF Undone
  <2> QED BY <1>3, <1>7, <2>2, SameStepsTrans
<1>11. MoreSteps(the_trace, w) /\ (w.exn = "none" => SameStack(the_trace, w))
  BY <1>10 DEF MoreSteps, SameStack, Neat, s, n
<1>12. w.exn = "none" => Pinned(frames, Len(frames), w.cur_ast)
  BY <1>2, <1>10 DEF Pinned, AstTyped
<1> QED BY <1>1, <1>10, <1>11, <1>12, BodyCall

-----------------------------------------------------------------------------
(* The steps of the script.                                                 *)

\* In a stack of steps of the script, only the innermost one may be a small step.
LEMMA ScriptBelowTop ==
  ASSUME NEW s \in Seq(Steps), StackGood(s), ScriptSteps(s, Len(s)),
         NEW i \in 1..(Len(s) - 1)
  PROVE  s[i].kind \in {"root", "big"}
<1>1. /\ i \in 1..Len(s) /\ i + 1 \in DOMAIN s /\ i + 1 > 1 /\ i + 1 - 1 = i
      /\ i + 1 \in 1..Len(s)
  OBVIOUS
<1>2. s[i + 1].kind \in MayContain(s[i].kind)
  BY <1>1 DEF StackGood
<1>3. s[i].kind \in {"root", "big", "small"} /\ s[i + 1].kind \in {"root", "big", "small"}
  BY <1>1 DEF ScriptSteps
<1> QED BY <1>2, <1>3 DEF MayContain

LEMMA SmallClosed ==
  ASSUME NEW t, Neat(t), t.exn = "none", NEW f \in FlagValues, FixedFlags(f),
         ScriptSteps(t.step_stack, Len(t.step_stack))
  PROVE  LET u == close_step_kind_if_needed(t, f, "small")
         IN /\ Neat(u) /\ SameProgram(t, u)
            /\ u.exn = "none" => /\ ScriptSteps(u.step_stack, Len(u.step_stack))
                                 /\ Top(u).kind \in {"root", "big"}
<1> DEFINE u == close_step_kind_if_needed(t, f, "small")
<1>1. /\ Neat(u) /\ SameProgram(t, u)
      /\ u.exn = "none" =>
           /\ SameSteps(t.step_stack, u.step_stack, Len(u.step_stack))
           /\ Len(u.step_stack) < Len(t.step_stack) => "small" \in MayContain(Top(u).kind)
           /\ Len(u.step_stack) = Len(t.step_stack) =>
                Top(u).kind = Top(t).kind /\ Top(u).kind # "small"
           /\ Len(u.step_stack) <= Len(t.step_stack)
  BY CloseKindNeat
<1> HIDE DEF u
<1>2. /\ Len(t.step_stack) \in Nat /\ Len(u.step_stack) \in Nat /\ Len(u.step_stack) > 0
      /\ Top(u) = u.step_stack[Len(u.step_stack)]
  BY <1>1, TopOfWf DEF Neat, Good, Top, Last
<1>3. ASSUME u.exn = "none"
      PROVE  ScriptSteps(u.step_stack, Len(u.step_stack))
  <2>1. \A i \in 1..Len(u.step_stack) : i \in 1..Len(t.step_stack)
    BY <1>1, <1>2, <1>3
  <2> QED BY <1>1, <1>3, <2>1 DEF ScriptSteps, SameSteps, Kept
<1>4. ASSUME u.exn = "none"
      PROVE  Top(u).kind \in {"root", "big"}
  <2>1. Top(u).kind \in {"root", "big", "small"}
    BY <1>2, <1>3, <1>4 DEF ScriptSteps
  <2>2. CASE Len(u.step_stack) < Len(t.step_stack)
    BY <1>1, <1>4, <2>1, <2>2 DEF MayContain
  <2>3. CASE Len(u.step_stack) = Len(t.step_stack)
    BY <1>1, <1>4, <2>1, <2>3
  <2> QED BY <1>1, <1>2, <1>4, <2>2, <2>3
<1> QED BY <1>1, <1>3, <1>4 DEF u

LEMMA BigClosed ==
  ASSUME NEW t, Neat(t), t.exn = "none", NEW f \in FlagValues, FixedFlags(f)
  PROVE  LET u == close_bigstep_if_needed(t, f)
         IN /\ Neat(u) /\ (Typed(t) => Typed(u))
            /\ u.exn = "none" /\ ScriptSteps(t.step_stack, Len(t.step_stack)) =>
                 /\ ScriptSteps(u.step_stack, Len(u.step_stack))
                 /\ Top(u).kind = "root"
<1> DEFINE v == close_step_kind_if_needed(t, f, "small")
           w == close_step_kind_if_needed(v, f, "big")
           u == close_bigstep_if_needed(t, f)
           s == t.step_stack
<1>1. u = IF v.exn = "none" THEN w ELSE v
  BY DEF close_bigstep_if_needed, Then
<1>2. Neat(v) /\ SameProgram(t, v)
  BY CloseKindNeat
<1>3. v.exn = "none" /\ ScriptSteps(s, Len(s)) =>
        ScriptSteps(v.step_stack, Len(v.step_stack)) /\ Top(v).kind \in {"root", "big"}
  BY SmallClosed
<1> HIDE DEF v
<1>4. ASSUME v.exn = "none"
      PROVE  /\ Neat(w) /\ SameProgram(v, w)
             /\ w.exn = "none" =>
                  /\ SameSteps(v.step_stack, w.step_stack, Len(w.step_stack))
                  /\ Len(w.step_stack) < Len(v.step_stack) => "big" \in MayContain(Top(w).kind)
                  /\ Len(w.step_stack) = Len(v.step_stack) =>
                       Top(w).kind = Top(v).kind /\ Top(w).kind # "big"
                  /\ Len(w.step_stack) <= Len(v.step_stack)
  BY <1>2, <1>4, CloseKindNeat
<1> HIDE DEF w, u
<1>5. Neat(u) /\ (Typed(t) => Typed(u))
  BY <1>1, <1>2, <1>4 DEF SameProgram
<1>6. ASSUME u.exn = "none", ScriptSteps(s, Len(s))
      PROVE  ScriptSteps(u.step_stack, Len(u.step_stack)) /\ Top(u).kind = "root"
  <2>1. v.exn = "none" /\ u = w /\ w.exn = "none"
    BY <1>1, <1>6
  <2>2. /\ Len(v.step_stack) \in Nat /\ Len(w.step_stack) \in Nat /\ Len(w.step_stack) > 0
        /\ Top(w) = w.step_stack[Len(w.step_stack)]
    BY <1>2, <1>4, <2>1, TopOfWf DEF Neat, Good, Top, Last
  <2>3. ScriptSteps(w.step_stack, Len(w.step_stack))
    <3>1. \A i \in 1..Len(w.step_stack) : i \in 1..Len(v.step_stack)
      BY <1>4, <2>1, <2>2
    <3> QED BY <1>3, <1>4, <1>6, <2>1, <3>1 DEF ScriptSteps, SameSteps, Kept
  <2>4. Top(w).kind \in {"root", "big", "small"}
    BY <2>2, <2>3 DEF ScriptSteps
  <2>5. ASSUME Len(w.step_stack) < Len(v.step_stack) PROVE Top(w).kind = "root"
    BY <1>4, <2>1, <2>4, <2>5 DEF MayContain
  <2>6. ASSUME Len(w.step_stack) = Len(v.step_stack) PROVE Top(w).kind = "root"
    BY <1>3, <1>4, <1>6, <2>1, <2>6
  <2> QED BY <1>4, <2>1, <2>2, <2>3, <2>5, <2>6
<1> QED BY <1>5, <1>6 DEF u, s

\* Without a combinator that runs, all the open steps are those of the script.
LEMMA AtTopFacts ==
  ASSUME IInv, HInv, frames = <<>>
  PROVE  /\ mode \in {"start", "run"} => ScriptSteps(the_trace.step_stack, Depth)
         /\ \A s, d : Level(frames, Len(frames), s, d) <=> ScriptSteps(s, d)
         /\ \A ast : Pinned(frames, Len(frames), ast)
         /\ \A s : FramesGood(frames, s)
<1>1. Len(frames) = 0 /\ DOMAIN frames = {} /\ 1..0 = {}
  OBVIOUS
<1>2. \A s, d : Level(frames, Len(frames), s, d) <=> ScriptSteps(s, d)
  BY <1>1 DEF Level
<1>3. (\A ast : Pinned(frames, Len(frames), ast)) /\ (\A s : FramesGood(frames, s))
  BY <1>1 DEF Pinned, FramesGood
<1> QED BY <1>2, <1>3 DEF HInv, RunInv

LEMMA OpenScriptStepGood ==
  ASSUME IInv, HInv, AtTop, NEW t, Neat(t), t.exn = "none", Typed(t),
         ScriptSteps(t.step_stack, Len(t.step_stack)),
         NEW kind \in {"small", "big"}, kind \in MayContain(Top(t).kind),
         NEW parse_again \in BOOLEAN, OpenScriptStep(t, kind, parse_again)
  PROVE  HInv'
<1> DEFINE u == IF parse_again THEN reparse(t) ELSE t
           v == open_step(u, flags, kind, FALSE, FALSE)
           n == Len(t.step_stack)
<1>1. Running /\ frames = <<>> /\ flags \in FlagValues /\ FixedFlags(flags) /\ n \in Nat /\ n > 0
  BY Handles, TopOfWf DEF AtTop, Running, Neat, Good
<1>2. Neat(u) /\ SameStack(t, u) /\ u.exn = "none" /\ Typed(u)
  <2>1. SameStack(t, t)
    BY SameStackGood DEF Neat, Good
  <2> QED BY <2>1, ReparseNeat
<1>3. UNCHANGED <<flags, frames>> /\ Continue(v)
  BY DEF OpenScriptStep
<1> HIDE DEF u, n
<1>4. Len(u.step_stack) = n /\ SameSteps(t.step_stack, u.step_stack, n)
  BY <1>2 DEF SameStack, n
<1>5. Top(u).kind = Top(t).kind
  BY <1>1, <1>4 DEF SameSteps, Kept, Top, Last, n
<1>6. /\ Good(v) /\ v.exn = "none" /\ Len(v.step_stack) = n + 1
      /\ SameSteps(u.step_stack, v.step_stack, n) /\ v.step_stack[n + 1].kind = kind
      /\ Ungranted(v.step_stack, n + 1)
      /\ v.cur_ast = u.cur_ast /\ v.cur_ast_typed = u.cur_ast_typed
  <2>1. kind \in MayContain(Top(u).kind)
    BY <1>5
  <2>2. \A d \in BOOLEAN : Opened(u, open_step(u, flags, kind, FALSE, d), kind, flags)
    BY <1>1, <1>2, <2>1, OpenNeat
  <2>3. Opened(u, v, kind, flags)
    BY <2>2
  <2> HIDE DEF v
  <2> QED BY <1>4, <2>3 DEF Opened, Neat
<1> HIDE DEF v
<1>7. ScriptSteps(v.step_stack, n + 1)
  <2> SUFFICES ASSUME NEW i \in 1..(n + 1)
               PROVE  v.step_stack[i].kind \in {"root", "big", "small"}
    BY DEF ScriptSteps
  <2>1. CASE i = n + 1
    BY <1>6, <2>1
  <2>2. CASE i # n + 1
    <3>1. i \in 1..n
      BY <1>1, <2>2
    <3>2. t.step_stack[i].kind \in {"root", "big", "small"}
      BY <3>1 DEF ScriptSteps, n
    <3> QED BY <1>4, <1>6, <3>1, <3>2 DEF SameSteps, Kept
  <2> QED BY <2>1, <2>2
<1>8. Neat(v) /\ Typed(v)
  BY <1>2, <1>6 DEF Neat, Typed
<1>9. /\ FixedFlags(flags') /\ FramesGood(frames', v.step_stack)
      /\ Level(frames', Len(frames'), v.step_stack, Len(v.step_stack))
      /\ Pinned(frames', Len(frames'), v.cur_ast)
  BY <1>1, <1>3, <1>6, <1>7, AtTopFacts
<1> QED BY <1>3, <1>6, <1>8, <1>9, GoOn

\* The diff of the last step that has been closed is shown, or there is none.
LEMMA OutputGood ==
  ASSUME IInv, HInv, AtTop, NEW t, Neat(t), t.exn = "none",
         ScriptSteps(t.step_stack, Len(t.step_stack)), Top(t).kind \in {"root", "big"},
         produce_output_and_exit(t)
  PROVE  HInv'
<1> DEFINE s == t.step_stack
           n == Len(s)
<1>1. /\ frames = <<>> /\ UNCHANGED <<flags, frames>> /\ FixedFlags(flags)
      /\ the_trace' = t /\ mode' \in {"exited", "failed"}
      /\ mode' = "exited" => OutputFound(t)
  BY Handles DEF produce_output_and_exit, AtTop, Running
<1>2. /\ s \in Seq(Steps) /\ n \in Nat /\ n > 0 /\ Top(t) = s[n] /\ StackGood(s)
  BY TopOfWf DEF Neat, Good, Top, Last
<1>3. \A i \in 1..n : s[i].kind \in {"root", "big"}
  <2> TAKE i \in 1..n
  <2>1. CASE i = n
    BY <1>2, <2>1
  <2>2. CASE i # n
    <3>1. i \in 1..(Len(s) - 1) /\ ScriptSteps(s, Len(s))
      BY <1>2, <2>2
    <3> HIDE DEF s
    <3> QED BY <1>2, <3>1, ScriptBelowTop
  <2> QED BY <2>1, <2>2
<1>4. OutputFound(t) => (flags.only_big_steps => Last(Top(t).sub).kind = "big")
  BY DEF OutputFound
<1> HIDE DEF s, n
<1>5. Depth' = n /\ Top(the_trace)' = Top(t)
  BY <1>1 DEF Depth, s, n, Top
<1>6. StepsInv'
  BY <1>1, <1>5 DEF StepsInv, Neat, Good, s, n
<1>7. CallsInv'
  BY <1>1, AtTopFacts DEF CallsInv
<1>8. RunInv'
  BY <1>1 DEF RunInv
<1>9. EndInv'
  BY <1>1, <1>3, <1>4, <1>5 DEF EndInv, ExitAtScriptLevel, s
<1> QED BY <1>6, <1>7, <1>8, <1>9 DEF HInv

\* A call of the script that raises an exception.
LEMMA ScriptRaised ==
  ASSUME IInv, HInv, AtTop, NEW t, Neat(t), Typed(t), t.exn # "none", Continue(t),
         UNCHANGED <<flags, frames>>
  PROVE  HInv'
<1>1. FixedFlags(flags') /\ frames = <<>> /\ Good(t)
  BY Handles DEF AtTop, Running, Neat
<1>2. FramesGood(frames', t.step_stack)
  BY <1>1, AtTopFacts
<1> QED BY <1>1, <1>2, GoOn

LEMMA StartGood ==
  IInv /\ HInv /\ Start => HInv'
<1> SUFFICES ASSUME IInv, HInv, Start PROVE HInv'
  OBVIOUS
<1> DEFINE t == open_step(the_trace, flags, "small", FALSE, FALSE)
           x == [kind |-> "step", depth |-> Len(t.step_stack), ast |-> the_trace.cur_ast,
                 typed |-> the_trace.cur_ast_typed, flags |-> flags, discard |-> FALSE]
           s == the_trace.step_stack
<1>1. mode = "start" /\ mode' = "run" /\ UNCHANGED flags
  BY DEF Start
<1>2. frames = <<>> /\ Depth = 1
  BY <1>1 DEF HInv, EndInv
<1>3. /\ Good(the_trace) /\ Neat(the_trace) /\ the_trace.exn = "none" /\ Typed(the_trace)
      /\ flags \in FlagValues /\ FixedFlags(flags) /\ Len(s) = 1
      /\ ScriptSteps(s, 1) /\ the_trace.cur_ast \in Asts /\ the_trace.cur_ast_typed \in BOOLEAN
  BY <1>1, <1>2, Handles, AtTopFacts, Facts DEF Depth
<1>4. CASE UNCHANGED <<the_trace, frames>>
  <2>1. Continue(the_trace)
    BY <1>1, <1>3, <1>4, Returned DEF Good
  <2>2. /\ FixedFlags(flags') /\ FramesGood(frames', the_trace.step_stack)
        /\ Level(frames', Len(frames'), the_trace.step_stack, Len(the_trace.step_stack))
        /\ Pinned(frames', Len(frames'), the_trace.cur_ast)
    BY <1>1, <1>2, <1>3, <1>4, AtTopFacts
  <2> QED BY <1>3, <2>1, <2>2, GoOn
<1>5. CASE the_trace' = t /\ frames' = Push(t, "step", FALSE)
  <2>1. Top(the_trace).kind = "root"
    <3>1. StackOK(s, the_trace.next_step_id)
      BY <1>3 DEF Good, Wf
    <3> QED BY <1>3, <3>1 DEF StackOK, Top, Last
  <2>2. "small" \in MayContain(Top(the_trace).kind)
    BY <2>1 DEF MayContain, Kinds
  <2>3. /\ Good(t) /\ t.exn = "none" /\ Len(t.step_stack) = 2
        /\ SameSteps(s, t.step_stack, 1) /\ t.step_stack[2].kind = "small"
        /\ Ungranted(t.step_stack, 2)
        /\ t.cur_ast = the_trace.cur_ast /\ t.cur_ast_typed = the_trace.cur_ast_typed
    <3>1. \A d \in BOOLEAN :
            Opened(the_trace, open_step(the_trace, flags, "small", FALSE, d), "small", flags)
      BY <1>3, <2>2, OpenNeat
    <3>a. Opened(the_trace, t, "small", flags)
      BY <3>1
    <3> HIDE DEF t
    <3>2. /\ Neat(t) /\ t.exn = "none" /\ Len(t.step_stack) = Len(s) + 1
          /\ SameSteps(s, t.step_stack, Len(s)) /\ t.step_stack[Len(s) + 1].kind = "small"
          /\ t.cur_ast = the_trace.cur_ast /\ t.cur_ast_typed = the_trace.cur_ast_typed
      BY <3>a DEF Opened
    <3> HIDE DEF s
    <3> QED BY <1>3, <3>2 DEF Neat
  <2>4. frames' = Append(frames, x)
    BY <1>5 DEF Push
  <2>5. x \in Frames /\ x.kind = "step" /\ x.depth = 2 /\ x.flags = flags
        /\ x.ast = the_trace.cur_ast /\ x.typed = the_trace.cur_ast_typed
    <3> HIDE DEF t
    <3> QED BY <1>3, <2>3 DEF Frames, FrameKinds
  <2> HIDE DEF t, x
  <2>6. Len(frames) = 0 /\ 1..0 = {}
    BY <1>2
  <2>7. FrameGood(frames, Len(frames), x, t.step_stack)
    <3>1. IsStep(x) /\ Outside(x) = 1
      BY <2>5 DEF IsStep, StepFrameKinds, Outside
    <3>2. ScriptSteps(t.step_stack, 1)
      BY <1>3, <2>3 DEF ScriptSteps, SameSteps, Kept
    <3>3. StepFrameGood(frames, 0, x, t.step_stack)
      <4>1. Level(frames, 0, t.step_stack, 1) /\ NoDeeper(frames, 0, 1)
        BY <2>6, <3>2 DEF Level, NoDeeper
      <4> QED BY <2>3, <2>5, <3>1, <4>1 DEF StepFrameGood, StepKindsOf
    <3>4. Pinned(frames, 0, x.ast) /\ AstTyped(x.typed, x.ast)
      BY <1>3, <2>5, <2>6 DEF Pinned, Typed
    <3> QED BY <1>3, <2>5, <2>6, <3>3, <3>4 DEF FrameGood
  <2>8. FramesGood(frames, t.step_stack) /\ frames \in Seq(Frames) /\ \A a : Pinned(frames, Len(frames), a)
    BY <1>2, AtTopFacts
  <2>9. /\ FramesGood(frames', t.step_stack)
        /\ \A d : Level(frames', Len(frames'), t.step_stack, d) <=>
                    IF IsStep(x) THEN d = x.depth ELSE Level(frames, Len(frames), t.step_stack, d)
        /\ \A a : Pinned(frames', Len(frames'), a) <=>
                    Pinned(frames, Len(frames), a) /\ (x.kind = "preserve" => AstTyped(x.typed, a))
    BY <2>4, <2>5, <2>7, <2>8, FramesPush
  <2>10. IsStep(x)
    BY <2>5 DEF IsStep, StepFrameKinds
  <2>11. Level(frames', Len(frames'), t.step_stack, Len(t.step_stack))
         /\ Pinned(frames', Len(frames'), t.cur_ast)
    BY <2>3, <2>5, <2>8, <2>9, <2>10
  <2>12. Neat(t) /\ Typed(t) /\ Continue(t) /\ FixedFlags(flags')
    BY <1>1, <1>3, <1>5, <2>3, Returned DEF Neat, Typed, Good
  <2> QED BY <2>3, <2>9, <2>11, <2>12, GoOn
<1> QED BY <1>4, <1>5 DEF Start

\* The script at rest: the only open steps are its own.
LEMMA AtTopStart ==
  ASSUME IInv, HInv, AtTop
  PROVE  /\ Neat(the_trace) /\ the_trace.exn = "none" /\ Typed(the_trace)
         /\ flags \in FlagValues /\ FixedFlags(flags) /\ frames = <<>>
         /\ ScriptSteps(the_trace.step_stack, Len(the_trace.step_stack))
<1>1. mode = "run" /\ frames = <<>>
  BY DEF AtTop, Running
<1> QED BY <1>1, Handles, AtTopFacts DEF Depth

LEMMA SmallStepGood ==
  ASSUME NEW hit \in BOOLEAN, NEW parse_again \in BOOLEAN
  PROVE  IInv /\ HInv /\ open_smallstep(hit, parse_again) => HInv'
<1> SUFFICES ASSUME IInv, HInv, open_smallstep(hit, parse_again) PROVE HInv'
  OBVIOUS
<1> DEFINE t == close_step_kind_if_needed(the_trace, flags, "small")
<1>1. AtTop
  BY DEF open_smallstep
<1>2. /\ Neat(t) /\ SameProgram(the_trace, t)
      /\ t.exn = "none" => /\ ScriptSteps(t.step_stack, Len(t.step_stack))
                           /\ Top(t).kind \in {"root", "big"}
  BY <1>1, AtTopStart, SmallClosed
<1>3. Typed(t)
  BY <1>1, <1>2, AtTopStart DEF SameProgram
<1>4. CASE t.exn # "none"
  <2>1. Continue(t) /\ UNCHANGED <<flags, frames>>
    BY <1>4 DEF open_smallstep, AndThen
  <2> HIDE DEF t
  <2> QED BY <1>1, <1>2, <1>3, <1>4, <2>1, ScriptRaised
<1>5. CASE t.exn = "none"
  <2>1. produce_output_and_exit(t) \/ OpenScriptStep(t, "small", parse_again)
    BY <1>5 DEF open_smallstep, AndThen
  <2> HIDE DEF t
  <2>2. "small" \in MayContain(Top(t).kind)
    BY <1>2, <1>5 DEF MayContain, Kinds
  <2> QED BY <1>1, <1>2, <1>3, <1>5, <2>1, <2>2, OutputGood, OpenScriptStepGood
<1> QED BY <1>4, <1>5

LEMMA BigStepGood ==
  ASSUME NEW hit \in BOOLEAN, NEW parse_again \in BOOLEAN
  PROVE  IInv /\ HInv /\ open_bigstep(hit, parse_again) => HInv'
<1> SUFFICES ASSUME IInv, HInv, open_bigstep(hit, parse_again) PROVE HInv'
  OBVIOUS
<1> DEFINE t == close_step_kind_if_needed(the_trace, flags, "small")
           u == close_bigstep_if_needed(t, flags)
<1>1. AtTop
  BY DEF open_bigstep
<1>2. /\ Neat(t) /\ SameProgram(the_trace, t)
      /\ t.exn = "none" => /\ ScriptSteps(t.step_stack, Len(t.step_stack))
                           /\ Top(t).kind \in {"root", "big"}
  BY <1>1, AtTopStart, SmallClosed
<1>3. Typed(t)
  BY <1>1, <1>2, AtTopStart DEF SameProgram
<1>4. CASE t.exn # "none"
  <2>1. Continue(t) /\ UNCHANGED <<flags, frames>>
    BY <1>4 DEF open_bigstep, AndThen
  <2> HIDE DEF t
  <2> QED BY <1>1, <1>2, <1>3, <1>4, <2>1, ScriptRaised
<1>5. CASE t.exn = "none"
  <2>1. /\ Neat(u) /\ Typed(u)
        /\ u.exn = "none" => ScriptSteps(u.step_stack, Len(u.step_stack)) /\ Top(u).kind = "root"
    <3> HIDE DEF t
    <3> QED BY <1>1, <1>2, <1>3, <1>5, AtTopStart, BigClosed
  <2>2. \/ produce_output_and_exit(t)
        \/ u.exn = "none" /\ produce_output_and_exit(u)
        \/ u.exn = "none" /\ OpenScriptStep(u, "big", parse_again)
        \/ u.exn # "none" /\ Continue(u) /\ UNCHANGED <<flags, frames>>
    BY <1>5 DEF open_bigstep, AndThen
  <2> HIDE DEF t, u
  <2>3. CASE produce_output_and_exit(t)
    BY <1>1, <1>2, <1>5, <2>3, OutputGood
  <2>4. CASE u.exn = "none" /\ produce_output_and_exit(u)
    BY <1>1, <2>1, <2>4, OutputGood
  <2>5. CASE u.exn = "none" /\ OpenScriptStep(u, "big", parse_again)
    <3>1. "big" \in MayContain(Top(u).kind)
      BY <2>1, <2>5 DEF MayContain, Kinds
    <3> QED BY <1>1, <2>1, <2>5, <3>1, OpenScriptStepGood
  <2>6. CASE u.exn # "none" /\ Continue(u) /\ UNCHANGED <<flags, frames>>
    BY <1>1, <2>1, <2>6, ScriptRaised
  <2> QED BY <2>2, <2>3, <2>4, <2>5, <2>6
<1> QED BY <1>4, <1>5

\* The program is over: no step is closed any more.
LEMMA EndedGood ==
  ASSUME IInv, HInv, mode # "done", frames = <<>>, UNCHANGED <<flags, frames>>,
         NEW t, Neat(t), the_trace'.step_stack = t.step_stack,
         mode' \in {"done", "failed", "crashed"}
  PROVE  HInv'
<1>1. Depth' = Len(t.step_stack)
  BY DEF Depth
<1>2. StepsInv'
  BY <1>1 DEF StepsInv, Neat, Good
<1>3. FixedFlags(flags') /\ FramesGood(frames', the_trace'.step_stack)
  BY Handles, AtTopFacts
<1>4. CallsInv'
  BY <1>3 DEF CallsInv
<1>5. RunInv'
  BY DEF RunInv
<1>6. EndInv'
  BY DEF EndInv, ExitAtScriptLevel
<1> QED BY <1>2, <1>4, <1>5, <1>6 DEF HInv

\* An exception that stays where it is raised does not change the open steps.
LEMMA TraceFailureNeat ==
  ASSUME NEW t, Neat(t), NEW exn \in {"none", "error", "resource", "trace"}
  PROVE  Neat([t EXCEPT !.exn = exn]) /\ [t EXCEPT !.exn = exn].step_stack = t.step_stack
<1> DEFINE u == [t EXCEPT !.exn = exn]
<1>1. u \in Traces /\ u.step_stack = t.step_stack /\ u.next_step_id = t.next_step_id
  BY DEF Neat, Good, Wf, Traces
<1> HIDE DEF u
<1>2. Wf(u)
  BY <1>1, WfSameStack DEF Neat, Good
<1>3. Neat(u)
  BY <1>1, <1>2 DEF Neat, Good
<1> QED BY <1>1, <1>3 DEF u

LEMMA FinalizeGood ==
  ASSUME IInv, HInv, mode # "done", frames = <<>>, NEW t, Neat(t), NEW on_error \in BOOLEAN,
         finalize(t, on_error), UNCHANGED <<flags, frames>>
  PROVE  HInv'
<1> DEFINE p == PutBackSaved(t)
           u == Then(t, PutBackSaved)
           b == close_bigstep_if_needed(u, flags)
           r == finalize_step(b, flags, on_error)
           e == [b EXCEPT !.exn = "trace"]
           v == close_root_step(u, on_error)
           w == IF u.exn = "none" THEN v ELSE u
           root == ClosedStep(w, flags)
<1>0. flags \in FlagValues /\ FixedFlags(flags)
  BY Handles
<1>1. Neat(u)
  <2>1. ASSUME t.exn = "none" PROVE Neat(p)
    <3>1. CASE saved = <<>>
      BY <3>1 DEF PutBackSaved
    <3>2. CASE saved # <<>>
      <4>1. saved[1] \in Asts /\ t.cur_ast_typed \in BOOLEAN
        BY <3>2, Facts DEF Neat, Good, Wf, Traces
      <4>2. p = close_step(PutBack(open_step(t, flags, "transfo", FALSE, FALSE),
                                   saved[1], t.cur_ast_typed), flags, FALSE, FALSE)
        BY <3>2 DEF PutBackSaved, DirectStep, open_step
      <4> HIDE DEF p
      <4>3. \A ast \in Asts, typed \in BOOLEAN :
              Neat(close_step(PutBack(open_step(t, flags, "transfo", FALSE, FALSE),
                                      ast, typed), flags, FALSE, FALSE))
        BY <1>0, <2>1, RestoreStepNeat
      <4> QED BY <4>1, <4>2, <4>3
    <3> QED BY <3>1, <3>2
  <2> QED BY <2>1 DEF Then
<1>2. Neat(w)
  <2>1. CASE u.exn # "none"
    BY <1>1, <2>1
  <2>2. CASE u.exn = "none"
    <3>1. Neat(b)
      BY <1>0, <1>1, <2>2, BigClosed
    <3>2. v = IF b.exn # "none" THEN b ELSE IF Len(b.step_stack) # 1 THEN e ELSE r
      BY DEF close_root_step, Then
    <3>3. b.exn = "none" => Neat(r)
      <4> HIDE DEF b
      <4>1. b.exn = "none" => Good(r) /\ MoreSteps(b, r)
        BY <1>0, <3>1, FinalizeStepGood DEF Neat
      <4> HIDE DEF r
      <4> QED BY <3>1, <4>1 DEF Neat, MoreSteps
    <3>4. Neat(e)
      <4> HIDE DEF b
      <4> QED BY <3>1, TraceFailureNeat
    <3> HIDE DEF b, r, v, e
    <3> QED BY <2>2, <3>1, <3>2, <3>3, <3>4
  <2> QED BY <2>1, <2>2
<1>3. /\ \/ the_trace' = [w EXCEPT !.next_step_id = root.last + 1]
         \/ the_trace' = [w EXCEPT !.exn = "none"]
      /\ mode' \in {"done", "failed", "crashed"}
  BY DEF finalize, Then
<1> HIDE DEF w
<1>4. the_trace'.step_stack = w.step_stack
  BY <1>2, <1>3 DEF Neat, Good, Wf, Traces
<1> QED BY <1>2, <1>3, <1>4, EndedGood

LEMMA EndScriptGood ==
  IInv /\ HInv /\ EndScript => HInv'
<1> SUFFICES ASSUME IInv, HInv, EndScript PROVE HInv'
  OBVIOUS
<1> DEFINE b == close_bigstep_if_needed(the_trace, flags)
           c == close_step_kind_if_needed(the_trace, flags, "small")
           t == IF flags.only_big_steps THEN b ELSE c
<1>1. AtTop /\ mode # "done" /\ frames = <<>> /\ UNCHANGED <<flags, frames>>
  BY DEF EndScript, AtTop, Running
<1>2. /\ Neat(b)
      /\ b.exn = "none" => ScriptSteps(b.step_stack, Len(b.step_stack)) /\ Top(b).kind = "root"
  BY <1>1, AtTopStart, BigClosed
<1>3. /\ Neat(c)
      /\ c.exn = "none" =>
           ScriptSteps(c.step_stack, Len(c.step_stack)) /\ Top(c).kind \in {"root", "big"}
  BY <1>1, AtTopStart, SmallClosed
<1> HIDE DEF b, c
<1>4. /\ Neat(t)
      /\ t.exn = "none" =>
           ScriptSteps(t.step_stack, Len(t.step_stack)) /\ Top(t).kind \in {"root", "big"}
  BY <1>2, <1>3
<1>5. CASE ~Targetting
  <2>1. finalize(b, FALSE)
    BY <1>5 DEF EndScript, b
  <2>2. \A e \in BOOLEAN : finalize(b, e) => HInv'
    BY <1>1, <1>2, FinalizeGood
  <2> QED BY <2>1, <2>2
<1>6. CASE Targetting /\ t.exn = "none"
  <2>1. produce_output_and_exit(t)
    BY <1>6 DEF EndScript, b, c
  <2> HIDE DEF t
  <2> QED BY <1>1, <1>4, <1>6, <2>1, OutputGood
<1>7. CASE Targetting /\ t.exn # "none"
  <2>1. the_trace' = [t EXCEPT !.exn = "none"] /\ mode' = "crashed"
    BY <1>7 DEF EndScript, b, c
  <2> HIDE DEF t
  <2>2. the_trace'.step_stack = t.step_stack
    BY <1>4, <2>1, ClearExnGood DEF Neat
  <2> QED BY <1>1, <1>4, <2>1, <2>2, EndedGood
<1> QED BY <1>5, <1>6, <1>7

-----------------------------------------------------------------------------
(* Entering the combinators.                                                *)

\* A combinator of this kind has been called: the body starts from t.
Called(t, fs, kind) ==
  /\ Neat(t) /\ t.exn = "none" /\ Typed(t)
  /\ fs \in Seq(Frames) /\ fs # <<>> /\ Last(fs).kind = kind
  /\ FramesGood(fs, t.step_stack)
  /\ Level(fs, Len(fs), t.step_stack, Len(t.step_stack))
  /\ Pinned(fs, Len(fs), t.cur_ast)

\* Every body starts in the same way.
LEMMA CalledGood ==
  ASSUME IInv, HInv, Running, mode' = mode, FixedFlags(flags'),
         NEW kind, Called(the_trace', frames', kind)
  PROVE  HInv'
<1> DEFINE t == the_trace'
<1>1. /\ Neat(t) /\ t.exn = "none" /\ Typed(t) /\ Good(t) /\ FramesGood(frames', t.step_stack)
      /\ Level(frames', Len(frames'), t.step_stack, Len(t.step_stack))
      /\ Pinned(frames', Len(frames'), t.cur_ast)
  BY DEF Called, Neat
<1>2. Continue(t)
  BY <1>1, Returned DEF Good, Running
<1> HIDE DEF t
<1> QED BY <1>1, <1>2, GoOn

\* The combinators that open a step around their body.
LEMMA StepCalled ==
  ASSUME IInv, HInv, Running, NEW frame \in {"step", "trustme", "backtrack", "onfailure"},
         NEW kind \in {"transfo", "group", "trustme", "backtrack"}, kind \in StepKindsOf(frame),
         NEW discard \in BOOLEAN
  PROVE  LET t == open_step(the_trace, flags, kind, FALSE, FALSE)
         IN Called(t, Push(t, frame, discard), frame)
<1> DEFINE t == open_step(the_trace, flags, kind, FALSE, FALSE)
           x == [kind |-> frame, depth |-> Len(t.step_stack), ast |-> the_trace.cur_ast,
                 typed |-> the_trace.cur_ast_typed, flags |-> flags, discard |-> discard]
           fs == Push(t, frame, discard)
           s == the_trace.step_stack
           r == t.step_stack
           n == Len(s)
<1>1. /\ Neat(the_trace) /\ the_trace.exn = "none" /\ Typed(the_trace)
      /\ flags \in FlagValues /\ FixedFlags(flags) /\ n \in Nat /\ n > 0 /\ n = Len(s)
      /\ frames \in Seq(Frames) /\ FramesGood(frames, s)
      /\ Level(frames, Len(frames), s, n) /\ NoDeeper(frames, Len(frames), n)
      /\ Pinned(frames, Len(frames), the_trace.cur_ast)
      /\ the_trace.cur_ast \in Asts /\ the_trace.cur_ast_typed \in BOOLEAN
  BY Handles, Facts DEF Running, Depth
<1>2. Opened(the_trace, t, kind, flags)
  <2>1. kind \in MayContain(Top(the_trace).kind)
    BY AnywhereKinds DEF Kinds
  <2>2. \A d \in BOOLEAN :
          Opened(the_trace, open_step(the_trace, flags, kind, FALSE, d), kind, flags)
    BY <1>1, <2>1, OpenNeat
  <2> QED BY <2>2
<1>3. fs = Append(frames, x)
  BY DEF Push
<1> HIDE DEF t, fs
<1>4. /\ Neat(t) /\ t.exn = "none" /\ Len(r) = n + 1 /\ SameSteps(s, r, n)
      /\ r[n + 1].kind = kind /\ r[n + 1].before = the_trace.cur_ast
      /\ t.cur_ast = the_trace.cur_ast /\ t.cur_ast_typed = the_trace.cur_ast_typed
      /\ r \in Seq(Steps)
  <2>1. Neat(t)
    BY <1>2 DEF Opened
  <2>2. r \in Seq(Steps)
    BY <2>1, TopOfWf DEF Neat, Good
  <2> QED BY <1>2, <2>2 DEF Opened
<1>5. /\ x \in Frames /\ x.kind = frame /\ x.depth = n + 1 /\ x.flags = flags
      /\ x.ast = the_trace.cur_ast /\ x.typed = the_trace.cur_ast_typed
  BY <1>1, <1>4 DEF Frames, FrameKinds
<1> HIDE DEF x, s, r, n
<1>6. IsStep(x) /\ Outside(x) = n
  BY <1>1, <1>5 DEF IsStep, StepFrameKinds, Outside
<1>7. FramesGood(frames, r) /\ Level(frames, Len(frames), r, n)
  <2>1. Len(frames) \in Nat
    BY <1>1
  <2> QED BY <1>1, <1>4, <2>1, FramesKept, LevelKept
<1>8. FrameGood(frames, Len(frames), x, r)
  <2>1. StepFrameGood(frames, Len(frames), x, r)
    BY <1>1, <1>4, <1>5, <1>6, <1>7 DEF StepFrameGood
  <2> QED BY <1>1, <1>5, <2>1 DEF FrameGood, Typed
<1>9. /\ FramesGood(fs, r)
      /\ \A d : Level(fs, Len(fs), r, d) <=>
                  IF IsStep(x) THEN d = x.depth ELSE Level(frames, Len(frames), r, d)
      /\ \A a : Pinned(fs, Len(fs), a) <=>
                  Pinned(frames, Len(frames), a) /\ (x.kind = "preserve" => AstTyped(x.typed, a))
  BY <1>1, <1>3, <1>5, <1>7, <1>8, FramesPush
<1>10. fs \in Seq(Frames) /\ fs # <<>> /\ Last(fs) = x
  BY <1>1, <1>3, <1>5 DEF Last
<1>11. Called(t, fs, frame)
  BY <1>1, <1>4, <1>5, <1>6, <1>9, <1>10 DEF Called, Typed, r
<1> QED BY <1>11 DEF t, fs

\* The combinators that only change a flag around their body.
LEMMA FlagCalled ==
  ASSUME IInv, HInv, Running, NEW frame \in {"unchecked", "notyping", "preserve"}
  PROVE  Called(the_trace, Push(the_trace, frame, FALSE), frame)
<1> DEFINE x == [kind |-> frame, depth |-> Len(the_trace.step_stack), ast |-> the_trace.cur_ast,
                 typed |-> the_trace.cur_ast_typed, flags |-> flags, discard |-> FALSE]
           fs == Push(the_trace, frame, FALSE)
           s == the_trace.step_stack
           n == Len(s)
<1>1. /\ Neat(the_trace) /\ the_trace.exn = "none" /\ Typed(the_trace)
      /\ flags \in FlagValues /\ FixedFlags(flags) /\ n \in Nat /\ n > 0 /\ n = Len(s)
      /\ frames \in Seq(Frames) /\ FramesGood(frames, s)
      /\ Level(frames, Len(frames), s, n)
      /\ Pinned(frames, Len(frames), the_trace.cur_ast)
      /\ the_trace.cur_ast \in Asts /\ the_trace.cur_ast_typed \in BOOLEAN
  BY Handles, Facts DEF Running, Depth
<1>2. fs = Append(frames, x)
  BY DEF Push
<1>3. /\ x \in Frames /\ x.kind = frame /\ x.flags = flags
      /\ x.ast = the_trace.cur_ast /\ x.typed = the_trace.cur_ast_typed
  BY <1>1 DEF Frames, FrameKinds
<1> HIDE DEF x, fs
<1>4. ~IsStep(x)
  BY <1>3 DEF IsStep, StepFrameKinds
<1>5. FrameGood(frames, Len(frames), x, s)
  BY <1>1, <1>3, <1>4 DEF FrameGood, Typed
<1> HIDE DEF s
<1>6. /\ FramesGood(fs, s)
      /\ \A d : Level(fs, Len(fs), s, d) <=>
                  IF IsStep(x) THEN d = x.depth ELSE Level(frames, Len(frames), s, d)
      /\ \A a : Pinned(fs, Len(fs), a) <=>
                  Pinned(frames, Len(frames), a) /\ (x.kind = "preserve" => AstTyped(x.typed, a))
  BY <1>1, <1>2, <1>3, <1>5, FramesPush
<1>7. fs \in Seq(Frames) /\ fs # <<>> /\ Last(fs) = x
  BY <1>1, <1>2, <1>3 DEF Last
<1>8. Called(the_trace, fs, frame)
  BY <1>1, <1>3, <1>4, <1>6, <1>7 DEF Called, Typed, s
<1> QED BY <1>8 DEF fs

\* The try of failure_expected, inside the step_backtrack around it.
LEMMA TryCalled ==
  ASSUME NEW t, NEW fs, Called(t, fs, "backtrack")
  PROVE  Called(t, Append(fs, [Last(fs) EXCEPT !.kind = "expected"]), "expected")
<1> DEFINE y == Last(fs)
           x == [y EXCEPT !.kind = "expected"]
           gs == Append(fs, x)
           s == t.step_stack
           n == Len(fs)
<1>1. /\ fs \in Seq(Frames) /\ fs # <<>> /\ FramesGood(fs, s) /\ y.kind = "backtrack"
      /\ Level(fs, n, s, Len(s)) /\ Pinned(fs, n, t.cur_ast) /\ n \in Nat /\ n > 0
      /\ n \in DOMAIN fs /\ y = fs[n] /\ y \in Frames
  BY DEF Called, Last
<1>2. IsStep(y)
  BY <1>1 DEF IsStep, StepFrameKinds
<1>3. FrameGood(fs, n - 1, y, s)
  BY <1>1 DEF FramesGood
<1>4. NoDeeper(fs, n, y.depth) /\ \A d : Level(fs, n, s, d) <=> d = y.depth
  <2> HIDE DEF s
  <2> QED BY <1>1, <1>2, InnermostStep
<1>5. y.depth = Len(s) /\ Pinned(fs, n, y.ast)
  <2>1. y.depth = Len(s)
    BY <1>1, <1>4
  <2>2. s[y.depth].before = y.ast /\ Pinned(fs, n - 1, y.ast)
    BY <1>1, <1>2, <1>3 DEF FrameGood, StepFrameGood
  <2>3. Pinned(fs, n, y.ast)
    <3>1. \A k \in 1..n : k # n => k \in 1..(n - 1)
      BY <1>1
    <3> QED BY <1>1, <2>2, <3>1 DEF Pinned
  <2> QED BY <2>1, <2>3
<1>6. /\ x \in Frames /\ x.kind = "expected" /\ x.depth = y.depth /\ x.flags = y.flags
      /\ x.ast = y.ast /\ x.typed = y.typed
  BY <1>1 DEF Frames, FrameKinds
<1>7. gs \in Seq(Frames) /\ gs # <<>> /\ Last(gs) = x
  BY <1>1, <1>6 DEF Last
<1> HIDE DEF x, y, s, n
<1>8. IsStep(x) /\ Outside(x) = y.depth
  BY <1>6 DEF IsStep, StepFrameKinds, Outside
<1>9. StepFrameGood(fs, n, x, s)
  <2>1. StepFrameGood(fs, n - 1, y, s)
    BY <1>2, <1>3 DEF FrameGood
  <2> QED BY <1>1, <1>4, <1>6, <1>8, <2>1 DEF StepFrameGood, StepKindsOf
<1>10. FrameGood(fs, n, x, s)
  BY <1>3, <1>5, <1>6, <1>9 DEF FrameGood
<1>11. /\ FramesGood(gs, s)
       /\ \A d : Level(gs, Len(gs), s, d) <=>
                   IF IsStep(x) THEN d = x.depth ELSE Level(fs, Len(fs), s, d)
       /\ \A a : Pinned(gs, Len(gs), a) <=>
                   Pinned(fs, Len(fs), a) /\ (x.kind = "preserve" => AstTyped(x.typed, a))
  BY <1>1, <1>6, <1>10, FramesPush DEF n
<1> HIDE DEF gs
<1>12. Called(t, gs, "expected")
  BY <1>1, <1>5, <1>6, <1>7, <1>8, <1>11 DEF Called, s, n
<1> QED BY <1>12 DEF gs, x, y

\* A combinator that clears check_validity is one of those that ValidityFixed excludes.
LEMMA ClearedFixed ==
  ASSUME NEW f \in FlagValues, FixedFlags(f), NEW feature \in Features
  PROVE  /\ feature \in {"trustme", "unchecked"} => FixedFlags([f EXCEPT !.check_validity = FALSE])
         /\ FixedFlags([f EXCEPT !.recompute = FALSE])
<1>1. CheckValidity \in BOOLEAN
  BY FlagsAssumption
<1>2. /\ ~[f EXCEPT !.check_validity = FALSE].check_validity
      /\ [f EXCEPT !.check_validity = FALSE].check_validity \in BOOLEAN
      /\ [f EXCEPT !.recompute = FALSE].check_validity = f.check_validity
  BY FlagsOK, ClearFlag
<1> QED BY <1>1, <1>2 DEF FixedFlags, ValidityFixed

LEMMA EnterGood ==
  IInv /\ HInv /\ Enter => HInv'
<1> SUFFICES ASSUME IInv, HInv, Enter PROVE HInv'
  OBVIOUS
<1>1. Running /\ mode # "done" /\ mode' = mode
  BY DEF Enter, Transfo, step_group, trustme, without_substep_validity_checks,
     without_resource_computation_between_steps, preserves_resource_typing, failure_expected,
     step_backtrack, step_backtrack_on_failure, CanOpen, Running, EnterStep, EnterFlag
<1>2. flags \in FlagValues /\ FixedFlags(flags)
  BY <1>1, Handles
<1>3. ASSUME NEW frame \in {"step", "backtrack", "onfailure"},
             NEW kind \in {"transfo", "group", "backtrack"}, kind \in StepKindsOf(frame),
             NEW discard \in BOOLEAN, EnterStep(frame, kind, FALSE, discard)
      PROVE  HInv'
  <2> DEFINE t == open_step(the_trace, flags, kind, FALSE, FALSE)
  <2>1. the_trace' = t /\ frames' = Push(t, frame, discard) /\ flags' = flags
    BY <1>3 DEF EnterStep
  <2>2. Called(t, Push(t, frame, discard), frame)
    BY <1>1, <1>3, StepCalled
  <2> QED BY <1>1, <1>2, <2>1, <2>2, CalledGood
<1>4. ASSUME NEW frame \in {"unchecked", "notyping", "preserve"}, NEW f, FixedFlags(f),
             EnterFlag(frame, f)
      PROVE  HInv'
  <2>1. the_trace' = the_trace /\ frames' = Push(the_trace, frame, FALSE) /\ flags' = f
    BY <1>4 DEF EnterFlag
  <2>2. Called(the_trace, Push(the_trace, frame, FALSE), frame)
    BY <1>1, FlagCalled
  <2> QED BY <1>1, <1>4, <2>1, <2>2, CalledGood
<1>5. CASE Transfo \/ step_group
  <2>1. EnterStep("step", "transfo", FALSE, FALSE) \/ EnterStep("step", "group", FALSE, FALSE)
    BY <1>5 DEF Transfo, step_group
  <2>2. \A b \in BOOLEAN, kind \in {"transfo", "group"} :
          EnterStep("step", kind, FALSE, b) => HInv'
    BY <1>3 DEF StepKindsOf
  <2> QED BY <2>1, <2>2
<1>6. CASE trustme
  <2> DEFINE t == open_step(the_trace, flags, "trustme", FALSE, FALSE)
  <2>1. /\ the_trace' = t /\ frames' = Push(t, "trustme", FALSE) /\ "trustme" \in Features
        /\ flags' = [flags EXCEPT !.check_validity = FALSE]
    BY <1>6 DEF trustme, CanOpen
  <2>2. \A b \in BOOLEAN : Called(t, Push(t, "trustme", b), "trustme")
    BY <1>1, StepCalled DEF StepKindsOf
  <2>3. Called(t, Push(t, "trustme", FALSE), "trustme")
    BY <2>2
  <2>4. FixedFlags(flags')
    BY <1>2, <2>1, ClearedFixed
  <2> HIDE DEF t
  <2> QED BY <1>1, <2>1, <2>3, <2>4, CalledGood
<1>7. CASE \/ without_substep_validity_checks \/ without_resource_computation_between_steps
           \/ preserves_resource_typing
  <2> DEFINE v == [flags EXCEPT !.check_validity = FALSE]
             r == [flags EXCEPT !.recompute = FALSE]
  <2>1. \/ EnterFlag("unchecked", v) /\ "unchecked" \in Features
        \/ EnterFlag("notyping", r) /\ "notyping" \in Features
        \/ EnterFlag("preserve", r) /\ "preserve" \in Features
    BY <1>7 DEF without_substep_validity_checks, without_resource_computation_between_steps,
       preserves_resource_typing, CanOpen
  <2>2. "unchecked" \in Features => FixedFlags(v)
    BY <1>2, ClearedFixed
  <2>3. \A feature \in Features : FixedFlags(r)
    BY <1>2, ClearedFixed
  <2> HIDE DEF v, r
  <2> QED BY <1>4, <2>1, <2>2, <2>3
<1>8. CASE \E discard \in BOOLEAN : step_backtrack(discard) \/ step_backtrack_on_failure(discard)
  <2>1. PICK discard \in BOOLEAN : \/ EnterStep("backtrack", "backtrack", FALSE, discard)
                                   \/ EnterStep("onfailure", "backtrack", FALSE, discard)
    BY <1>8 DEF step_backtrack, step_backtrack_on_failure
  <2>2. "backtrack" \in StepKindsOf("backtrack") /\ "backtrack" \in StepKindsOf("onfailure")
    BY DEF StepKindsOf
  <2> QED BY <1>3, <2>1, <2>2
<1>9. CASE failure_expected
  <2> DEFINE t == open_step(the_trace, flags, "backtrack", FALSE, FALSE)
             outer == Push(t, "backtrack", FALSE)
             x == [Last(outer) EXCEPT !.kind = "expected"]
  <2>1. the_trace' = t /\ frames' = Append(outer, x) /\ flags' = flags
    BY <1>9 DEF failure_expected
  <2>2. \A b \in BOOLEAN : Called(t, Push(t, "backtrack", b), "backtrack")
    BY <1>1, StepCalled DEF StepKindsOf
  <2>3. Called(t, outer, "backtrack")
    BY <2>2
  <2> HIDE DEF t, outer
  <2>4. Called(t, Append(outer, x), "expected")
    BY <2>3, TryCalled
  <2> QED BY <1>1, <1>2, <2>1, <2>4, CalledGood
<1> QED BY <1>5, <1>6, <1>7, <1>8, <1>9 DEF Enter

-----------------------------------------------------------------------------
(* Leaving them.                                                            *)

\* The innermost combinator, and those around it.
LEMMA FrameHandles ==
  ASSUME IInv, HInv, mode # "done", frames # <<>>
  PROVE  LET outer == Front(frames)
             s == the_trace.step_stack
         IN /\ Frame \in Frames /\ outer \in Seq(Frames) /\ Len(outer) \in Nat
            /\ FramesGood(outer, s) /\ FrameGood(outer, Len(outer), Frame, s)
            /\ FixedFlags(Frame.flags)
            /\ \A d : ~IsStep(Frame) => (Level(outer, Len(outer), s, d) <=>
                                         Level(frames, Len(frames), s, d))
            /\ \A ast : Pinned(frames, Len(frames), ast) <=>
                 /\ Pinned(outer, Len(outer), ast)
                 /\ Frame.kind = "preserve" => AstTyped(Frame.typed, ast)
            /\ IsStep(Frame) =>
                 /\ StepFrameGood(outer, Len(outer), Frame, s)
                 /\ \A d : Level(frames, Len(frames), s, d) <=> d = Frame.depth
<1> DEFINE outer == Front(frames)
           s == the_trace.step_stack
<1>1. frames \in Seq(Frames) /\ FramesGood(frames, s)
  BY Handles
<1>2. Frame \in Frames /\ Frame = Last(frames)
  BY FrameFacts DEF Frame
<1>3. /\ outer \in Seq(Frames) /\ FramesGood(outer, s)
      /\ FrameGood(outer, Len(outer), Frame, s)
      /\ \A d : ~IsStep(Frame) =>
           (Level(outer, Len(outer), s, d) <=> Level(frames, Len(frames), s, d))
      /\ \A ast : Pinned(frames, Len(frames), ast) <=>
           /\ Pinned(outer, Len(outer), ast)
           /\ Frame.kind = "preserve" => AstTyped(Frame.typed, ast)
  <2> HIDE DEF s
  <2> QED BY <1>1, <1>2, FramesPop
<1>4. ASSUME IsStep(Frame), NEW d
      PROVE  Level(frames, Len(frames), s, d) <=> d = Frame.depth
  <2> HIDE DEF s
  <2> QED BY <1>1, <1>2, <1>4, InnermostStep
<1>5. Len(outer) \in Nat
  BY <1>3
<1> HIDE DEF outer, s
<1>6. /\ FixedFlags(Frame.flags)
      /\ IsStep(Frame) => StepFrameGood(outer, Len(outer), Frame, s)
  BY <1>3 DEF FrameGood
<1> QED BY <1>2, <1>3, <1>4, <1>5, <1>6 DEF outer, s

\* Steps that stay open through a call, some of them forgotten.
LEMMA SameStepsLess ==
  ASSUME NEW s \in Seq(Steps), NEW r \in Seq(Steps), NEW n \in Nat, NEW m \in Nat, m <= n,
         SameSteps(s, r, n)
  PROVE  SameSteps(s, r, m)
<1>1. \A i \in 1..m : i \in 1..n
  OBVIOUS
<1> QED BY <1>1 DEF SameSteps

\* The step of the innermost combinator is not open any more, those below it are.
LEMMA FrameOut ==
  ASSUME IInv, HInv, mode # "done", frames # <<>>, IsStep(Frame),
         NEW r \in Seq(Steps), SameSteps(the_trace.step_stack, r, Outside(Frame))
  PROVE  /\ FramesGood(Front(frames), r)
         /\ Level(Front(frames), Len(Front(frames)), r, Outside(Frame))
<1> DEFINE outer == Front(frames)
           s == the_trace.step_stack
           m == Outside(Frame)
<1>1. /\ outer \in Seq(Frames) /\ Len(outer) \in Nat /\ FramesGood(outer, s) /\ Frame \in Frames
      /\ Level(outer, Len(outer), s, m) /\ NoDeeper(outer, Len(outer), m)
  BY FrameHandles DEF StepFrameGood
<1>2. m \in Nat
  BY <1>1 DEF Outside, Frames
<1> HIDE DEF outer, s, m
<1>3. SameSteps(s, r, m)
  BY DEF s, m
<1>4. FramesGood(outer, r) /\ Level(outer, Len(outer), r, m)
  BY <1>1, <1>2, <1>3, FramesKept, LevelKept
<1> QED BY <1>4 DEF outer, m

\* A body that has returned, and whose step is closed.
LEMMA ClosedBody ==
  ASSUME IInv, HInv, Running, frames # <<>>, Frame.kind \in {"step", "trustme", "onfailure"},
         NEW f \in FlagValues, FixedFlags(f)
  PROVE  LET t == CloseChecked(the_trace, f, Frame.depth, FALSE)
         IN /\ Depth = Frame.depth /\ Depth > 1
            /\ Neat(t) /\ SameProgram(the_trace, t)
            /\ IF t.exn = "none" THEN StepClosed(the_trace, t) ELSE MoreSteps(the_trace, t)
<1> DEFINE t == CloseChecked(the_trace, f, Frame.depth, FALSE)
           s == the_trace.step_stack
           n == Len(s)
<1>0. mode # "done" /\ mode \in {"start", "run"}
  BY DEF Running
<1>1. /\ Neat(the_trace) /\ the_trace.exn = "none" /\ n \in Nat /\ n = Len(s) /\ n = Depth
      /\ Level(frames, Len(frames), s, n)
  BY <1>0, Handles
<1>2. IsStep(Frame)
  BY DEF IsStep, StepFrameKinds
<1>3. n = Frame.depth /\ n > 1
  <2>1. n = Frame.depth /\ StepFrameGood(Front(frames), Len(Front(frames)), Frame, s)
    BY <1>0, <1>1, <1>2, FrameHandles
  <2> HIDE DEF s, n
  <2> QED BY <1>1, <2>1 DEF StepFrameGood
<1>4. /\ Neat(t) /\ SameProgram(the_trace, t)
      /\ IF t.exn = "none" THEN StepClosed(the_trace, t) ELSE MoreSteps(the_trace, t)
  <2>1. t = close_step(the_trace, f, FALSE, FALSE)
    BY <1>3 DEF CloseChecked
  <2>2. \A d, e \in BOOLEAN :
          LET u == close_step(the_trace, f, d, e)
          IN /\ Neat(u) /\ SameProgram(the_trace, u)
             /\ IF u.exn = "none" THEN StepClosed(the_trace, u) ELSE MoreSteps(the_trace, u)
    BY <1>1, <1>3, CloseStepNeat
  <2> HIDE DEF t
  <2> QED BY <2>1, <2>2
<1> HIDE DEF t
<1> QED BY <1>1, <1>3, <1>4 DEF t

\* A body that has returned from a combinator that closes its step.
LEMMA LeaveStep ==
  ASSUME IInv, HInv, Running, frames # <<>>, Frame.kind \in {"step", "trustme", "onfailure"},
         frames' = Front(frames), flags' \in FlagValues, FixedFlags(flags'),
         Continue(CloseChecked(the_trace, flags', Frame.depth, FALSE))
  PROVE  HInv'
<1> DEFINE t == CloseChecked(the_trace, flags', Frame.depth, FALSE)
           s == the_trace.step_stack
           n == Len(s)
<1>0. mode # "done" /\ mode \in {"start", "run"}
  BY DEF Running
<1>1. /\ Neat(the_trace) /\ the_trace.exn = "none" /\ Typed(the_trace) /\ s \in Seq(Steps)
      /\ n \in Nat /\ n = Len(s) /\ n = Depth /\ Level(frames, Len(frames), s, n)
      /\ Pinned(frames, Len(frames), the_trace.cur_ast)
  BY <1>0, Handles
<1>2. IsStep(Frame) /\ Outside(Frame) = Frame.depth - 1
  BY DEF IsStep, StepFrameKinds, Outside
<1>b. /\ Depth = Frame.depth /\ Depth > 1 /\ Neat(t) /\ SameProgram(the_trace, t)
      /\ IF t.exn = "none" THEN StepClosed(the_trace, t) ELSE MoreSteps(the_trace, t)
  BY ClosedBody
<1>a. Continue(t)
  OBVIOUS
<1> HIDE DEF t, s, n
<1>3. n = Frame.depth /\ n > 1
  BY <1>1, <1>b
<1>4. /\ Neat(t) /\ SameProgram(the_trace, t)
      /\ IF t.exn = "none" THEN StepClosed(the_trace, t) ELSE MoreSteps(the_trace, t)
  BY <1>b
<1>5. /\ t.step_stack \in Seq(Steps) /\ SameSteps(s, t.step_stack, n - 1)
      /\ t.exn = "none" => Len(t.step_stack) = n - 1
  <2>1. t.step_stack \in Seq(Steps)
    BY <1>4, TopOfWf DEF Neat, Good
  <2>2. CASE t.exn = "none"
    BY <1>4, <2>1, <2>2 DEF StepClosed, s, n
  <2>3. CASE t.exn # "none"
    <3>1. SameSteps(s, t.step_stack, n)
      BY <1>4, <2>3 DEF MoreSteps, s, n
    <3>2. n - 1 \in Nat /\ n - 1 <= n
      BY <1>1, <1>3
    <3> QED BY <1>1, <2>1, <2>3, <3>1, <3>2, SameStepsLess
  <2> QED BY <2>2, <2>3
<1>6. /\ FramesGood(frames', t.step_stack)
      /\ Level(frames', Len(frames'), t.step_stack, n - 1)
  BY <1>0, <1>2, <1>3, <1>5, FrameOut DEF s
<1>7. t.exn = "none" => Pinned(frames', Len(frames'), t.cur_ast)
  <2>1. Pinned(frames', Len(frames'), the_trace.cur_ast)
    BY <1>0, <1>1, FrameHandles
  <2> QED BY <1>4, <2>1 DEF SameProgram, Pinned, AstTyped
<1>8. Good(t) /\ Typed(t)
  BY <1>1, <1>4 DEF Neat, SameProgram
<1> QED BY <1>4, <1>5, <1>6, <1>7, <1>8, <1>a, GoOn

\* A body that has returned from a combinator that opened no step.
LEMMA LeaveFlag ==
  ASSUME IInv, HInv, Running, frames # <<>>, ~IsStep(Frame),
         frames' = Front(frames), FixedFlags(flags'),
         NEW t, Neat(t), MoreSteps(the_trace, t), Typed(t), Continue(t),
         t.exn = "none" => /\ SameStack(the_trace, t)
                           /\ Pinned(Front(frames), Len(Front(frames)), t.cur_ast)
  PROVE  HInv'
<1> DEFINE s == the_trace.step_stack
           n == Len(s)
           outer == Front(frames)
<1>0. mode # "done" /\ mode \in {"start", "run"}
  BY DEF Running
<1>1. n \in Nat /\ n = Len(s) /\ n = Depth /\ Level(frames, Len(frames), s, n)
  BY <1>0, Handles
<1>2. outer \in Seq(Frames) /\ Len(outer) \in Nat /\ FramesGood(outer, s)
      /\ Level(outer, Len(outer), s, n)
  BY <1>0, <1>1, FrameHandles
<1>3. t.step_stack \in Seq(Steps) /\ SameSteps(s, t.step_stack, n) /\ Good(t)
  BY TopOfWf DEF Neat, Good, MoreSteps
<1>a. t.exn = "none" => Len(t.step_stack) = n
  BY DEF SameStack
<1> HIDE DEF s, n, outer
<1>4. NoDeeper(outer, Len(outer), n)
  BY <1>1, <1>2, Deepest
<1>5. FramesGood(outer, t.step_stack) /\ Level(outer, Len(outer), t.step_stack, n)
  BY <1>1, <1>2, <1>3, <1>4, FramesKept, LevelKept
<1> QED BY <1>3, <1>5, <1>a, GoOn DEF outer

\* with_flag puts back a value that is as fixed as the others.
LEMMA RestoredFixed ==
  ASSUME NEW f \in FlagValues, FixedFlags(f), NEW g \in FlagValues, FixedFlags(g)
  PROVE  /\ FixedFlags([f EXCEPT !.check_validity = g.check_validity])
         /\ FixedFlags([f EXCEPT !.recompute = g.recompute])
<1>1. /\ [f EXCEPT !.check_validity = g.check_validity].check_validity = g.check_validity
      /\ [f EXCEPT !.recompute = g.recompute].check_validity = f.check_validity
  BY DEF FlagValues
<1> QED BY <1>1 DEF FixedFlags

LEMMA LeaveGood ==
  IInv /\ HInv /\ Leave => HInv'
<1> SUFFICES ASSUME IInv, HInv, Leave PROVE HInv'
  OBVIOUS
<1>1. /\ Running /\ frames # <<>> /\ mode # "done" /\ mode = "run" /\ mode \in {"start", "run"}
      /\ mode \in {"run", "raise"}
  BY DEF Leave, step_and_get_handle, LeaveTrustme, LeaveUnchecked, LeaveNoTyping, LeavePreserve,
     LeaveOnFailure, LeaveBacktrack, LeaveExpected, Leaving, InFrame, Running
<1>2. /\ flags \in FlagValues /\ FixedFlags(flags) /\ Neat(the_trace) /\ Good(the_trace)
      /\ the_trace.exn = "none" /\ Typed(the_trace)
      /\ Pinned(frames, Len(frames), the_trace.cur_ast)
      /\ FramesGood(frames, the_trace.step_stack)
  BY <1>1, Handles
<1>3. /\ Frame.flags \in FlagValues /\ FixedFlags(Frame.flags) /\ Frame.typed \in BOOLEAN
      /\ FramesGood(Front(frames), the_trace.step_stack)
      /\ Pinned(Front(frames), Len(Front(frames)), the_trace.cur_ast)
      /\ Frame.kind = "preserve" => AstTyped(Frame.typed, the_trace.cur_ast)
  BY <1>1, <1>2, FrameFacts, FrameHandles
<1>4. RestoreValidityFlag \/ RestoreTypingFlag => flags' \in FlagValues /\ FixedFlags(flags')
  <2>1. Frame.flags.check_validity \in BOOLEAN /\ Frame.flags.recompute \in BOOLEAN
    BY <1>3, FlagsOK
  <2>2. \A v \in BOOLEAN : /\ [flags EXCEPT !.check_validity = v] \in FlagValues
                           /\ [flags EXCEPT !.recompute = v] \in FlagValues
    BY <1>2 DEF FlagValues
  <2>3. RestoreValidityFlag \/ RestoreTypingFlag => flags' \in FlagValues
    BY <2>1, <2>2, Zenon DEF RestoreValidityFlag, RestoreTypingFlag
  <2> QED BY <1>2, <1>3, <2>3, RestoredFixed DEF RestoreValidityFlag, RestoreTypingFlag
<1>a. SameStack(the_trace, the_trace) /\ MoreSteps(the_trace, the_trace)
  <2>1. SameStack(the_trace, the_trace)
    BY <1>2, SameStackGood DEF Good
  <2> QED BY <1>2, <2>1 DEF MoreSteps, SameStack, Neat
<1>5. CASE step_and_get_handle \/ LeaveOnFailure
  <2>1. /\ Frame.kind \in {"step", "trustme", "onfailure"} /\ frames' = Front(frames)
        /\ flags' = flags /\ Continue(CloseChecked(the_trace, flags', Frame.depth, FALSE))
    BY <1>5 DEF step_and_get_handle, LeaveOnFailure, Leaving, InFrame
  <2> QED BY <1>1, <1>2, <2>1, LeaveStep
<1>6. CASE LeaveTrustme
  <2>1. /\ Frame.kind \in {"step", "trustme", "onfailure"} /\ frames' = Front(frames)
        /\ RestoreValidityFlag
        /\ Continue(CloseChecked(the_trace, flags', Frame.depth, FALSE))
    BY <1>6 DEF LeaveTrustme, Leaving, InFrame
  <2> QED BY <1>1, <1>4, <2>1, LeaveStep
<1>7. CASE LeaveUnchecked
  <2>1. /\ frames' = Front(frames) /\ RestoreValidityFlag /\ UNCHANGED <<the_trace, mode>>
        /\ Frame.kind = "unchecked"
    BY <1>7 DEF LeaveUnchecked, Leaving, InFrame
  <2>2. Continue(the_trace) /\ ~IsStep(Frame)
    BY <1>1, <1>2, <2>1, Returned DEF Good, IsStep, StepFrameKinds
  <2> QED BY <1>1, <1>2, <1>3, <1>4, <1>a, <2>1, <2>2, LeaveFlag
<1>8. CASE LeaveNoTyping
  <2> DEFINE r == recompute_resources(the_trace, flags')
             t == IF flags'.recompute THEN r ELSE the_trace
  <2>1. /\ frames' = Front(frames) /\ RestoreTypingFlag /\ Continue(t)
        /\ Frame.kind = "notyping"
    BY <1>8 DEF LeaveNoTyping, Leaving, InFrame
  <2>2. ~IsStep(Frame) /\ flags' \in FlagValues /\ FixedFlags(flags')
    BY <1>4, <2>1 DEF IsStep, StepFrameKinds
  <2>3. /\ Good(r) /\ SameProgram(the_trace, r) /\ MoreSteps(the_trace, r)
        /\ r.exn = "none" => SameStack(the_trace, r)
    BY <1>2, <2>2, RecomputeGood
  <2> HIDE DEF r
  <2>4. SameProgram(the_trace, the_trace)
    BY DEF SameProgram
  <2>5. /\ Good(t) /\ SameProgram(the_trace, t) /\ MoreSteps(the_trace, t)
        /\ t.exn = "none" => SameStack(the_trace, t)
    BY <1>2, <1>a, <2>3, <2>4
  <2> HIDE DEF t
  <2>6. Neat(t) /\ Typed(t)
    BY <1>2, <2>5 DEF Neat, MoreSteps, SameProgram
  <2>7. t.exn = "none" => Pinned(Front(frames), Len(Front(frames)), t.cur_ast)
    BY <1>3, <2>5 DEF SameProgram, Pinned, AstTyped
  <2> QED BY <1>1, <2>1, <2>2, <2>5, <2>6, <2>7, LeaveFlag
<1>9. CASE LeavePreserve
  <2> DEFINE t == [the_trace EXCEPT !.cur_ast_typed = Frame.typed]
  <2>1. /\ frames' = Front(frames) /\ RestoreTypingFlag /\ the_trace' = t /\ mode' = mode
        /\ Frame.kind = "preserve"
    BY <1>9 DEF LeavePreserve, Leaving, InFrame
  <2>2. ~IsStep(Frame)
    BY <2>1 DEF IsStep, StepFrameKinds
  <2>3. /\ t \in Traces /\ t.step_stack = the_trace.step_stack
        /\ t.next_step_id = the_trace.next_step_id /\ t.exn = "none"
        /\ t.cur_ast = the_trace.cur_ast /\ t.cur_ast_typed = Frame.typed
    BY <1>2, <1>3 DEF Traces, Good, Wf
  <2> HIDE DEF t
  <2>4. Wf(t)
    BY <1>2, <2>3, WfSameStack DEF Good
  <2>5. Good(t) /\ SameStack(the_trace, t)
    BY <1>2, <2>3, <2>4, SameStackGood
  <2>6. Neat(t) /\ MoreSteps(the_trace, t)
    BY <1>2, <1>a, <2>3, <2>5 DEF Neat, MoreSteps
  <2>7. Typed(t) /\ Pinned(Front(frames), Len(Front(frames)), t.cur_ast)
    BY <1>3, <2>1, <2>3 DEF Typed
  <2>8. Continue(t)
    BY <1>1, <2>1, <2>3, <2>4, Returned
  <2> QED BY <1>1, <1>4, <2>1, <2>2, <2>5, <2>6, <2>7, <2>8, LeaveFlag
<1>10. CASE LeaveBacktrack
  <2>1. /\ frames' = frames /\ mode' = "closing"
        /\ flags' = [flags EXCEPT !.recompute = FALSE] /\ UNCHANGED the_trace
    BY <1>10 DEF LeaveBacktrack
  <2>2. flags'.check_validity = flags.check_validity
    BY <1>2, <2>1, ClearFlag
  <2>3. FixedFlags(flags')
    BY <1>2, <2>2 DEF FixedFlags
  <2> QED BY <1>1, <1>2, <2>1, <2>3, SameTrace
<1>11. CASE LeaveExpected
  <2>1. frames' = Front(frames) /\ mode' = "raise" /\ UNCHANGED <<the_trace, flags>>
    BY <1>11 DEF LeaveExpected, Leaving
  <2> QED BY <1>1, <1>2, <1>3, <2>1, SameTrace
<1> QED BY <1>5, <1>6, <1>7, <1>8, <1>9, <1>10, <1>11 DEF Leave

-----------------------------------------------------------------------------
(* Exceptions.                                                              *)

\* A step of the handling of an exception, or of the end of a region.
LEMMA HandlingGood ==
  ASSUME NEW t, Neat(t), Typed(t), the_trace' = [t EXCEPT !.exn = "none"],
         mode' \in {"closing", "closing_all", "crashed"},
         mode' = "closing_all" => frames' = <<>>,
         FixedFlags(flags'), FramesGood(frames', t.step_stack)
  PROVE  HInv'
<1>1. /\ the_trace'.step_stack = t.step_stack /\ the_trace'.cur_ast = t.cur_ast
      /\ the_trace'.cur_ast_typed = t.cur_ast_typed
  BY ClearExnGood DEF Neat
<1>2. StepsInv'
  <2>1. Depth' = Len(t.step_stack)
    BY <1>1 DEF Depth
  <2> QED BY <1>1, <2>1 DEF StepsInv, Neat, Good
<1>3. CallsInv'
  BY <1>1 DEF CallsInv
<1>4. RunInv'
  BY <1>1 DEF RunInv, Typed
<1>5. EndInv'
  BY DEF EndInv, ExitAtScriptLevel
<1> QED BY <1>2, <1>3, <1>4, <1>5 DEF HInv

LEMMA CloseInterruptedGood ==
  IInv /\ HInv /\ CloseInterrupted => HInv'
<1> SUFFICES ASSUME IInv, HInv, CloseInterrupted PROVE HInv'
  OBVIOUS
<1> DEFINE t == close_step(the_trace, flags, FALSE, FALSE)
           s == the_trace.step_stack
           n == Len(s)
<1>1. mode = "closing" /\ mode # "done" /\ mode # "failed" /\ ~(Depth <= Frame.depth)
  BY DEF CloseInterrupted, AllClosed
<1>2. frames # <<>> /\ Frame.kind \in {"backtrack", "onfailure"}
  BY <1>1 DEF IInv, ControlInv, Frame
<1>3. IsStep(Frame) /\ Outside(Frame) = Frame.depth - 1 /\ Frame.depth \in Nat /\ Frame.depth > 1
  BY <1>1, <1>2, FrameFacts DEF IsStep, StepFrameKinds, Outside
<1>4. /\ Neat(the_trace) /\ the_trace.exn = "none" /\ Typed(the_trace)
      /\ flags \in FlagValues /\ FixedFlags(flags) /\ frames \in Seq(Frames)
      /\ FramesGood(frames, s) /\ s \in Seq(Steps) /\ n \in Nat /\ n = Len(s) /\ n = Depth
  BY <1>1, Handles
<1>5. n > 1 /\ Frame.depth <= n - 1
  BY <1>1, <1>3, <1>4
<1>6. /\ Neat(t) /\ SameProgram(the_trace, t)
      /\ IF t.exn = "none" THEN StepClosed(the_trace, t) ELSE MoreSteps(the_trace, t)
  <2>1. \A d, e \in BOOLEAN :
          LET u == close_step(the_trace, flags, d, e)
          IN /\ Neat(u) /\ SameProgram(the_trace, u)
             /\ IF u.exn = "none" THEN StepClosed(the_trace, u) ELSE MoreSteps(the_trace, u)
    BY <1>4, <1>5, CloseStepNeat
  <2> QED BY <2>1
<1>7. /\ the_trace' = [t EXCEPT !.exn = "none"]
      /\ \/ t.exn = "none" /\ UNCHANGED <<flags, frames, mode>>
         \/ t.exn # "none" /\ RestoreTypingFlag /\ frames' = Front(frames) /\ mode' = Outcome(t)
  BY DEF CloseInterrupted, CloseCurrent
<1> HIDE DEF t, s, n
<1>8. Typed(t) /\ Good(t) /\ t.step_stack \in Seq(Steps)
  BY <1>4, <1>6, TopOfWf DEF SameProgram, Neat, Good
<1>9. CASE t.exn = "none" /\ UNCHANGED <<flags, frames, mode>>
  <2>1. SameSteps(s, t.step_stack, n - 1) /\ n - 1 \in Nat
    BY <1>4, <1>5, <1>6, <1>9 DEF StepClosed, s, n
  <2>2. NoDeeper(frames, Len(frames), Frame.depth)
    BY <1>2, <1>3, <1>4, InnermostStep DEF Frame
  <2>3. NoDeeper(frames, Len(frames), n - 1)
    <3>1. \A i \in 1..Len(frames) : frames[i].depth \in Nat
      BY <1>4, FrameTypes
    <3> QED BY <1>3, <1>4, <1>5, <2>2, <3>1 DEF NoDeeper
  <2>4. FramesGood(frames, t.step_stack)
    BY <1>4, <1>8, <2>1, <2>3, FramesKept
  <2> QED BY <1>1, <1>4, <1>6, <1>7, <1>8, <1>9, <2>4, HandlingGood
<1>10. CASE t.exn # "none" /\ RestoreTypingFlag /\ frames' = Front(frames) /\ mode' = Outcome(t)
  <2>1. SameSteps(s, t.step_stack, n)
    BY <1>6, <1>10 DEF MoreSteps, s, n
  <2>2. SameSteps(s, t.step_stack, Outside(Frame))
    <3>1. Outside(Frame) \in Nat /\ Outside(Frame) <= n
      BY <1>3, <1>4, <1>5
    <3> QED BY <1>4, <1>8, <2>1, <3>1, SameStepsLess
  <2>3. FramesGood(frames', t.step_stack)
    BY <1>1, <1>2, <1>3, <1>8, <1>10, <2>2, FrameOut DEF s
  <2>4. Frame.flags \in FlagValues /\ FixedFlags(Frame.flags)
    BY <1>1, <1>2, FrameFacts, FrameHandles
  <2>5. FixedFlags(flags')
    BY <1>4, <1>10, <2>4, RestoredFixed DEF RestoreTypingFlag
  <2>6. Continue(t)
    BY <1>7, <1>10 DEF Continue
  <2> QED BY <1>6, <1>8, <1>10, <2>3, <2>5, <2>6, GoOn
<1> QED BY <1>7, <1>9, <1>10

\* The step that a region is undone in is the one it opened, and its AST is the one that
\* the region was entered on.
LEMMA RegionUndone ==
  ASSUME IInv, HInv, RestoreSnapshot
  PROVE  LET f == [flags EXCEPT !.recompute = FALSE]
             w == UndoRegion(the_trace, Frame.ast, Frame.typed, f, flags', flags'.recompute,
                             Frame.discard)
         IN /\ Continue(w) /\ Undone(the_trace, Frame.ast, w) /\ FixedFlags(flags')
            /\ f.check_validity = Top(the_trace).check_validity => w.exn # "trace"
            /\ ~flags'.recompute \/ Frame.ast.code \in Typable => w.exn \in {"none", "trace"}
            /\ Depth = Frame.depth /\ frames # <<>> /\ frames' = Front(frames)
            /\ IsStep(Frame) /\ Outside(Frame) = Depth - 1
<1> DEFINE f == [flags EXCEPT !.recompute = FALSE]
           p == PutBack(the_trace, Frame.ast, Frame.typed)
           j == justif(p)
           w == UndoRegion(the_trace, Frame.ast, Frame.typed, f, flags', flags'.recompute,
                           Frame.discard)
           s == the_trace.step_stack
           n == Len(s)
<1>1. /\ mode = "closing" /\ mode # "done" /\ mode # "failed" /\ RestoreTypingFlag
      /\ frames' = Front(frames) /\ Depth <= Frame.depth
  BY DEF RestoreSnapshot, AllClosed
<1>2. frames # <<>> /\ Frame.kind \in {"backtrack", "onfailure"}
  BY <1>1 DEF IInv, ControlInv, Frame
<1>3. IsStep(Frame) /\ Outside(Frame) = Frame.depth - 1
  BY <1>1, <1>2, FrameFacts DEF IsStep, StepFrameKinds, Outside
<1>4. /\ Neat(the_trace) /\ Good(the_trace) /\ the_trace.exn = "none"
      /\ flags \in FlagValues /\ FixedFlags(flags) /\ s \in Seq(Steps)
      /\ n \in Nat /\ n = Len(s) /\ n = Depth
  BY <1>1, Handles
<1>5. /\ Frame.ast \in Asts /\ Frame.typed \in BOOLEAN /\ Frame.discard \in BOOLEAN
      /\ Frame.flags \in FlagValues /\ Frame.depth \in Nat /\ Frame.flags.recompute \in BOOLEAN
  BY <1>1, <1>2, FrameFacts
<1>6. /\ StepFrameGood(Front(frames), Len(Front(frames)), Frame, s)
      /\ FrameGood(Front(frames), Len(Front(frames)), Frame, s) /\ FixedFlags(Frame.flags)
  BY <1>1, <1>2, <1>3, FrameHandles
<1>7. n = Frame.depth /\ n > 1 /\ s[n].before = Frame.ast /\ AstTyped(Frame.typed, Frame.ast)
  <2> HIDE DEF s, n
  <2>1. Frame.depth \in 2..Len(s)
    BY <1>6 DEF StepFrameGood
  <2>2. Frame.depth >= 2 /\ Frame.depth <= n
    BY <1>4, <1>5, <2>1
  <2>3. n = Frame.depth /\ n > 1
    BY <1>1, <1>4, <1>5, <2>2
  <2> QED BY <1>2, <1>6, <2>3 DEF StepFrameGood, FrameGood
<1>8. /\ f \in FlagValues /\ FixedFlags(f) /\ ~f.recompute
  BY <1>4, ClearFlag DEF FixedFlags
<1>9. flags' \in FlagValues /\ FixedFlags(flags') /\ flags'.recompute \in BOOLEAN
  <2>1. flags' = [flags EXCEPT !.recompute = Frame.flags.recompute]
    BY <1>1 DEF RestoreTypingFlag
  <2>2. flags' \in FlagValues
    BY <1>4, <1>5, <2>1, FlagsOK
  <2> QED BY <1>4, <1>5, <1>6, <2>1, <2>2, FlagsOK, RestoredFixed
<1>10. Continue(w)
  <2>1. Len(j.step_stack) = Frame.depth
    <3>1. Wf(p) /\ p.step_stack = s
      BY <1>4, <1>5, PutBackWf DEF Good
    <3>2. Good(p)
      <4> HIDE DEF p
      <4> QED BY <1>4, <3>1, SameStackGood
    <3>3. Len(j.step_stack) = Len(p.step_stack)
      <4> HIDE DEF p
      <4> QED BY <3>2, JustifGood
    <3> QED BY <1>4, <1>7, <3>1, <3>3
  <2>2. CloseChecked(j, f, Frame.depth, Frame.discard) = close_step(j, f, Frame.discard, FALSE)
    BY <2>1 DEF CloseChecked
  <2>3. Continue(Then(CloseChecked(j, f, Frame.depth, Frame.discard),
                      LAMBDA v : IF flags'.recompute THEN recompute_resources(v, flags') ELSE v))
    BY DEF RestoreSnapshot, Restored
  <2> DEFINE c == close_step(j, f, Frame.discard, FALSE)
  <2>4. Continue(IF c.exn = "none"
                 THEN (IF flags'.recompute THEN recompute_resources(c, flags') ELSE c) ELSE c)
    BY <2>2, <2>3 DEF Then
  <2>5. w = IF c.exn = "none" /\ flags'.recompute THEN recompute_resources(c, flags') ELSE c
    BY DEF UndoRegion
  <2> HIDE DEF c, w
  <2> QED BY <2>4, <2>5
<1>11. /\ Undone(the_trace, Frame.ast, w)
       /\ f.check_validity = Top(the_trace).check_validity => w.exn # "trace"
       /\ ~flags'.recompute \/ Frame.ast.code \in Typable => w.exn \in {"none", "trace"}
  <2>1. Top(the_trace).before = Frame.ast /\ Len(the_trace.step_stack) > 1
    BY <1>7 DEF Top, Last
  <2>2. Ungranted(the_trace.step_stack, Len(the_trace.step_stack) - 1)
    <3>1. \A i \in 1..(n - 1) : i \in 1..n
      BY <1>4
    <3> QED BY <1>4, <3>1 DEF Neat, Ungranted
  <2> HIDE DEF f
  <2> QED BY <1>4, <1>5, <1>7, <1>8, <1>9, <2>1, <2>2, UndoGood
<1> HIDE DEF w, f, s, n
<1> QED BY <1>1, <1>2, <1>3, <1>4, <1>7, <1>9, <1>10, <1>11 DEF w, f

LEMMA RestoreSnapshotGood ==
  IInv /\ HInv /\ RestoreSnapshot => HInv'
<1> SUFFICES ASSUME IInv, HInv, RestoreSnapshot PROVE HInv'
  OBVIOUS
<1> DEFINE w == UndoRegion(the_trace, Frame.ast, Frame.typed, [flags EXCEPT !.recompute = FALSE],
                           flags', flags'.recompute, Frame.discard)
           s == the_trace.step_stack
<1>1. /\ Continue(w) /\ Undone(the_trace, Frame.ast, w) /\ FixedFlags(flags')
      /\ Depth = Frame.depth /\ frames # <<>> /\ frames' = Front(frames)
      /\ IsStep(Frame) /\ Outside(Frame) = Depth - 1
  BY RegionUndone
<1>2. mode # "done"
  BY DEF RestoreSnapshot
<1> HIDE DEF w
<1>3. /\ Good(w) /\ SameSteps(s, w.step_stack, Depth - 1)
      /\ w.exn # "trace" => Neat(w) /\ Typed(w)
      /\ w.exn = "none" => /\ Len(w.step_stack) = Depth - 1
                           /\ Frame.ast.ann = "typed" => w.cur_ast.ann = "typed"
  BY <1>1 DEF Undone, Depth
<1>4. w.step_stack \in Seq(Steps)
  BY <1>3, TopOfWf DEF Good
<1>5. /\ FramesGood(frames', w.step_stack)
      /\ Level(frames', Len(frames'), w.step_stack, Depth - 1)
  BY <1>1, <1>2, <1>3, <1>4, FrameOut
<1>6. w.exn = "none" => Pinned(frames', Len(frames'), w.cur_ast)
  <2>1. Pinned(frames', Len(frames'), Frame.ast)
    BY <1>1, <1>2, FrameHandles DEF FrameGood
  <2> QED BY <1>3, <2>1 DEF Pinned, AstTyped
<1> QED BY <1>1, <1>3, <1>5, <1>6, GoOn

LEMMA PropagateGood ==
  IInv /\ HInv /\ (Propagate \/ CatchExpected \/ CatchOnFailure \/ Crash) => HInv'
<1> SUFFICES ASSUME IInv, HInv, Propagate \/ CatchExpected \/ CatchOnFailure \/ Crash PROVE HInv'
  OBVIOUS
<1>1. /\ mode # "done" /\ mode \in {"run", "raise"} /\ UNCHANGED the_trace
      /\ mode' \in {"raise", "closing", "crashed"}
  BY DEF Propagate, CatchExpected, CatchOnFailure, Crash
<1>2. /\ flags \in FlagValues /\ FixedFlags(flags) /\ FramesGood(frames, the_trace.step_stack)
  BY <1>1, Handles
<1>3. frames # <<>> =>
        /\ FramesGood(Front(frames), the_trace.step_stack)
        /\ Frame.flags \in FlagValues /\ FixedFlags(Frame.flags)
  BY <1>1, FrameFacts, FrameHandles
<1>4. CASE Propagate
  <2>1. frames # <<>> /\ frames' = Front(frames) /\ flags' = FlagsUnwound
    BY <1>4 DEF Propagate
  <2>2. FixedFlags(flags')
    BY <1>2, <1>3, <2>1, RestoredFixed DEF FlagsUnwound
  <2> QED BY <1>1, <1>3, <2>1, <2>2, SameTrace
<1>5. CASE CatchExpected
  <2>1. /\ frames # <<>> /\ frames' = Front(frames)
        /\ flags' = [flags EXCEPT !.recompute = FALSE]
    BY <1>5 DEF CatchExpected, InFrame
  <2>2. FixedFlags(flags')
    BY <1>2, <2>1, ClearFlag DEF FixedFlags
  <2> QED BY <1>1, <1>3, <2>1, <2>2, SameTrace
<1>6. CASE CatchOnFailure \/ Crash
  <2>1. UNCHANGED <<flags, frames>>
    BY <1>6 DEF CatchOnFailure, Crash
  <2> QED BY <1>1, <1>2, <2>1, SameTrace
<1> QED BY <1>4, <1>5, <1>6

LEMMA ErrorStepGood ==
  ASSUME NEW marked \in BOOLEAN
  PROVE  IInv /\ HInv /\ error_step(marked) => HInv'
<1> SUFFICES ASSUME IInv, HInv, error_step(marked) PROVE HInv'
  OBVIOUS
<1> DEFINE old == the_trace.cur_ast
           new == PutNew(the_trace, old.code, old.ann, the_trace.cur_ast_typed)
           u == IF marked THEN new ELSE the_trace
           t == LeafStep(u, "error", old, u.cur_ast, flags.check_validity)
<1>1. /\ mode = "raise" /\ mode # "done" /\ mode # "failed" /\ frames = <<>>
      /\ mode' = "closing_all" /\ UNCHANGED <<flags, frames>> /\ the_trace' = t
  BY DEF error_step
<1>2. /\ Neat(the_trace) /\ Good(the_trace) /\ the_trace.exn = "none" /\ Typed(the_trace)
      /\ flags \in FlagValues /\ FixedFlags(flags) /\ flags.check_validity \in BOOLEAN
      /\ old \in Asts /\ the_trace.cur_ast_typed \in BOOLEAN
  BY <1>1, Handles, Facts, FlagsOK
<1>3. /\ Good(new) /\ new.exn = "none" /\ SameStack(the_trace, new) /\ new.cur_ast \in Asts
      /\ new.cur_ast.ann = old.ann /\ new.cur_ast_typed = the_trace.cur_ast_typed
  <2>1. \A b \in BOOLEAN :
          LET x == PutNew(the_trace, old.code, old.ann, b)
          IN /\ Good(x) /\ x.exn = the_trace.exn /\ SameStack(the_trace, x) /\ x.cur_ast \in Asts
             /\ x.cur_ast.ann = old.ann /\ x.cur_ast_typed = b
    BY <1>2, NewSameGood
  <2> QED BY <1>2, <2>1
<1> HIDE DEF new
<1>4. Good(u) /\ u.exn = "none" /\ SameStack(the_trace, u) /\ u.cur_ast \in Asts /\ Typed(u)
  <2>1. SameStack(the_trace, the_trace)
    BY <1>2, SameStackGood DEF Good
  <2> QED BY <1>2, <1>3, <2>1 DEF Typed, AstTyped
<1> HIDE DEF u, old
<1>5. /\ Good(t) /\ t.exn = "none" /\ SameStack(u, t) /\ t.cur_ast = u.cur_ast
      /\ t.cur_ast_typed = u.cur_ast_typed
  <2>1. "error" \in Kinds \ {"root", "big", "small", "backtrack"}
    BY DEF Kinds
  <2> QED BY <1>2, <1>4, <2>1, LeafStepGood
<1> HIDE DEF t
<1>6. Neat(t) /\ Typed(t)
  BY <1>2, <1>4, <1>5 DEF Neat, SameStack, Typed
<1>7. the_trace' = [t EXCEPT !.exn = "none"]
  BY <1>1, <1>5 DEF Good, Wf, Traces
<1>8. FixedFlags(flags') /\ FramesGood(frames', t.step_stack)
  BY <1>1, <1>2, AtTopFacts
<1> QED BY <1>1, <1>6, <1>7, <1>8, HandlingGood

LEMMA CloseAllGood ==
  IInv /\ HInv /\ close_all_steps => HInv'
<1> SUFFICES ASSUME IInv, HInv, close_all_steps PROVE HInv'
  OBVIOUS
<1> DEFINE t == close_step(the_trace, flags, FALSE, TRUE)
<1>1. /\ mode = "closing_all" /\ mode # "done" /\ mode # "failed" /\ UNCHANGED <<flags, frames>>
      /\ frames = <<>>
  BY DEF close_all_steps, HInv, EndInv
<1>2. /\ Neat(the_trace) /\ the_trace.exn = "none" /\ Typed(the_trace)
      /\ flags \in FlagValues /\ FixedFlags(flags)
      /\ Depth \in Nat /\ Depth > 0 /\ Depth = Len(the_trace.step_stack)
  BY <1>1, Handles
<1>3. CASE Depth = 1
  <2>1. \A e \in BOOLEAN : finalize(the_trace, e) => HInv'
    BY <1>1, <1>2, FinalizeGood
  <2>2. finalize(the_trace, TRUE)
    BY <1>3 DEF close_all_steps
  <2> QED BY <2>1, <2>2
<1>4. CASE Depth # 1
  <2>1. Len(the_trace.step_stack) > 1
    <3>1. Depth \in Nat /\ Depth > 0
      BY <1>2
    <3>2. Depth > 1
      BY <1>4, <3>1
    <3> QED BY <3>2 DEF Depth
  <2>2. Neat(t) /\ SameProgram(the_trace, t)
    <3>1. \A d, e \in BOOLEAN :
            LET u == close_step(the_trace, flags, d, e)
            IN /\ Neat(u) /\ SameProgram(the_trace, u)
               /\ IF u.exn = "none" THEN StepClosed(the_trace, u) ELSE MoreSteps(the_trace, u)
      BY <1>2, <2>1, CloseStepNeat
    <3> QED BY <3>1
  <2>3. the_trace' = [t EXCEPT !.exn = "none"] /\ mode' \in {"closing_all", "crashed"}
    BY <1>1, <1>4 DEF close_all_steps
  <2> HIDE DEF t
  <2>4. Typed(t)
    BY <1>2, <2>2 DEF SameProgram
  <2>5. FixedFlags(flags') /\ FramesGood(frames', t.step_stack)
    BY <1>1, <1>2, AtTopFacts
  <2> QED BY <1>1, <2>2, <2>3, <2>4, <2>5, HandlingGood
<1> QED BY <1>3, <1>4

-----------------------------------------------------------------------------
(* The theorems.                                                            *)

LEMMA InitGood ==
  Init => HInv
<1> SUFFICES ASSUME Init PROVE HInv
  OBVIOUS
<1> DEFINE x == [id |-> 0, kind |-> "root", before |-> EmptyTrace.cur_ast, sub |-> <<>>,
                 valid |-> FALSE, granted |-> FALSE,
                 check_validity |-> flags.check_validity, show |-> FALSE]
           s == the_trace.step_stack
<1>1. /\ frames = <<>> /\ mode = "start" /\ flags.check_validity = CheckValidity
      /\ the_trace = open_step(EmptyTrace, flags, "root", FALSE, FALSE)
  BY DEF Init, InitialFlags
<1>2. /\ s = <<x>> /\ the_trace.cur_ast_typed = FALSE
  <2> DEFINE e == EmptyTrace
             t == open_step(EmptyTrace, flags, "root", FALSE, FALSE)
  <2>1. /\ e.next_step_id = 0 /\ e.step_stack = <<>> /\ e.cur_ast_typed = FALSE
        /\ DOMAIN e = {"next_step_id", "next_ver", "cur_ast_typed", "step_stack", "cur_ast", "exn"}
    BY DEF EmptyTrace
  <2>2. t = [e EXCEPT !.next_step_id = e.next_step_id + 1, !.step_stack = Append(e.step_stack, x)]
    BY <2>1 DEF open_step
  <2>3. the_trace = t
    BY <1>1
  <2> HIDE DEF e, t, x
  <2>4. Append(<<>>, x) = <<x>>
    OBVIOUS
  <2>5. the_trace = [e EXCEPT !.next_step_id = e.next_step_id + 1, !.step_stack = <<x>>]
    BY <2>1, <2>2, <2>3, <2>4
  <2> QED BY <2>1, <2>5
<1>3. /\ x.kind = "root" /\ x.sub = <<>> /\ x.check_validity = CheckValidity
  BY <1>1
<1> HIDE DEF x, s
<1>4. Len(s) = 1 /\ DOMAIN s = 1..1 /\ s[1] = x /\ Depth = 1 /\ \A i \in 1..1 : i = 1
  BY <1>2 DEF Depth, s
<1>5. StepsInv
  <2>1. SubsGood(x) /\ FixedFlags(x)
    BY <1>3 DEF SubsGood, FixedFlags
  <2>2. StackGood(s)
    BY <1>4, <2>1 DEF StackGood
  <2>3. Ungranted(s, 1)
    BY <1>3, <1>4 DEF Ungranted
  <2> QED BY <1>4, <2>2, <2>3 DEF StepsInv, s
<1>6. Len(frames) = 0 /\ DOMAIN frames = {} /\ 1..0 = {}
  BY <1>1
<1>7. CallsInv
  BY <1>1, <1>6 DEF CallsInv, FixedFlags, FramesGood
<1>8. RunInv
  <2>1. ScriptSteps(s, 1)
    BY <1>3, <1>4 DEF ScriptSteps
  <2>2. Level(frames, 0, s, 1) /\ Pinned(frames, 0, the_trace.cur_ast)
    BY <1>6, <2>1 DEF Level, Pinned
  <2>3. Typed(the_trace)
    BY <1>2 DEF Typed, AstTyped
  <2> QED BY <1>4, <1>6, <2>2, <2>3 DEF RunInv, s
<1>9. EndInv
  BY <1>1, <1>4 DEF EndInv, ExitAtScriptLevel
<1> QED BY <1>5, <1>7, <1>8, <1>9 DEF HInv

LEMMA NextGood ==
  IInv /\ HInv /\ [Next]_vars => HInv'
<1> SUFFICES ASSUME IInv, HInv, [Next]_vars PROVE HInv'
  OBVIOUS
<1>1. CASE Script
  BY <1>1, StartGood, EndScriptGood, SmallStepGood, BigStepGood DEF Script
<1>2. CASE Edit
  BY <1>2, ApplyGood, ApplyMarksGood, JustifyGood, IterGood, ResolveGood, EnsureGood,
     RestoreGood, RaiseGood, ShowGood DEF Edit
<1>3. CASE Enter
  BY <1>3, EnterGood
<1>4. CASE Leave
  BY <1>4, LeaveGood
<1>5. CASE Unwind
  BY <1>5, CloseInterruptedGood, RestoreSnapshotGood, PropagateGood, ErrorStepGood,
     CloseAllGood DEF Unwind
<1>6. CASE UNCHANGED vars
  BY <1>6 DEF vars, HInv, StepsInv, CallsInv, RunInv, EndInv, ExitAtScriptLevel, Depth, Top
<1>7. Stopped => UNCHANGED vars
  BY DEF Stopped
<1> QED BY <1>1, <1>2, <1>3, <1>4, <1>5, <1>6, <1>7 DEF Next

LEMMA HandlesInvariance ==
  Spec => [](IInv /\ HInv)
<1> QED BY InitOK, InitGood, NextOK, NextGood, PTL DEF Spec

\* The types of the stack of open steps, also once the root step is closed.
LEMMA OpenStepsTypes ==
  ASSUME IInv
  PROVE  /\ the_trace.step_stack \in Seq(Steps) /\ the_trace.step_stack # <<>>
         /\ \A i \in DOMAIN the_trace.step_stack :
              (the_trace.step_stack[i].kind = "root") <=> (i = 1)
<1>1. CASE mode = "done"
  BY <1>1 DEF IInv, TraceInv, Reported, StackOK
<1>2. CASE mode # "done"
  BY <1>2 DEF IInv, TraceInv, Wf, StackOK
<1> QED BY <1>1, <1>2

\* step_and_get_handle, step_backtrack and failure_expected: when a body returns, the
\* current step is the one that was opened for it.  No implicit closing, no exception that
\* left steps open and no handler that closed some can put another one in its place.
THEOREM HandlesAlwaysMatch ==
  Spec => []HandlesMatch
<1>1. IInv /\ HInv => HandlesMatch
  <2> SUFFICES ASSUME IInv, HInv PROVE HandlesMatch
    OBVIOUS
  <2> DEFINE s == the_trace.step_stack
             n == Len(frames)
  <2>1. /\ frames \in Seq(Frames) /\ n \in Nat /\ DOMAIN frames = 1..n /\ n = Len(frames)
        /\ FramesGood(frames, s)
    BY DEF IInv, ControlInv, FramesOK, HInv, CallsInv
  <2>2. \A i \in 1..n : i \in StepFrames <=> IsStep(frames[i])
    BY <2>1 DEF StepFrames, FramesOf, IsStep, StepFrameKinds
  <2>3. StepFrames \subseteq 1..n
    BY <2>1 DEF StepFrames, FramesOf
  <2>4. \A i \in StepFrames : StepFrameGood(frames, i - 1, frames[i], s)
    BY <2>1, <2>2, <2>3 DEF FramesGood, FrameGood
  <2>5. \A i \in StepFrames : frames[i].depth \in 2..Depth
    BY <2>4 DEF StepFrameGood, Depth
  <2>6. \A i \in StepFrames : s[frames[i].depth].kind \in
          (CASE frames[i].kind = "step" -> {"small", "transfo", "group"}
             [] frames[i].kind = "trustme" -> {"trustme"}
             [] OTHER -> {"backtrack"})
    BY <2>4 DEF StepFrameGood, StepKindsOf
  <2>7. ASSUME Running, StepFrames # {}
        PROVE  Depth = frames[Max(StepFrames)].depth
    <3>1. Level(frames, n, s, Depth)
      BY <2>7 DEF HInv, RunInv, Running
    <3>2. PICK i \in 1..n : /\ IsStep(frames[i]) /\ Depth = frames[i].depth
                            /\ \A k \in (i + 1)..n : ~IsStep(frames[k])
      BY <2>2, <2>3, <2>7, <3>1 DEF Level
    <3>3. i \in StepFrames /\ \A k \in StepFrames : i >= k
      <4> SUFFICES ASSUME NEW k \in StepFrames, k > i PROVE FALSE
        BY <2>1, <2>2, <2>3, <3>2
      <4>1. k \in (i + 1)..n /\ IsStep(frames[k])
        BY <2>1, <2>2, <2>3
      <4> QED BY <3>2, <4>1
    <3>4. \A j \in StepFrames : (\A k \in StepFrames : j >= k) => j = i
      BY <2>1, <2>3, <3>3
    <3>5. Max(StepFrames) = i
      BY <3>3, <3>4 DEF Max
    <3> QED BY <3>2, <3>5
  <2>8. ASSUME AtTop PROVE \A i \in 1..Depth : s[i].kind \in {"root", "big", "small"}
    <3>1. frames = <<>> /\ mode \in {"start", "run"}
      BY <2>8 DEF AtTop, Running
    <3>2. ScriptSteps(s, Depth)
      BY <3>1, AtTopFacts
    <3> QED BY <3>2 DEF ScriptSteps
  <2> QED BY <2>5, <2>6, <2>7, <2>8 DEF HandlesMatch
<1> QED BY <1>1, HandlesInvariance, PTL

\* check_the_trace: the steps of the script, which bigstep and !! open and close without
\* saying so, only nest as that function demands, and so do the steps already recorded.
THEOREM AlwaysNested ==
  Spec => []NestingOK
<1>1. IInv /\ HInv => NestingOK
  <2> SUFFICES ASSUME IInv, HInv PROVE NestingOK
    OBVIOUS
  <2> DEFINE s == the_trace.step_stack
  <2>1. StackGood(s) /\ \A i \in DOMAIN s : (s[i].kind = "root") <=> (i = 1)
    BY OpenStepsTypes DEF HInv, StepsInv
  <2> HIDE DEF s
  <2>2. \A i \in DOMAIN s :
          /\ (s[i].kind = "root") <=> (i = 1)
          /\ i > 1 => s[i].kind \in MayContain(s[i - 1].kind)
          /\ \A j \in DOMAIN s[i].sub : s[i].sub[j].kind \in MayContain(s[i].kind)
    BY <2>1 DEF StackGood, SubsGood
  <2> QED BY <2>2 DEF NestingOK, s
<1> QED BY <1>1, HandlesInvariance, PTL

\* cur_ast_typed is a promise that the resources of the current AST are those of this
\* program: no restoration, mark, region or exception makes it a lie.
THEOREM AlwaysTypedSound ==
  Spec => []TypedSound
<1>1. IInv /\ HInv => TypedSound
  BY DEF HInv, RunInv, Typed, AstTyped, TypedSound
<1> QED BY <1>1, HandlesInvariance, PTL

\* step_backtrack: a region that was undone starts and ends on the same AST.
THEOREM BacktrackAlwaysNeutral ==
  Spec => []BacktrackNeutral
<1>1. IInv /\ HInv => BacktrackNeutral
  <2> SUFFICES ASSUME IInv, HInv PROVE BacktrackNeutral
    OBVIOUS
  <2> DEFINE s == the_trace.step_stack
  <2>1. s \in Seq(Steps) /\ StackGood(s)
    BY OpenStepsTypes DEF HInv, StepsInv
  <2>2. DOMAIN s = 1..Depth
    BY <2>1 DEF Depth
  <2> HIDE DEF s
  <2>3. \A i \in 1..Depth : \A j \in DOMAIN s[i].sub : Neutral(s[i].sub[j])
    BY <2>1, <2>2 DEF StackGood, SubsGood
  <2> QED BY <2>3 DEF BacktrackNeutral, Recorded, Neutral, s
<1> QED BY <1>1, HandlesInvariance, PTL

\* produce_output_and_exit: a diff is only shown between two steps of the script, of the
\* kind that was asked for.
THEOREM AlwaysExitAtScriptLevel ==
  Spec => []ExitAtScriptLevel
<1>1. IInv /\ HInv => ExitAtScriptLevel
  BY DEF HInv, EndInv
<1> QED BY <1>1, HandlesInvariance, PTL

-----------------------------------------------------------------------------
(* The steps left open by an exception, and the handlers.                   *)

\* A typing of the current program cannot fail.
TypingSucceeds == ~Recompute \/ Codes \subseteq Typable

LEMMA SameValidity ==
  ASSUME IInv, HInv, ValidityFixed, mode = "closing"
  PROVE  flags.check_validity = Top(the_trace).check_validity
<1> DEFINE s == the_trace.step_stack
<1>1. /\ FixedFlags(flags) /\ StackGood(s) /\ s \in Seq(Steps) /\ Len(s) > 0
  <2>1. /\ FixedFlags(flags) /\ Good(the_trace) /\ s \in Seq(Steps)
        /\ Depth = Len(s) /\ Depth > 0
    BY Handles
  <2> QED BY <2>1 DEF Good
<1> HIDE DEF s
<1>2. FixedFlags(s[Len(s)])
  BY <1>1 DEF StackGood
<1> QED BY <1>1, <1>2 DEF FixedFlags, Top, Last, s

\* What the closing of an interrupted step may raise.
LEMMA InterruptedStep ==
  ASSUME IInv, HInv, CloseInterrupted
  PROVE  LET t == CloseCurrent
         IN /\ \/ t.exn = "none" /\ UNCHANGED <<flags, frames, mode>>
               \/ t.exn # "none" /\ mode' = Outcome(t)
            /\ Good(t) /\ SameProgram(the_trace, t)
            /\ flags.check_validity = Top(the_trace).check_validity => t.exn # "trace"
            /\ ~flags.recompute \/ the_trace.cur_ast.code \in Typable =>
                 t.exn = "none" \/ t.exn = "trace"
<1> DEFINE t == close_step(the_trace, flags, FALSE, FALSE)
<1>1. mode = "closing" /\ mode # "done" /\ mode # "failed" /\ ~(Depth <= Frame.depth)
  BY DEF CloseInterrupted, AllClosed
<1>2. frames # <<>> /\ Frame.kind \in {"backtrack", "onfailure"}
  BY <1>1 DEF IInv, ControlInv, Frame
<1>3. Frame.depth \in Nat /\ Frame.depth > 1
  BY <1>1, <1>2, FrameFacts DEF StepFrameKinds
<1>4. /\ Neat(the_trace) /\ the_trace.exn = "none" /\ flags \in FlagValues /\ FixedFlags(flags)
      /\ Depth \in Nat /\ Depth = Len(the_trace.step_stack)
  BY <1>1, Handles
<1>5. Len(the_trace.step_stack) > 1
  BY <1>1, <1>3, <1>4
<1>6. Good(the_trace) /\ Closable(the_trace, flags)
  BY <1>4 DEF Neat, Closable
<1>7. /\ Good(t) /\ SameProgram(the_trace, t)
      /\ flags.check_validity = Top(the_trace).check_validity => t.exn # "trace"
      /\ (~flags.recompute \/ the_trace.cur_ast.code \in Typable) =>
           t.exn = "none" \/ t.exn = "trace"
  <2>1. \A d, e \in BOOLEAN :
          LET u == close_step(the_trace, flags, d, e)
          IN /\ Good(u) /\ SameProgram(the_trace, u)
             /\ flags.check_validity = Top(the_trace).check_validity => u.exn # "trace"
             /\ (~flags.recompute \/ the_trace.cur_ast.code \in Typable) =>
                  u.exn = "none" \/ u.exn = "trace"
    BY <1>4, <1>5, <1>6, CloseStepGood
  <2> QED BY <2>1
<1>8. \/ t.exn = "none" /\ UNCHANGED <<flags, frames, mode>>
      \/ t.exn # "none" /\ mode' = Outcome(t)
  BY DEF CloseInterrupted, CloseCurrent
<1> HIDE DEF t
<1> QED BY <1>7, <1>8 DEF t, CloseCurrent

\* Only the closing of a region starts from the mode "closing".
LEMMA ClosingSteps ==
  ASSUME mode = "closing", [Next]_vars
  PROVE  CloseInterrupted \/ RestoreSnapshot \/ UNCHANGED vars
<1>1. ~Running
  BY DEF Running
<1>2. ~Script
  BY <1>1 DEF Script, Start, EndScript, open_smallstep, open_bigstep, AtTop
<1>3. ~Edit
  BY <1>1 DEF Edit, apply, apply_marks, Justify, set_ast_for_target_iter, target_resolve_step,
     ensure_computed, restore_original, Raise, show_step, CanBuildAst
<1>4. ~Enter
  BY <1>1 DEF Enter, Transfo, step_group, trustme, without_substep_validity_checks,
     without_resource_computation_between_steps, preserves_resource_typing,
     failure_expected, step_backtrack, step_backtrack_on_failure, CanOpen
<1>5. ~Leave
  BY <1>1 DEF Leave, step_and_get_handle, LeaveTrustme, LeaveUnchecked, LeaveNoTyping,
     LeavePreserve, LeaveOnFailure, LeaveBacktrack, LeaveExpected, Leaving
<1>6. Unwind => CloseInterrupted \/ RestoreSnapshot
  BY DEF Unwind, Propagate, CatchExpected, CatchOnFailure, Crash, close_all_steps, error_step
<1>7. Stopped => UNCHANGED vars
  BY DEF Stopped
<1> QED BY <1>2, <1>3, <1>4, <1>5, <1>6, <1>7 DEF Next

LEMMA InvariantsHold ==
  Spec => [](IInv /\ HInv /\ FlagsInv)
<1> QED BY InitOK, InitGood, InitFlags, NextOK, NextGood, NextFlags, PTL DEF Spec

\* step_backtrack: where check_validity is the same for the whole script, every step that
\* an exception left open can be closed, and so can the region they were opened in.  The
\* hypothesis says that the script does not check validity, or never suspends the check:
\* run "interrupted" shows a script that does, and the internal error it ends with.
THEOREM InterruptedAlwaysClosed ==
  ASSUME ValidityFixed
  PROVE  Spec => InterruptedClosed
<1>1. IInv /\ HInv /\ [Next]_vars => [mode = "closing" => mode' # "failed"]_vars
  <2> SUFFICES ASSUME IInv, HInv, [Next]_vars, mode = "closing" PROVE mode' # "failed"
    OBVIOUS
  <2>1. flags.check_validity = Top(the_trace).check_validity
    BY SameValidity
  <2>2. CASE CloseInterrupted
    <3> DEFINE t == CloseCurrent
    <3>1. /\ t.exn # "trace"
          /\ (t.exn = "none" /\ UNCHANGED <<flags, frames, mode>>) \/ mode' = Outcome(t)
      BY <2>1, <2>2, InterruptedStep
    <3> HIDE DEF t
    <3> QED BY <3>1 DEF Outcome
  <2>3. CASE RestoreSnapshot
    <3> DEFINE f == [flags EXCEPT !.recompute = FALSE]
               w == UndoRegion(the_trace, Frame.ast, Frame.typed, f, flags', flags'.recompute,
                               Frame.discard)
    <3>1. Continue(w) /\ (f.check_validity = Top(the_trace).check_validity => w.exn # "trace")
      BY <2>3, RegionUndone
    <3>2. f.check_validity = flags.check_validity
      <4>1. flags \in FlagValues
        BY Handles
      <4> QED BY <4>1, ClearFlag
    <3> HIDE DEF w, f
    <3> QED BY <2>1, <3>1, <3>2 DEF Continue, Outcome
  <2>4. CASE UNCHANGED vars
    BY <2>4 DEF vars
  <2> QED BY <2>2, <2>3, <2>4, ClosingSteps
<1> QED BY <1>1, HandlesInvariance, PTL DEF Spec, InterruptedClosed

\* step_backtrack_on_failure: once a handler has closed the steps left open, it puts back
\* the program on which its region was entered, whatever the region did, and whatever the
\* typing of the restored AST raises.
LEMMA HandlerRestores ==
  ASSUME IInv, HInv, RestoreSnapshot
  PROVE  the_trace'.cur_ast.code = Frame.ast.code
<1> DEFINE w == UndoRegion(the_trace, Frame.ast, Frame.typed, [flags EXCEPT !.recompute = FALSE],
                           flags', flags'.recompute, Frame.discard)
<1>1. Continue(w) /\ Undone(the_trace, Frame.ast, w)
  BY RegionUndone
<1> HIDE DEF w
<1>2. w \in Traces /\ w.cur_ast.code = Frame.ast.code
  BY <1>1, TopOfWf DEF Undone, Good
<1> QED BY <1>1, <1>2 DEF Continue, Traces

\* step_backtrack_on_failure: a handler ends with the program on which its region was
\* entered, if the closing of the interrupted steps cannot raise.  It does not where
\* check_validity is the same for the whole script, and where no typing fails: run
\* "recoveryfails" shows that a typing that fails there makes the handler give up.
THEOREM HandlersAlwaysRestore ==
  ASSUME ValidityFixed, TypingSucceeds
  PROVE  Spec => OnFailureRestores
<1>1. IInv /\ HInv /\ FlagsInv /\ [Next]_vars =>
        [mode = "closing" /\ InFrame("onfailure") /\ frames' # frames
           => the_trace'.cur_ast.code = Frame.ast.code]_vars
  <2> SUFFICES ASSUME IInv, HInv, FlagsInv, [Next]_vars, mode = "closing", frames' # frames
               PROVE  the_trace'.cur_ast.code = Frame.ast.code
    OBVIOUS
  <2>1. flags.check_validity = Top(the_trace).check_validity
    BY SameValidity
  <2>2. ~flags.recompute \/ the_trace.cur_ast.code \in Typable
    <3>1. flags.recompute => Recompute
      BY DEF FlagsInv, FlagsUnder
    <3>2. the_trace \in Traces
      BY Handles, TopOfWf DEF Good
    <3>3. the_trace.cur_ast.code \in Codes
      BY <3>2 DEF Traces, Asts
    <3> QED BY <3>1, <3>3 DEF TypingSucceeds
  <2>3. ~CloseInterrupted
    <3> DEFINE t == CloseCurrent
    <3>1. CloseInterrupted => t.exn = "none" \/ t.exn = "trace"
      BY <2>2, InterruptedStep
    <3>2. CloseInterrupted =>
            /\ t.exn # "trace"
            /\ (t.exn = "none" /\ UNCHANGED <<flags, frames, mode>>) \/ t.exn # "none"
      BY <2>1, InterruptedStep
    <3> HIDE DEF t
    <3> QED BY <3>1, <3>2
  <2>4. CASE UNCHANGED vars
    BY <2>4 DEF vars
  <2> QED BY <2>3, <2>4, ClosingSteps, HandlerRestores
<1> QED BY <1>1, InvariantsHold, PTL DEF Spec, OnFailureRestores

-----------------------------------------------------------------------------
(* The control stack, seen as scopes.                                       *)

ScopeOf(call) == [kind |-> ScopeKind(call.kind), saved |-> call.ast.code]

LEMMA ScopesTypes ==
  ASSUME NEW S, NEW calls \in Seq(S)
  PROVE  /\ ScopesOf(calls) \in Seq({ScopeOf(x) : x \in S})
         /\ Len(ScopesOf(calls)) = Len(calls) /\ DOMAIN ScopesOf(calls) = 1..Len(calls)
         /\ \A i \in 1..Len(calls) : ScopesOf(calls)[i] = ScopeOf(calls[i])
<1>1. DOMAIN calls = 1..Len(calls) /\ Len(calls) \in Nat /\ \A i \in 1..Len(calls) : calls[i] \in S
  OBVIOUS
<1>2. ScopesOf(calls) = [i \in 1..Len(calls) |-> ScopeOf(calls[i])]
  BY <1>1 DEF ScopesOf, ScopeOf
<1>3. ScopesOf(calls) \in [1..Len(calls) -> {ScopeOf(x) : x \in S}]
  BY <1>1, <1>2
<1>4. ScopesOf(calls) \in Seq({ScopeOf(x) : x \in S})
  BY <1>1, <1>3
<1>5. DOMAIN ScopesOf(calls) = 1..Len(calls)
  BY <1>2
<1>6. Len(ScopesOf(calls)) = Len(calls)
  BY <1>1, <1>4, <1>5
<1> QED BY <1>2, <1>4, <1>5, <1>6

\* A combinator is called.
LEMMA ScopePushed ==
  ASSUME NEW calls \in Seq(Frames), NEW x \in Frames
  PROVE  ScopesOf(Append(calls, x)) = Append(ScopesOf(calls), ScopeOf(x))
<1> DEFINE s == ScopesOf(calls)
           t == ScopesOf(Append(calls, x))
           R == {ScopeOf(y) : y \in Frames}
           n == Len(calls)
<1>1. /\ Append(calls, x) \in Seq(Frames) /\ n \in Nat /\ Len(Append(calls, x)) = n + 1
      /\ Append(calls, x)[n + 1] = x /\ \A i \in 1..n : Append(calls, x)[i] = calls[i]
  OBVIOUS
<1>2. /\ s \in Seq(R) /\ Len(s) = n /\ \A i \in 1..n : s[i] = ScopeOf(calls[i])
  BY ScopesTypes
<1>3. /\ t \in Seq(R) /\ Len(t) = n + 1
      /\ \A i \in 1..(n + 1) : t[i] = ScopeOf(Append(calls, x)[i])
  BY <1>1, ScopesTypes
<1>4. ScopeOf(x) \in R
  OBVIOUS
<1> HIDE DEF s, t, R, n
<1>5. /\ Append(s, ScopeOf(x)) \in Seq(R) /\ Len(Append(s, ScopeOf(x))) = n + 1
      /\ \A i \in 1..n : Append(s, ScopeOf(x))[i] = s[i]
      /\ Append(s, ScopeOf(x))[n + 1] = ScopeOf(x)
  BY <1>1, <1>2, <1>4
<1>6. \A i \in 1..(n + 1) : t[i] = Append(s, ScopeOf(x))[i]
  <2> SUFFICES ASSUME NEW i \in 1..(n + 1) PROVE t[i] = Append(s, ScopeOf(x))[i]
    OBVIOUS
  <2>1. CASE i = n + 1
    BY <1>1, <1>3, <1>5, <2>1
  <2>2. CASE i # n + 1
    <3>1. i \in 1..n
      BY <1>1, <2>2
    <3> QED BY <1>1, <1>2, <1>3, <1>5, <3>1
  <2> QED BY <2>1, <2>2
<1>7. t = Append(s, ScopeOf(x))
  BY <1>3, <1>5, <1>6, SeqEqual
<1> QED BY <1>7 DEF s, t

\* A combinator is left.
LEMMA ScopePopped ==
  ASSUME NEW calls \in Seq(Frames), calls # <<>>
  PROVE  /\ ScopesOf(calls) # <<>>
         /\ ScopesOf(calls)[Len(ScopesOf(calls))] = ScopeOf(Last(calls))
         /\ ScopesOf(Front(calls)) = SubSeq(ScopesOf(calls), 1, Len(ScopesOf(calls)) - 1)
<1> DEFINE s == ScopesOf(calls)
           t == ScopesOf(Front(calls))
           R == {ScopeOf(y) : y \in Frames}
           n == Len(calls)
<1>1. /\ Front(calls) \in Seq(Frames) /\ n \in Nat /\ n > 0 /\ Len(Front(calls)) = n - 1
      /\ Last(calls) = calls[n] /\ \A i \in 1..(n - 1) : Front(calls)[i] = calls[i]
  BY FrontLast DEF Last
<1>2. /\ s \in Seq(R) /\ Len(s) = n /\ \A i \in 1..n : s[i] = ScopeOf(calls[i])
  BY ScopesTypes
<1>3. /\ t \in Seq(R) /\ Len(t) = n - 1
      /\ \A i \in 1..(n - 1) : t[i] = ScopeOf(Front(calls)[i])
  BY <1>1, ScopesTypes
<1> HIDE DEF s, t, R, n
<1>4. s # <<>> /\ s[Len(s)] = ScopeOf(Last(calls))
  BY <1>1, <1>2
<1>5. /\ SubSeq(s, 1, n - 1) \in Seq(R) /\ Len(SubSeq(s, 1, n - 1)) = n - 1
      /\ \A i \in 1..(n - 1) : SubSeq(s, 1, n - 1)[i] = s[i]
  BY <1>1, <1>2
<1>6. \A i \in 1..(n - 1) : t[i] = SubSeq(s, 1, n - 1)[i]
  <2> SUFFICES ASSUME NEW i \in 1..(n - 1) PROVE t[i] = SubSeq(s, 1, n - 1)[i]
    OBVIOUS
  <2>1. i \in 1..n
    BY <1>1
  <2> QED BY <1>1, <1>2, <1>3, <1>5, <2>1
<1>7. t = SubSeq(s, 1, n - 1)
  BY <1>3, <1>5, <1>6, SeqEqual
<1> QED BY <1>2, <1>4, <1>7 DEF s, t

-----------------------------------------------------------------------------
(* The steps of UndoScopes.                                                 *)

LEMMA ProgramType ==
  ASSUME IInv
  PROVE  the_trace.cur_ast.code \in Codes /\ frames \in Seq(Frames)
<1>1. the_trace \in Traces /\ frames \in Seq(Frames)
  BY DEF IInv, TraceInv, Wf, Reported, ControlInv, FramesOK
<1> QED BY <1>1 DEF Traces, Asts

LEMMA EditProgram ==
  ASSUME IInv', ~Raising, UNCHANGED frames
  PROVE  Undo!Edit
<1>1. the_trace'.cur_ast.code \in Codes
  <2>1. the_trace' \in Traces
    BY DEF IInv, TraceInv, Wf, Reported
  <2> QED BY <2>1 DEF Traces, Asts
<1>2. Raising' \in BOOLEAN
  BY DEF Raising
<1> QED BY <1>1, <1>2 DEF Undo!Edit

LEMMA EnterScope ==
  ASSUME IInv, ~Raising, ~Raising', the_trace'.cur_ast = the_trace.cur_ast,
         NEW x \in Frames, x.ast = the_trace.cur_ast, x.kind # "expected",
         frames' = Append(frames, x)
  PROVE  \E kind \in {"always", "onraise", "plain"} : Undo!Enter(kind)
<1>1. ScopeOf(x) = [kind |-> ScopeKind(x.kind), saved |-> the_trace.cur_ast.code]
  BY DEF ScopeOf
<1>2. ScopesOf(frames') = Append(ScopesOf(frames), ScopeOf(x))
  BY ProgramType, ScopePushed
<1>3. ScopeKind(x.kind) \in {"always", "onraise", "plain"}
  BY DEF ScopeKind
<1>4. Undo!Enter(ScopeKind(x.kind))
  BY <1>1, <1>2 DEF Undo!Enter, Undo!Scope, Raising
<1> QED BY <1>3, <1>4

\* A combinator that is left.
LEMMA LeaveScope ==
  ASSUME IInv, frames # <<>>, frames' = Front(frames)
  PROVE  /\ Undo!Pop
         /\ Undo!Innermost.kind = ScopeKind(Frame.kind)
         /\ Undo!Innermost.saved = Frame.ast.code
<1>1. /\ ScopesOf(frames) # <<>>
      /\ ScopesOf(frames)[Len(ScopesOf(frames))] = ScopeOf(Frame)
      /\ ScopesOf(frames') = SubSeq(ScopesOf(frames), 1, Len(ScopesOf(frames)) - 1)
  BY ProgramType, ScopePopped DEF Frame
<1> QED BY <1>1 DEF Undo!Pop, Undo!Innermost, ScopeOf

LEMMA KeepScope ==
  ASSUME IInv, frames # <<>>, frames' = Front(frames), ~Raising,
         Frame.kind \notin {"backtrack", "expected"},
         the_trace'.cur_ast.code = the_trace.cur_ast.code
  PROVE  Undo!Keep
<1>1. /\ Undo!Pop /\ Undo!Innermost.kind = ScopeKind(Frame.kind)
  BY LeaveScope
<1>2. ScopeKind(Frame.kind) \in {"onraise", "plain"}
  BY DEF ScopeKind
<1>3. Raising' \in BOOLEAN
  BY DEF Raising
<1> QED BY <1>1, <1>2, <1>3 DEF Undo!Keep

LEMMA AbandonScope ==
  ASSUME IInv, frames # <<>>, frames' = Front(frames), Raising' = TRUE,
         the_trace'.cur_ast.code = the_trace.cur_ast.code
  PROVE  Undo!Abandon
BY LeaveScope DEF Undo!Abandon

\* Neither the program nor the scopes change, nor whether an exception is pending.
LEMMA SameScopes ==
  ASSUME UNCHANGED frames, the_trace'.cur_ast.code = the_trace.cur_ast.code,
         Raising' = Raising
  PROVE  UNCHANGED Undo!vars
BY DEF Undo!vars

-----------------------------------------------------------------------------
(* The actions of Trace.                                                    *)

\* Run.script, the steps of the script and the edits.
LEMMA ScriptUndo ==
  ASSUME IInv, IInv', Script \/ Edit
  PROVE  Undo!Next
<1>1. CASE Start
  <2>1. mode = "start" /\ mode' = "run" /\ mode # "done" /\ ~Raising /\ ~Raising'
    BY <1>1 DEF Start, Raising
  <2>2. CASE frames' = frames
    BY <2>1, <2>2, EditProgram DEF Undo!Next
  <2>3. CASE /\ the_trace' = open_step(the_trace, flags, "small", FALSE, FALSE)
             /\ frames' = Push(open_step(the_trace, flags, "small", FALSE, FALSE), "step", FALSE)
    <3> DEFINE t == open_step(the_trace, flags, "small", FALSE, FALSE)
    <3>1. Wf(t) /\ t.cur_ast = the_trace.cur_ast
      <4>1. Wf(t)
        BY <2>1, Facts, OpenStepWf DEF Kinds
      <4>2. t.cur_ast = the_trace.cur_ast
        BY <2>1, Facts DEF open_step, Traces
      <4> QED BY <4>1, <4>2
    <3>2. the_trace' = t
      BY <2>3
    <3> HIDE DEF t
    <3>3. PICK x \in Frames : /\ Push(t, "step", FALSE) = Append(frames, x)
                              /\ x.ast = the_trace.cur_ast /\ x.kind = "step"
      <4>1. "step" \in FrameKinds /\ FALSE \in BOOLEAN
        BY DEF FrameKinds
      <4> QED BY <2>1, <3>1, <4>1, PushedFrame
    <3>4. frames' = Append(frames, x)
      BY <2>3, <3>3 DEF t
    <3> QED BY <2>1, <3>1, <3>2, <3>3, <3>4, EnterScope DEF Undo!Next
  <2> QED BY <1>1, <2>2, <2>3 DEF Start
<1>2. EndScript \/ (\E hit, parse_again \in BOOLEAN :
        open_smallstep(hit, parse_again) \/ open_bigstep(hit, parse_again))
        => mode = "run" /\ UNCHANGED frames
  BY DEF EndScript, open_smallstep, open_bigstep, AtTop, Running, AndThen, OpenScriptStep,
     produce_output_and_exit
<1>3. Edit => mode = "run" /\ UNCHANGED frames
  BY DEF Edit, apply, apply_marks, Justify, set_ast_for_target_iter, target_resolve_step,
     ensure_computed, restore_original, Raise, show_step, CanBuildAst, Running
<1>4. CASE mode = "run" /\ UNCHANGED frames
  BY <1>4, EditProgram DEF Raising, Undo!Next
<1> QED BY <1>1, <1>2, <1>3, <1>4 DEF Script

\* The combinators that open a step around their body.
LEMMA StepScope ==
  ASSUME IInv, Running, mode' = mode,
         NEW kind \in {"transfo", "group", "trustme", "backtrack"},
         NEW call \in FrameKinds \ {"expected"}, NEW discard \in BOOLEAN,
         the_trace' = open_step(the_trace, flags, kind, FALSE, FALSE),
         frames' = Push(the_trace', call, discard)
  PROVE  Undo!Next
<1> DEFINE t == open_step(the_trace, flags, kind, FALSE, FALSE)
<1>1. mode # "done" /\ ~Raising /\ ~Raising'
  BY DEF Running, Raising
<1>2. Wf(t)
  BY <1>1, Facts, OpenStepWf DEF Kinds
<1>3. t.cur_ast = the_trace.cur_ast
  BY <1>1, Facts DEF open_step, Traces
<1>4. the_trace' = t /\ frames' = Push(t, call, discard)
  OBVIOUS
<1> HIDE DEF t
<1>5. PICK x \in Frames : /\ Push(t, call, discard) = Append(frames, x)
                          /\ x.ast = the_trace.cur_ast /\ x.kind = call
  BY <1>1, <1>2, PushedFrame
<1> QED BY <1>1, <1>3, <1>4, <1>5, EnterScope DEF Undo!Next

\* The combinators that only change a flag around their body.
LEMMA FlagScope ==
  ASSUME IInv, Running, NEW call \in {"unchecked", "notyping", "preserve"}, NEW f,
         EnterFlag(call, f)
  PROVE  Undo!Next
<1>1. /\ mode # "done" /\ mode' = mode /\ ~Raising /\ ~Raising' /\ the_trace' = the_trace
      /\ frames' = Push(the_trace, call, FALSE)
  BY DEF Running, Raising, EnterFlag
<1>2. call \in FrameKinds /\ call # "expected" /\ FALSE \in BOOLEAN /\ Wf(the_trace)
  BY <1>1, Facts DEF FrameKinds
<1>3. PICK x \in Frames : /\ Push(the_trace, call, FALSE) = Append(frames, x)
                          /\ x.ast = the_trace.cur_ast /\ x.kind = call
  BY <1>1, <1>2, PushedFrame
<1> QED BY <1>1, <1>2, <1>3, EnterScope DEF Undo!Next

\* failure_expected: the scope of step_backtrack, and inside that of the try.
LEMMA ExpectScope ==
  ASSUME IInv, failure_expected
  PROVE  Undo!Next
<1> DEFINE t == open_step(the_trace, flags, "backtrack", FALSE, FALSE)
           outer == Push(t, "backtrack", FALSE)
<1>1. /\ Running /\ mode' = mode /\ the_trace' = t
      /\ frames' = Append(outer, [Last(outer) EXCEPT !.kind = "expected"])
  BY DEF failure_expected, CanOpen
<1>2. mode # "done" /\ ~Raising /\ ~Raising'
  BY <1>1 DEF Running, Raising
<1>3. Wf(t)
  BY <1>2, Facts, OpenStepWf DEF Kinds
<1>4. t.cur_ast = the_trace.cur_ast
  BY <1>2, Facts DEF open_step, Traces
<1> HIDE DEF t
<1>5. PICK x \in Frames : /\ outer = Append(frames, x)
                          /\ x.ast = the_trace.cur_ast /\ x.kind = "backtrack"
  <2>1. "backtrack" \in FrameKinds /\ FALSE \in BOOLEAN
    BY DEF FrameKinds
  <2> QED BY <1>2, <1>3, <2>1, PushedFrame
<1> HIDE DEF outer
<1> DEFINE y == [x EXCEPT !.kind = "expected"]
<1>6. y \in Frames /\ y.ast = the_trace.cur_ast /\ y.kind = "expected"
  BY <1>5 DEF Frames, FrameKinds
<1>7. frames \in Seq(Frames) /\ outer \in Seq(Frames) /\ Last(outer) = x
  BY <1>5, ProgramType DEF Last
<1>8. frames' = Append(outer, y)
  BY <1>1, <1>7
<1> HIDE DEF y
<1>9. /\ ScopesOf(outer) = Append(ScopesOf(frames), ScopeOf(x))
      /\ ScopesOf(frames') = Append(ScopesOf(outer), ScopeOf(y))
  BY <1>5, <1>6, <1>7, <1>8, ScopePushed
<1>10. /\ ScopeOf(x) = [kind |-> "always", saved |-> the_trace.cur_ast.code]
       /\ ScopeOf(y) = [kind |-> "expecting", saved |-> the_trace.cur_ast.code]
  BY <1>5, <1>6 DEF ScopeOf, ScopeKind
<1>11. Undo!Expect
  BY <1>1, <1>2, <1>4, <1>9, <1>10 DEF Undo!Expect, Undo!Scope, Raising
<1> QED BY <1>11 DEF Undo!Next

LEMMA EnterUndo ==
  ASSUME IInv, Enter
  PROVE  Undo!Next
<1>1. Running
  BY DEF Enter, Transfo, step_group, trustme, without_substep_validity_checks,
     without_resource_computation_between_steps, preserves_resource_typing, failure_expected,
     step_backtrack, step_backtrack_on_failure, CanOpen
<1>2. ASSUME NEW call \in {"step", "backtrack", "onfailure"},
             NEW kind \in {"transfo", "group", "backtrack"},
             NEW discard \in BOOLEAN, EnterStep(call, kind, FALSE, discard)
      PROVE  Undo!Next
  <2>1. /\ the_trace' = open_step(the_trace, flags, kind, FALSE, FALSE)
        /\ frames' = Push(the_trace', call, discard) /\ mode' = mode
    BY <1>2 DEF EnterStep
  <2>2. call \in FrameKinds \ {"expected"}
    BY DEF FrameKinds
  <2> QED BY <1>1, <2>1, <2>2, StepScope
<1>3. CASE Transfo \/ step_group
  <2>1. EnterStep("step", "transfo", FALSE, FALSE) \/ EnterStep("step", "group", FALSE, FALSE)
    BY <1>3 DEF Transfo, step_group
  <2>2. \A b \in BOOLEAN, kind \in {"transfo", "group"} :
          EnterStep("step", kind, FALSE, b) => Undo!Next
    BY <1>2
  <2> QED BY <2>1, <2>2
<1>4. CASE \E discard \in BOOLEAN : step_backtrack(discard) \/ step_backtrack_on_failure(discard)
  BY <1>2, <1>4 DEF step_backtrack, step_backtrack_on_failure
<1>5. CASE trustme
  <2>1. /\ the_trace' = open_step(the_trace, flags, "trustme", FALSE, FALSE)
        /\ frames' = Push(the_trace', "trustme", FALSE) /\ mode' = mode
    BY <1>5 DEF trustme
  <2>2. "trustme" \in FrameKinds \ {"expected"}
    BY DEF FrameKinds
  <2>3. \A b \in BOOLEAN : frames' = Push(the_trace', "trustme", b) => Undo!Next
    BY <1>1, <2>1, <2>2, StepScope
  <2> QED BY <2>1, <2>3
<1>6. CASE without_substep_validity_checks
  BY <1>1, <1>6, FlagScope DEF without_substep_validity_checks
<1>7. CASE without_resource_computation_between_steps
  BY <1>1, <1>7, FlagScope DEF without_resource_computation_between_steps
<1>8. CASE preserves_resource_typing
  BY <1>1, <1>8, FlagScope DEF preserves_resource_typing
<1>9. CASE failure_expected
  BY <1>9, ExpectScope
<1> QED BY <1>3, <1>4, <1>5, <1>6, <1>7, <1>8, <1>9 DEF Enter

\* The body of a combinator returns: what it does to close keeps the program.
LEMMA LeaveUndo ==
  ASSUME IInv, IInv', HInv, Leave
  PROVE  Undo!Next
<1>1. /\ Running /\ frames # <<>> /\ mode # "done" /\ ~Raising
  BY DEF Leave, step_and_get_handle, LeaveTrustme, LeaveUnchecked, LeaveNoTyping, LeavePreserve,
     LeaveOnFailure, LeaveBacktrack, LeaveExpected, Leaving, InFrame, Running, Raising
<1>2. /\ flags \in FlagValues /\ FixedFlags(flags) /\ Good(the_trace) /\ the_trace \in Traces
      /\ the_trace.exn = "none"
  BY <1>1, Handles, Facts
<1>3. RestoreValidityFlag \/ RestoreTypingFlag => flags' \in FlagValues /\ FixedFlags(flags')
  <2>1. /\ Frame.flags \in FlagValues /\ FixedFlags(Frame.flags)
        /\ Frame.flags.check_validity \in BOOLEAN /\ Frame.flags.recompute \in BOOLEAN
    BY <1>1, <1>2, FrameFacts, FrameHandles, Handles
  <2>2. \A v \in BOOLEAN : /\ [flags EXCEPT !.check_validity = v] \in FlagValues
                           /\ [flags EXCEPT !.recompute = v] \in FlagValues
    BY <1>2 DEF FlagValues
  <2>3. RestoreValidityFlag \/ RestoreTypingFlag => flags' \in FlagValues
    BY <2>1, <2>2, Zenon DEF RestoreValidityFlag, RestoreTypingFlag
  <2> QED BY <1>2, <2>1, <2>3, RestoredFixed DEF RestoreValidityFlag, RestoreTypingFlag
<1>4. ASSUME NEW t, t \in Traces, Continue(t)
      PROVE  the_trace'.cur_ast = t.cur_ast
  BY <1>4 DEF Continue, Traces
<1>5. ASSUME Frame.kind \in {"step", "trustme", "onfailure"}, frames' = Front(frames),
             NEW f \in FlagValues, FixedFlags(f),
             Continue(CloseChecked(the_trace, f, Frame.depth, FALSE))
      PROVE  Undo!Keep
  <2> DEFINE t == CloseChecked(the_trace, f, Frame.depth, FALSE)
  <2>1. Neat(t) /\ SameProgram(the_trace, t)
    BY <1>1, <1>5, ClosedBody
  <2>2. Continue(t)
    BY <1>5
  <2> HIDE DEF t
  <2>3. the_trace'.cur_ast.code = the_trace.cur_ast.code
    BY <1>4, <2>1, <2>2, TopOfWf DEF Neat, Good, SameProgram
  <2> QED BY <1>1, <1>5, <2>3, KeepScope
<1>6. CASE step_and_get_handle \/ LeaveOnFailure
  <2>1. /\ Frame.kind \in {"step", "trustme", "onfailure"} /\ frames' = Front(frames)
        /\ Continue(CloseChecked(the_trace, flags, Frame.depth, FALSE))
    BY <1>6 DEF step_and_get_handle, LeaveOnFailure, Leaving, InFrame
  <2> QED BY <1>2, <1>5, <2>1 DEF Undo!Next
<1>7. CASE LeaveTrustme
  <2>1. /\ Frame.kind \in {"step", "trustme", "onfailure"} /\ frames' = Front(frames)
        /\ RestoreValidityFlag
        /\ Continue(CloseChecked(the_trace, flags', Frame.depth, FALSE))
    BY <1>7 DEF LeaveTrustme, Leaving, InFrame
  <2> QED BY <1>3, <1>5, <2>1 DEF Undo!Next
<1>8. CASE LeaveUnchecked \/ LeavePreserve
  <2>1. /\ Frame.kind \in {"unchecked", "preserve"} /\ frames' = Front(frames)
        /\ \/ the_trace' = the_trace
           \/ the_trace' = [the_trace EXCEPT !.cur_ast_typed = Frame.typed]
    BY <1>8 DEF LeaveUnchecked, LeavePreserve, Leaving, InFrame
  <2>2. the_trace'.cur_ast.code = the_trace.cur_ast.code
    BY <1>2, <2>1 DEF Traces
  <2> QED BY <1>1, <2>1, <2>2, KeepScope DEF Undo!Next
<1>9. CASE LeaveNoTyping
  <2> DEFINE r == recompute_resources(the_trace, flags')
             t == IF flags'.recompute THEN r ELSE the_trace
  <2>1. /\ Frame.kind = "notyping" /\ frames' = Front(frames) /\ RestoreTypingFlag /\ Continue(t)
    BY <1>9 DEF LeaveNoTyping, Leaving, InFrame
  <2>2. Good(r) /\ SameProgram(the_trace, r)
    BY <1>2, <1>3, <2>1, RecomputeGood
  <2> HIDE DEF r
  <2>3. t \in Traces /\ t.cur_ast.code = the_trace.cur_ast.code
    BY <1>2, <2>2, TopOfWf DEF Good, SameProgram
  <2> HIDE DEF t
  <2>4. the_trace'.cur_ast.code = the_trace.cur_ast.code
    BY <1>4, <2>1, <2>3
  <2> QED BY <1>1, <2>1, <2>4, KeepScope DEF Undo!Next
<1>10. CASE LeaveBacktrack
  <2>1. UNCHANGED frames
    BY <1>10 DEF LeaveBacktrack
  <2> QED BY <1>1, <2>1, EditProgram DEF Undo!Next
<1>11. CASE LeaveExpected
  <2>1. frames' = Front(frames) /\ mode' = "raise" /\ the_trace' = the_trace
    BY <1>11 DEF LeaveExpected, Leaving
  <2>2. Raising' = TRUE
    BY <2>1 DEF Raising
  <2> QED BY <1>1, <2>1, <2>2, AbandonScope DEF Undo!Next
<1> QED BY <1>6, <1>7, <1>8, <1>9, <1>10, <1>11 DEF Leave

\* The end of a region that undoes its edits, and the exceptions.
LEMMA UnwindUndo ==
  ASSUME IInv, IInv', HInv, Unwind
  PROVE  [Undo!Next]_Undo!vars
<1>1. CASE CloseInterrupted
  <2> DEFINE t == CloseCurrent
  <2>1. /\ mode = "closing" /\ the_trace' = [t EXCEPT !.exn = "none"]
        /\ \/ t.exn = "none" /\ UNCHANGED <<frames, mode>>
           \/ t.exn # "none" /\ frames' = Front(frames) /\ mode' = Outcome(t)
    BY <1>1 DEF CloseInterrupted
  <2>2. t \in Traces /\ t.cur_ast.code = the_trace.cur_ast.code
    <3>1. Good(t) /\ SameProgram(the_trace, t)
      BY <1>1, InterruptedStep
    <3> HIDE DEF t
    <3> QED BY <3>1, TopOfWf DEF Good, SameProgram
  <2> HIDE DEF t
  <2>3. the_trace'.cur_ast.code = the_trace.cur_ast.code
    BY <2>1, <2>2 DEF Traces
  <2>4. frames # <<>>
    BY <2>1 DEF IInv, ControlInv
  <2>5. CASE t.exn = "none" /\ UNCHANGED <<frames, mode>>
    <3>1. Raising' = Raising
      BY <2>5 DEF Raising, InFrame, Frame
    <3> QED BY <2>3, <2>5, <3>1, SameScopes
  <2>6. CASE t.exn # "none" /\ frames' = Front(frames) /\ mode' = Outcome(t)
    <3>1. Raising' = TRUE
      BY <2>6 DEF Raising, Outcome
    <3> QED BY <2>3, <2>4, <2>6, <3>1, AbandonScope DEF Undo!Next
  <2> QED BY <2>1, <2>5, <2>6
<1>2. CASE RestoreSnapshot
  <2>1. mode = "closing" /\ frames' = Front(frames)
    BY <1>2 DEF RestoreSnapshot
  <2>2. frames # <<>> /\ Frame.kind \in {"backtrack", "onfailure"}
    BY <2>1 DEF IInv, ControlInv, Frame
  <2>3. /\ Undo!Pop /\ Undo!Innermost.kind = ScopeKind(Frame.kind)
        /\ Undo!Innermost.saved = Frame.ast.code
    BY <2>1, <2>2, LeaveScope
  <2>4. the_trace'.cur_ast.code = Frame.ast.code
    BY <1>2, HandlerRestores
  <2>5. /\ ScopeKind(Frame.kind) \in {"always", "onraise"}
        /\ Raising = (ScopeKind(Frame.kind) = "onraise")
    BY <2>1, <2>2 DEF ScopeKind, Raising, InFrame
  <2>6. Raising' \in BOOLEAN
    BY DEF Raising
  <2> QED BY <2>3, <2>4, <2>5, <2>6 DEF Undo!Next, Undo!Undo
<1>3. CASE Propagate
  <2>1. /\ frames # <<>> /\ frames' = Front(frames) /\ the_trace' = the_trace
        /\ mode' = "raise"
    BY <1>3 DEF Propagate
  <2>2. Raising' = TRUE
    BY <2>1 DEF Raising
  <2> QED BY <2>1, <2>2, AbandonScope DEF Undo!Next
<1>4. CASE CatchExpected
  <2>1. /\ mode = "raise" /\ frames # <<>> /\ Frame.kind = "expected"
        /\ frames' = Front(frames) /\ mode' = "closing" /\ the_trace' = the_trace
    BY <1>4 DEF CatchExpected, InFrame
  <2>2. Undo!Pop /\ Undo!Innermost.kind = "expecting"
    BY <2>1, LeaveScope DEF ScopeKind
  <2>3. Front(frames) # <<>> /\ Last(Front(frames)).kind = "backtrack"
    BY <2>1, FrameFacts
  <2>4. Raising /\ Raising' = FALSE
    BY <2>1, <2>3 DEF Raising, InFrame, Frame
  <2> QED BY <2>1, <2>2, <2>4 DEF Undo!Next, Undo!Caught
<1>5. CASE CatchOnFailure \/ Crash
  <2>1. /\ mode = "raise" /\ UNCHANGED <<frames, the_trace>>
        /\ mode' = "crashed" \/ (mode' = "closing" /\ InFrame("onfailure"))
    BY <1>5 DEF CatchOnFailure, Crash
  <2>2. Raising' = Raising
    BY <2>1 DEF Raising, InFrame, Frame
  <2> QED BY <2>1, <2>2, SameScopes
<1>6. CASE \E marked \in BOOLEAN : error_step(marked)
  <2>1. PICK marked \in BOOLEAN : error_step(marked)
    BY <1>6
  <2> DEFINE old == the_trace.cur_ast
             new == PutNew(the_trace, old.code, old.ann, the_trace.cur_ast_typed)
             u == IF marked THEN new ELSE the_trace
  <2>2. /\ mode = "raise" /\ mode' = "closing_all" /\ frames = <<>> /\ UNCHANGED frames
        /\ the_trace' = LeafStep(u, "error", old, u.cur_ast, flags.check_validity)
    BY <2>1 DEF error_step
  <2>3. the_trace'.cur_ast.code = the_trace.cur_ast.code
    <3>1. /\ Wf(the_trace) /\ the_trace \in Traces /\ old \in Asts /\ old.code \in Codes
          /\ old.ann \in {"none", "stale", "typed", "error"}
          /\ the_trace.cur_ast_typed \in BOOLEAN /\ flags.check_validity \in BOOLEAN
      BY <2>2, Facts, FlagsOK
    <3>2. Wf(new) /\ new.cur_ast.code = old.code
      <4>1. Wf(new)
        BY <3>1, PutNewWf
      <4>2. new.cur_ast.code = old.code
        BY <3>1 DEF PutNew, Traces
      <4> QED BY <4>1, <4>2
    <3> HIDE DEF new
    <3>3. Wf(u) /\ u.cur_ast.code = old.code
      BY <3>1, <3>2
    <3>4. u.cur_ast \in Asts /\ "error" \in Kinds
      BY <3>3, TopOfWf DEF Wf, Traces, Kinds
    <3> HIDE DEF u, old
    <3> QED BY <2>2, <3>1, <3>3, <3>4, LeafStepWf DEF old
  <2>4. ScopesOf(frames) = <<>>
    BY <2>2 DEF ScopesOf
  <2>5. Raising /\ Raising' = FALSE
    BY <2>2 DEF Raising
  <2> QED BY <2>2, <2>3, <2>4, <2>5 DEF Undo!Next, Undo!Report
<1>7. CASE close_all_steps
  <2>1. mode = "closing_all" /\ UNCHANGED frames
    BY <1>7 DEF close_all_steps
  <2>2. ~Raising
    BY <2>1 DEF Raising
  <2> QED BY <2>1, <2>2, EditProgram DEF Undo!Next
<1> QED BY <1>1, <1>2, <1>3, <1>4, <1>5, <1>6, <1>7 DEF Unwind

-----------------------------------------------------------------------------
(* The theorem.                                                             *)

LEMMA InitUndo ==
  Init => Undo!Init
<1> SUFFICES ASSUME Init PROVE Undo!Init
  OBVIOUS
<1>1. frames = <<>> /\ mode = "start" /\ ~Raising
  BY DEF Init, Raising
<1>2. ScopesOf(frames) = <<>>
  BY <1>1 DEF ScopesOf
<1>3. the_trace.cur_ast.code = Original
  BY DEF Init, open_step, EmptyTrace
<1> QED BY <1>1, <1>2, <1>3 DEF Undo!Init, Raising

LEMMA NextUndo ==
  IInv /\ IInv' /\ HInv /\ [Next]_vars => [Undo!Next]_Undo!vars
<1> SUFFICES ASSUME IInv, IInv', HInv, [Next]_vars PROVE [Undo!Next]_Undo!vars
  OBVIOUS
<1>1. Stopped => UNCHANGED vars
  BY DEF Stopped
<1>2. CASE UNCHANGED vars
  <2>1. UNCHANGED <<the_trace, frames, mode>>
    BY <1>2 DEF vars
  <2>2. Raising' = Raising
    BY <2>1 DEF Raising, InFrame, Frame
  <2> QED BY <2>1, <2>2, SameScopes
<1> QED BY <1>1, <1>2, ScriptUndo, EnterUndo, LeaveUndo, UnwindUndo DEF Next

\* step_backtrack, failure_expected and step_backtrack_on_failure: whatever the nesting of
\* the combinators, and wherever exceptions are raised, a region that is left normally has
\* undone exactly what it promises: the program of its entry is back, or the edits remain.
THEOREM UndoImplemented ==
  Spec => ImplementsUndo
<1>1. IInv /\ IInv' /\ HInv /\ [Next]_vars => [Undo!Next]_Undo!vars
  BY NextUndo
<1> QED BY <1>1, InitUndo, HandlesInvariance, PTL DEF Spec, ImplementsUndo, Undo!Spec

=============================================================================
