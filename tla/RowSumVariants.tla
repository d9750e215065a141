---------------------------- MODULE RowSumVariants ----------------------------
(***************************************************************************)
(* Programs for the sums of windows of a row of pixels, between the naive  *)
(* one and the final ones: outputs and goals of OptiTrust at other dates   *)
(* (case_studies/opencv/box_filter_rowsum*.cpp).  The arguments are w, n,  *)
(* cn, and src, which is the content of the row; they return the output,   *)
(* by address.                                                             *)
(***************************************************************************)
EXTENDS Integers

MINDEX2(n1, n2, i1, i2) == i1 * n2 + i2
Sum(n, Term(_)) ==
  LET upto[k \in 0 .. n] == IF k = 0 THEN 0 ELSE upto[k - 1] + Term(k - 1)
  IN  upto[n]
Cells(a) == 0 .. a.n * a.cn - 1
ST(x) == x % 65536

\* A channel, in a register that keeps Kept of what is assigned to it: the window of
\* the first pixel, to which an iteration adds a pixel, and takes one away.
FirstWindow(a, Kept(_), Window(_)) ==
  LET upto[k \in 0 .. a.w] == IF k = 0 THEN 0 ELSE Kept(upto[k - 1] + a.src[Window(k - 1)])
  IN  upto[a.w]
Slide(a, Kept(_), first, Enter(_), Leave(_)) ==
  LET upto[i \in 0 .. a.n - 1] == IF i = 0 THEN first ELSE Kept(upto[i - 1] + a.src[Enter(i)] - a.src[Leave(i)])
  IN  upto
Register(a, Kept(_), Window(_), Enter(_), Leave(_)) == Slide(a, Kept, FirstWindow(a, Kept, Window), Enter, Leave)
\* The cells of a pixel are stored at Address, from the registers of the channels.
Stored(a, registers, Address(_, _)) ==
  [ic \in Cells(a) |-> LET cell == CHOOSE cell \in (0 .. a.n - 1) \X (0 .. a.cn - 1) : Address(cell[1], cell[2]) = ic
                       IN  registers[cell[2]][cell[1]]]

Exact(x) == x

\* box_filter_rowsum.cpp: a sum for each cell of the output.
rowSum(a) == [ic \in Cells(a) |-> LET i == ic \div a.cn
                                      c == ic % a.cn
                                  IN  ST(Sum(a.w, LAMBDA k : a.src[MINDEX2(a.n + a.w - 1, a.cn, i + k, c)]))]

\* A single loop on the cells, for a width with its own branch.
PixelLoop(a, Value(_)) == [ic \in Cells(a) |-> Value(ic)]

\* ..._models_goal.cpp: a branch for the width 3, and one for 3 channels.
goal_width_three(a) ==
  LET pixel(ic, k) == a.src[MINDEX2(a.n + 2, a.cn, (ic \div a.cn) + k, ic % a.cn)]
  IN  PixelLoop(a, LAMBDA ic : ST(pixel(ic, 0) + pixel(ic, 1) + pixel(ic, 2)))
GoalAt(a, cn, i, c) == MINDEX2(a.n + a.w - 1, cn, i, c)
GoalThreeWindows(a) == [c \in {0, 1, 2} |-> FirstWindow(a, ST, LAMBDA i : GoalAt(a, 3, i, c))]
GoalThreeSlides(a, windows) ==
  [c \in {0, 1, 2} |-> Slide(a, ST, windows[c], LAMBDA i : GoalAt(a, 3, i + a.w - 1, c), LAMBDA i : GoalAt(a, 3, i - 1, c))]
goal_three_channels(a) ==
  Stored(a, GoalThreeSlides(a, GoalThreeWindows(a)), LAMBDA i, c : MINDEX2(a.n, 3, i, c))
goal_any_channels(a) ==
  Stored(a, [c \in 0 .. a.cn - 1 |-> Register(a, ST, LAMBDA i : GoalAt(a, a.cn, i, c),
                LAMBDA i : GoalAt(a, a.cn, i + a.w - 1, c), LAMBDA i : GoalAt(a, a.cn, i - 1, c))],
         LAMBDA i, c : MINDEX2(a.n, a.cn, i, c))
models_goal(a) ==
  IF a.w = 3 THEN goal_width_three(a)
  ELSE IF a.cn = 3 THEN goal_three_channels(a)
  ELSE goal_any_channels(a)

\* ..._models_end.cpp: on int, the windows of the widths 3 and 5 are loops still.
end_width(a, w) ==
  PixelLoop(a, LAMBDA ic : Sum(w, LAMBDA k : a.src[MINDEX2(a.n + w - 1, a.cn, (ic \div a.cn) + k, ic % a.cn)]))
EndRegister(a, cn, c) ==
  LET at(i) == MINDEX2(a.n + a.w - 1, cn, i, c)
  IN  Register(a, Exact, at, LAMBDA i : at(i + a.w - 1), LAMBDA i : at(i - 1))
EndChannels(a, cn) ==
  Stored(a, [c \in 0 .. cn - 1 |-> EndRegister(a, cn, c)], LAMBDA i, c : MINDEX2(a.n, cn, i, c))
end_one_channel(a) == EndChannels(a, 1)
end_three_channels(a) == EndChannels(a, 3)
end_four_channels(a) == EndChannels(a, 4)
end_any_channels(a) == EndChannels(a, a.cn)
models_end(a) ==
  IF a.w \in {3, 5} THEN end_width(a, a.w)
  ELSE IF a.cn = 1 THEN end_one_channel(a)
  ELSE IF a.cn = 3 THEN end_three_channels(a)
  ELSE IF a.cn = 4 THEN end_four_channels(a)
  ELSE end_any_channels(a)

\* ..._models_end_exp.cpp: the same after the simplification of addresses; loops go
\* by strides, and those that slide are shifted to store the pixel after.
end_exp_width(a) ==
  PixelLoop(a, LAMBDA ic : Sum(a.w, LAMBDA k : a.src[k * a.cn + ic]))
end_exp_fused(a, cn) ==
  Stored(a, [c \in 0 .. cn - 1 |-> Register(a, Exact, LAMBDA k : cn * k + c,
                                       LAMBDA i : cn * a.w + cn * (i - 1) + c, LAMBDA i : cn * (i - 1) + c)],
         LAMBDA i, c : IF i = 0 THEN c ELSE cn * (i - 1) + cn + c)
end_exp_any_channels(a) ==
  Stored(a, [c \in 0 .. a.cn - 1 |-> Register(a, Exact, LAMBDA k : c + a.cn * k,
                                       LAMBDA i : a.w * a.cn + (c + a.cn * (i - 1)), LAMBDA i : c + a.cn * (i - 1))],
         LAMBDA i, c : IF i = 0 THEN c ELSE a.cn + (c + a.cn * (i - 1)))
models_end_exp(a) ==
  IF a.w \in {3, 5} THEN end_exp_width(a)
  ELSE IF a.cn \in {1, 3, 4} THEN end_exp_fused(a, a.cn)
  ELSE end_exp_any_channels(a)

\* ..._exp_wc.cpp: an index is split into a pixel and a channel, and put together.
wc_width(a) ==
  LET at(ic, k) == ((k + (ic \div a.cn)) * a.cn) + (ic % a.cn)
  IN  Stored(a, [c \in 0 .. a.cn - 1 |-> [i \in 0 .. a.n - 1 |->
                   ST(Sum(a.w, LAMBDA k : a.src[at(MINDEX2(a.n, a.cn, i, c), k)]))]], LAMBDA i, c : at(MINDEX2(a.n, a.cn, i, c), 0))
WcRegister(a, cn, c) ==
  Register(a, ST, LAMBDA i : c + cn * i, LAMBDA i : c + cn * (i + a.w - 1), LAMBDA i : c + cn * (i - 1))
wc_channels(a, cn) == Stored(a, [c \in 0 .. cn - 1 |-> WcRegister(a, cn, c)], LAMBDA i, c : c + cn * i)
exp_wc(a) == IF a.w \in {3, 5} THEN wc_width(a) ELSE wc_channels(a, a.cn)

\* ..._after_05-15.cpp: rows of n + w pixels, and no branch for 4 channels.
after_width(a) ==
  PixelLoop(a, LAMBDA ic : ST(Sum(a.w, LAMBDA k : a.src[MINDEX2(a.n + a.w, a.cn, (ic \div a.cn) + k, ic % a.cn)])))
after_channels(a, cn) ==
  LET at(i, c) == MINDEX2(a.n + a.w, cn, i, c)
  IN  Stored(a, [c \in 0 .. cn - 1 |-> Register(a, ST, LAMBDA i : at(i, c), LAMBDA i : at(i + a.w - 1, c),
                                         LAMBDA i : at(i - 1, c))], LAMBDA i, c : MINDEX2(a.n, cn, i, c))
after_05_15(a) == IF a.w \in {3, 5} THEN after_width(a) ELSE after_channels(a, a.cn)

Versions == {"models_goal", "models_end", "models_end_exp", "exp_wc", "after_05_15"}
RowSums(version, a) ==
  CASE version = "models_goal" -> models_goal(a)
    [] version = "models_end" -> models_end(a)
    [] version = "models_end_exp" -> models_end_exp(a)
    [] version = "exp_wc" -> exp_wc(a)
    [] version = "after_05_15" -> after_05_15(a)

=============================================================================
