------------------------------- MODULE RowSum -------------------------------
(***************************************************************************)
(* Sums of the w consecutive pixels of a row that start at each of its     *)
(* first n pixels, channel by channel.  The naive program adds w values    *)
(* for each sum (opencv/box_filter_rowsum_models.cpp); this module is the  *)
(* program that OptiTrust outputs (box_filter_rowsum_models_exp.cpp):      *)
(* branches for common widths and numbers of channels, and a window that   *)
(* slides along the row.  A step is an iteration of a loop.                *)
(*                                                                         *)
(* The source s is given by its prefix sums, so that what the ghost code   *)
(* calls reduce_int_sum is a difference.                                   *)
(***************************************************************************)
EXTENDS Integers, FiniteSets

CONSTANT Calls     \* arguments of rowSum: w, n, cn and the prefix sums of s

\* The __requires clauses; s has n + w - 1 rows.
ASSUME CallsAssumption == \A a \in Calls :
  /\ a.w \in Nat /\ a.n \in Nat \ {0} /\ a.cn \in Nat
  /\ a.prefix \in [0 .. a.n + a.w - 1 -> [0 .. a.cn - 1 -> Int]]

VARIABLES
  call,       \* the arguments of the call
  at,         \* the loop that is running: "pixels", "window", "slide", or "done"
  ic,         \* index of the loop on all cells
  c,          \* channel of the loop on channels
  k,          \* index of the loop on the window, or on the pixels
  sum,        \* the registers, one per channel
  d,          \* the output
  written     \* the cells of d that are initialised: "Cell", the others are "UninitCell"

rowVars == <<call, at, ic, c, k, sum, d, written>>

w == call.w
n == call.n
cn == call.cn
Pixels == 0 .. n - 1
Channels == 0 .. cn - 1

S(i, ch) == call.prefix[i + 1][ch] - call.prefix[i][ch]
InSource(i) == i \in 0 .. n + w - 2
reduce_int_sum(i, j, ch) == call.prefix[j][ch] - call.prefix[i][ch]

-----------------------------------------------------------------------------
\* Which branch of the program the arguments select.
Fused == cn \in {1, 3, 4}
Empty == w \notin {3, 5} /\ ~Fused /\ cn = 0

RowInit ==
  /\ call \in Calls
  /\ at = IF w \in {3, 5} THEN "pixels" ELSE IF Empty THEN "done" ELSE "window"
  /\ ic = 0 /\ c = 0 /\ k = 0
  /\ sum = [ch \in Channels |-> 0]
  /\ d = [i \in Pixels |-> [ch \in Channels |-> 0]]
  /\ written = {}

\* Widths 3 and 5: one loop on all cells, with the sum written out.
Store(i, ch, total) ==
  /\ d' = [d EXCEPT ![i][ch] = total]
  /\ written' = written \cup {<<i, ch>>}
  /\ ic' = ic + 1
  /\ UNCHANGED <<call, at, c, k, sum>>

\* Faulty: the window starts one pixel too late.
WidthThreeShifted ==
  /\ at = "pixels" /\ w = 3 /\ ic < n * cn
  /\ LET i == ic \div cn
         ch == ic % cn
     IN  Store(i, ch, IF i + 3 < n + 2 THEN S(i + 1, ch) + S(i + 2, ch) + S(i + 3, ch) ELSE S(i, ch))

WidthThree ==
  /\ at = "pixels" /\ w = 3 /\ ic < n * cn
  /\ LET i == ic \div cn
         ch == ic % cn
     IN  Store(i, ch, S(i, ch) + S(i + 1, ch) + S(i + 2, ch))

WidthFive ==
  /\ at = "pixels" /\ w = 5 /\ ic < n * cn
  /\ LET i == ic \div cn
         ch == ic % cn
     IN  Store(i, ch, S(i, ch) + S(i + 1, ch) + S(i + 2, ch) + S(i + 3, ch) + S(i + 4, ch))

AllCells == at = "pixels" /\ ic >= n * cn /\ at' = "done" /\ UNCHANGED <<call, ic, c, k, sum, d, written>>

\* A loop nest on the channels of g, whose registers it updates together.
AddToWindow(g) ==
  /\ at = "window" /\ k < w
  /\ sum' = [ch \in Channels |-> IF ch \in g THEN sum[ch] + S(k, ch) ELSE sum[ch]]
  /\ k' = k + 1
  /\ UNCHANGED <<call, at, ic, c, d, written>>

\* Faulty: the window slides from the first pixel.
FirstPixelAgain(g) ==
  /\ at = "window" /\ k >= w
  /\ d' = [d EXCEPT ![0] = [ch \in Channels |-> IF ch \in g THEN sum[ch] ELSE @[ch]]]
  /\ written' = written \cup ({0} \X g)
  /\ at' = "slide" /\ k' = 0
  /\ UNCHANGED <<call, ic, c, sum>>

FirstPixel(g) ==
  /\ at = "window" /\ k >= w
  /\ d' = [d EXCEPT ![0] = [ch \in Channels |-> IF ch \in g THEN sum[ch] ELSE @[ch]]]
  /\ written' = written \cup ({0} \X g)
  /\ at' = "slide" /\ k' = 1
  /\ UNCHANGED <<call, ic, c, sum>>

\* One value enters the window, and one leaves it.
SlideWindow(g) ==
  /\ at = "slide" /\ k < n
  /\ sum' = [ch \in Channels |-> IF ch \in g THEN sum[ch] + S(k + w - 1, ch) - S(k - 1, ch) ELSE sum[ch]]
  /\ d' = [d EXCEPT ![k] = [ch \in Channels |-> IF ch \in g THEN sum'[ch] ELSE @[ch]]]
  /\ written' = written \cup ({k} \X g)
  /\ k' = k + 1
  /\ UNCHANGED <<call, at, ic, c>>

Nest(g) == AddToWindow(g) \/ FirstPixel(g) \/ SlideWindow(g)
LastPixel == at = "slide" /\ k >= n
Return == LastPixel /\ at' = "done" /\ UNCHANGED <<call, ic, c, k, sum, d, written>>

OneChannel == cn = 1 /\ (Nest({0}) \/ Return)
ThreeChannels == cn = 3 /\ (Nest({0, 1, 2}) \/ Return)

FourWindow == AddToWindow({0, 1, 2, 3})
FourFirst == FirstPixel({0, 1, 2, 3})
FourSlide == SlideWindow({0, 1, 2, 3})
FourReturn == Return
FourChannels == cn = 4 /\ (FourWindow \/ FourFirst \/ FourSlide \/ FourReturn)

\* Any other number of channels: one nest after the other.
NextChannel ==
  /\ LastPixel
  /\ c' = c + 1
  /\ IF c + 1 < cn THEN at' = "window" /\ k' = 0 ELSE at' = "done" /\ UNCHANGED k
  /\ UNCHANGED <<call, ic, sum, d, written>>
AnyChannels == ~Fused /\ (Nest({c}) \/ NextChannel)

RowNext ==
  \/ WidthThree \/ WidthFive \/ AllCells
  \/ OneChannel \/ ThreeChannels \/ FourChannels \/ AnyChannels

RowSpec == RowInit /\ [][RowNext]_rowVars

-----------------------------------------------------------------------------
\* The contract of rowSum (__writes): every cell that has been written holds
\* the sum of its window, and when the program returns all have been.  The
\* ghost code admits several steps of its own proof of it.
RowSumRight ==
  /\ \A cell \in written :
       d[cell[1]][cell[2]] = reduce_int_sum(cell[1], cell[1] + w, cell[2])
  /\ at = "done" => written = Pixels \X Channels

\* The facts that the ghost code only assumes: cells have coordinates in the
\* output, and what an iteration reads is in the source ("in_range").
AccessesInRange ==
  /\ at = "pixels" /\ ic < n * cn =>
       /\ ic \div cn \in Pixels /\ ic % cn \in Channels
       /\ InSource(ic \div cn) /\ InSource((ic \div cn) + w - 1)
  /\ at = "window" /\ k < w => InSource(k)
  /\ at = "slide" /\ k < n => k \in Pixels /\ InSource(k - 1) /\ InSource(k + w - 1)

=============================================================================
