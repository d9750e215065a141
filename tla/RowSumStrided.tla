---------------------------- MODULE RowSumStrided ----------------------------
(***************************************************************************)
(* The programs that compute sums of kn consecutive pixels in uint16_t, on *)
(* flat arrays where the channels of a pixel follow each other: a loop     *)
(* visits the pixels of a channel by strides.                              *)
(*                                                                         *)
(* "opencv" is the original (opencv/box_filter_rowsum_opencv.cpp),         *)
(* "before" what OptiTrust makes of the naive program, and "exp" the same  *)
(* after clean-up (box_filter_rowsum_before_cleanup.cpp and                *)
(* box_filter_rowsum_exp.cpp).  A step is an iteration of a loop.          *)
(***************************************************************************)
EXTENDS Integers, FiniteSetsExt

CONSTANT StridedCalls  \* records with version, kn, n, cn and src, the content of S

VARIABLES
  args,       \* the arguments
  loop,       \* the loop that is running: "cells", "window", "slide", or "returned"
  nest,       \* number of the pair of loops that is running
  pos,          \* loop index
  regs,          \* the registers, by channel
  D           \* the output: NoValue, or a value

stridedVars == <<args, loop, nest, pos, regs, D>>

kn == args.kn
chans == args.cn
cells == args.n * args.cn
NoValue == -1

Sum16(at, count, stride) == MapThenSumSet(LAMBDA j : args.src[at + j * stride], 0 .. count - 1) % 65536

\* Faulty: a sum that is too large is clamped.
Clamped(x) == IF x > 65535 THEN 65535 ELSE x

\* What a uint16_t keeps of a sum.
ST(x) == x % 65536
exact_div(x, m) == x \div m

-----------------------------------------------------------------------------
\* Channels of each pair of loops: the channels of three- and four-channel
\* images share a pair of loops, except that the three-channel loops are not
\* fused before the clean-up.
Nests ==
  CASE chans = 1 \/ chans = 4 -> [j \in {0} |-> 0 .. chans - 1]
    [] chans = 3 /\ args.version # "before" -> [j \in {0} |-> {0, 1, 2}]
    [] OTHER -> [j \in 0 .. chans - 1 |-> {j}]
Generic == chans \notin {1, 3, 4}

\* First index of the loop that slides the window: OptiTrust shifts it by the
\* channel in the last branch, where OpenCV advances the pointers instead.
SlideStart(ch) == IF Generic /\ args.version # "opencv" THEN ch ELSE 0

StridedInit ==
  /\ args \in StridedCalls
  /\ loop = IF kn \in {3, 5} THEN "cells" ELSE IF args.cn = 0 THEN "returned" ELSE "window"
  /\ nest = 0 /\ pos = 0
  /\ regs = [ch \in 0 .. chans - 1 |-> 0]
  /\ D = [ic \in 0 .. cells - 1 |-> NoValue]

\* One loop on all cells, for the widths 3 and 5.  Before the clean-up the index
\* is decomposed into a pixel and a channel.
Cell(ic) == IF args.version = "before" THEN (ic \div chans) * chans + (ic % chans) ELSE ic
ThreePixels(ic) == args.src[ic] + args.src[chans + ic] + args.src[2 * chans + ic]

CellLoop(width) ==
  /\ loop = "cells" /\ kn = width
  /\ IF pos < cells
     THEN /\ D' = [D EXCEPT ![Cell(pos)] = ST(IF width = 3 THEN ThreePixels(Cell(pos))
                                          ELSE ThreePixels(Cell(pos)) + args.src[3 * chans + Cell(pos)]
                                                 + args.src[4 * chans + Cell(pos)])]
          /\ pos' = pos + 1
          /\ UNCHANGED loop
     ELSE loop' = "returned" /\ UNCHANGED <<pos, D>>
  /\ UNCHANGED <<args, nest, regs>>

\* Index of the first pixel of channel ch in an iteration of a loop that starts
\* at the index start.
Index(start, ch) ==
  IF args.version = "before" THEN exact_div(pos - start, chans) * chans + ch ELSE pos - start + ch

AddPixel(g) ==
  /\ loop = "window" /\ pos < chans * kn
  /\ regs' = [ch \in DOMAIN regs |-> IF ch \in g THEN ST(regs[ch] + args.src[Index(0, ch)]) ELSE regs[ch]]
  /\ pos' = pos + chans
  /\ UNCHANGED <<args, loop, nest, D>>

StoreFirst(g) ==
  /\ loop = "window" /\ pos >= chans * kn
  /\ D' = [ic \in DOMAIN D |-> IF ic \in g THEN regs[ic] ELSE D[ic]]
  /\ loop' = "slide" /\ pos' = SlideStart(CHOOSE ch \in g : TRUE)
  /\ UNCHANGED <<args, nest, regs>>

Slide(g) ==
  LET start == SlideStart(CHOOSE ch \in g : TRUE) IN
  /\ loop = "slide" /\ pos < chans * (args.n - 1) + start
  /\ regs' = [ch \in DOMAIN regs |->
             IF ch \in g
             THEN ST(regs[ch] + args.src[Index(start, ch) + kn * chans] - args.src[Index(start, ch)])
             ELSE regs[ch]]
  /\ D' = [ic \in DOMAIN D |-> IF \E ch \in g : ic = Index(start, ch) + chans THEN regs'[ic % chans] ELSE D[ic]]
  /\ pos' = pos + chans
  /\ UNCHANGED <<args, loop, nest>>

NextNest(g) ==
  /\ loop = "slide" /\ pos >= chans * (args.n - 1) + SlideStart(CHOOSE ch \in g : TRUE)
  /\ nest' = nest + 1
  /\ pos' = 0
  /\ loop' = IF nest' \in DOMAIN Nests THEN "window" ELSE "returned"
  /\ UNCHANGED <<args, regs, D>>

LoopPair(v, g) == args.version = v /\ (AddPixel(g) \/ StoreFirst(g) \/ Slide(g) \/ NextNest(g))

BeforeThree == args.version = "before" /\ CellLoop(3)
BeforeFive == args.version = "before" /\ CellLoop(5)

BeforeOneWindow == chans = 1 /\ args.version = "before" /\ (AddPixel({0}) \/ StoreFirst({0}))
BeforeOneSlide == chans = 1 /\ args.version = "before" /\ (Slide({0}) \/ NextNest({0}))

BeforeFirstOfThree == chans = 3 /\ nest = 0 /\ LoopPair("before", {0})
BeforeSecondOfThree == chans = 3 /\ nest = 1 /\ LoopPair("before", {1})
BeforeThirdOfThree == chans = 3 /\ nest = 2 /\ LoopPair("before", {2})

BeforeFour(Step(_)) == chans = 4 /\ args.version = "before" /\ Step({0, 1, 2, 3})
BeforeFourWindow == BeforeFour(AddPixel)
BeforeFourFirst == BeforeFour(StoreFirst)
BeforeFourSlide == BeforeFour(Slide)
BeforeFourEnd == BeforeFour(NextNest)

BeforeAnyWindow == Generic /\ args.version = "before" /\ (AddPixel({nest}) \/ StoreFirst({nest}))
BeforeAnySlide == Generic /\ args.version = "before" /\ (Slide({nest}) \/ NextNest({nest}))

ExpRowSum == LoopPair("exp", Nests[nest]) \/ (args.version = "exp" /\ (CellLoop(3) \/ CellLoop(5)))
OpencvRowSum == LoopPair("opencv", Nests[nest]) \/ (args.version = "opencv" /\ (CellLoop(3) \/ CellLoop(5)))

StridedNext ==
  \/ BeforeThree \/ BeforeFive
  \/ BeforeOneWindow \/ BeforeOneSlide
  \/ BeforeFirstOfThree \/ BeforeSecondOfThree \/ BeforeThirdOfThree
  \/ BeforeFourWindow \/ BeforeFourFirst \/ BeforeFourSlide \/ BeforeFourEnd
  \/ BeforeAnyWindow \/ BeforeAnySlide
  \/ ExpRowSum \/ OpencvRowSum

StridedSpec == StridedInit /\ [][StridedNext]_stridedVars

-----------------------------------------------------------------------------
\* The three programs return what the naive one does (box_filter_rowsum.cpp):
\* the sum of each window, as far as 16 bits can hold it, which the sliding
\* window gets right also when a sum has wrapped around on the way.
StridedRight ==
  /\ \A ic \in DOMAIN D : D[ic] # NoValue => D[ic] = Sum16(ic, kn, chans)
  /\ loop = "returned" => \A ic \in DOMAIN D : D[ic] # NoValue

=============================================================================
