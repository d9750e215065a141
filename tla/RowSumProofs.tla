---------------------------- MODULE RowSumProofs ----------------------------
(***************************************************************************)
(* Proofs about RowSum, for every width, size, number of channels and      *)
(* source: the program that OptiTrust outputs returns with every cell of   *)
(* the output equal to the sum of its window, and reads only the source.   *)
(*                                                                         *)
(* RowSumRight is not inductive: a register is right because it holds the  *)
(* sum of the window where the loop stands, and the output is complete     *)
(* because the loops have passed over all the cells before their position. *)
(***************************************************************************)
EXTENDS RowSum, TLAPS

Group == IF Fused THEN Channels ELSE {c}

RowTypeOK ==
  /\ call \in Calls
  /\ at \in {"pixels", "window", "slide", "done"}
  /\ ic \in Nat /\ c \in Nat /\ k \in Nat
  /\ sum \in [Channels -> Int]
  /\ d \in [Pixels -> [Channels -> Int]]
  /\ written \in SUBSET (Pixels \X Channels)

WrittenRight ==
  \A i \in Pixels, ch \in Channels : <<i, ch>> \in written => d[i][ch] = reduce_int_sum(i, i + w, ch)

CellsInv ==
  at = "pixels" =>
    /\ w \in {3, 5} /\ ic <= n * cn
    /\ \A i \in Pixels, ch \in Channels : i * cn + ch < ic => <<i, ch>> \in written

NestInv ==
  at \in {"window", "slide"} =>
    /\ w \notin {3, 5}
    /\ ~Fused => /\ c \in Channels
                 /\ \A i \in Pixels, ch \in Channels : ch < c => <<i, ch>> \in written
                 /\ \A ch \in Channels : ch > c => sum[ch] = 0

WindowInv ==
  at = "window" => k <= w /\ \A ch \in Group : sum[ch] = reduce_int_sum(0, k, ch)

SlideInv ==
  at = "slide" =>
    /\ k \in 1 .. n
    /\ \A ch \in Group : sum[ch] = reduce_int_sum(k - 1, k - 1 + w, ch)
    /\ \A i \in Pixels, ch \in Group : i < k => <<i, ch>> \in written

DoneInv == at = "done" => \A i \in Pixels, ch \in Channels : <<i, ch>> \in written

RowInv == RowTypeOK /\ WrittenRight /\ CellsInv /\ NestInv /\ WindowInv /\ SlideInv /\ DoneInv

-----------------------------------------------------------------------------
\* What CallsAssumption says of the arguments of the call.
LEMMA Arguments ==
  ASSUME call \in Calls
  PROVE  /\ w \in Nat /\ n \in Nat /\ n > 0 /\ cn \in Nat
         /\ \A i \in 0 .. n + w - 1, ch \in Channels : call.prefix[i][ch] \in Int
<1>1. /\ call.w \in Nat /\ call.n \in Nat \ {0} /\ call.cn \in Nat
      /\ call.prefix \in [0 .. call.n + call.w - 1 -> [0 .. call.cn - 1 -> Int]]
  BY CallsAssumption
<1>2. /\ w \in Nat /\ n \in Nat \ {0} /\ cn \in Nat
      /\ call.prefix \in [0 .. n + w - 1 -> [Channels -> Int]]
  BY <1>1 DEF w, n, cn, Channels
<1> QED
  BY <1>2

\* A cell has one pixel and one channel: those that the loop on all cells
\* computes from its index.
LEMMA CellCoordinates ==
  ASSUME NEW nn \in Nat, NEW m \in Nat, NEW x \in Nat, x < nn * m
  PROVE  /\ x \div m \in 0 .. nn - 1
         /\ x % m \in 0 .. m - 1
         /\ \A i \in 0 .. nn - 1, ch \in 0 .. m - 1 :
              i * m + ch < x + 1 => i * m + ch < x \/ (i = x \div m /\ ch = x % m)
<1>1. m > 0
  OBVIOUS
<1> DEFINE q == x \div m
           r == x % m
<1>2. q \in Int /\ r \in 0 .. m - 1 /\ x = q * m + r
  BY <1>1
<1> HIDE DEF q, r
<1>3. q >= 0
  <2>1. SUFFICES ASSUME q <= -1 PROVE FALSE
    BY <1>2
  <2>2. q * m <= -m
    BY <2>1, <1>2, <1>1
  <2> QED
    BY <2>2, <1>2, <1>1
<1>4. q <= nn - 1
  <2>1. SUFFICES ASSUME q >= nn PROVE FALSE
    BY <1>2
  <2>2. q * m >= nn * m
    BY <2>1, <1>2, <1>1
  <2> QED
    BY <2>2, <1>2, <1>1
<1>5. ASSUME NEW i \in 0 .. nn - 1, NEW ch \in 0 .. m - 1, i * m + ch = x
      PROVE  i = q /\ ch = r
  <2>1. ~ i >= q + 1
    <3>1. i >= q + 1 => i * m >= q * m + m
      BY <1>1, <1>2
    <3> QED
      BY <3>1, <1>5, <1>2
  <2>2. ~ i <= q - 1
    <3>1. i <= q - 1 => i * m <= q * m - m
      BY <1>1, <1>2
    <3> QED
      BY <3>1, <1>5, <1>2
  <2> QED
    BY <2>1, <2>2, <1>2, <1>5
<1> QED
  BY <1>2, <1>3, <1>4, <1>5 DEF q, r

\* The entries that a nest on the channels of its group writes.
LEMMA GroupChannels ==
  ASSUME RowTypeOK, NestInv, at \in {"window", "slide"}
  PROVE  Group \subseteq Channels
  BY DEF NestInv, Group

-----------------------------------------------------------------------------
LEMMA RowInitInv == RowInit => RowInv
<1> SUFFICES ASSUME RowInit PROVE RowInv
  OBVIOUS
<1> USE DEF RowInit
<1>1. w \in Nat /\ n \in Nat /\ n > 0 /\ cn \in Nat
  BY Arguments
<1>2. RowTypeOK
  BY <1>1 DEF RowTypeOK
<1>3. at = "done" => Channels = {}
  BY <1>1 DEF Empty, Channels
<1>4. at = "window" => NestInv /\ WindowInv
  BY <1>1, Arguments DEF NestInv, WindowInv, Empty, Channels, Group, Fused, reduce_int_sum
<1>5. CellsInv
  <2>1. n * cn \in Nat
    BY <1>1
  <2>2. \A i \in Pixels, ch \in Channels : i * cn + ch >= 0
    BY <1>1 DEF Pixels, Channels
  <2> QED
    BY <1>1, <2>1, <2>2 DEF CellsInv, Pixels, Channels, Empty
<1> QED
  BY <1>2, <1>3, <1>4, <1>5 DEF RowInv, WrittenRight, NestInv, WindowInv, SlideInv, DoneInv

\* Writing one cell with the sum of its window.
LEMMA StoreInv ==
  ASSUME RowInv, at = "pixels", ic < n * cn,
         Store(ic \div cn, ic % cn, reduce_int_sum(ic \div cn, (ic \div cn) + w, ic % cn))
  PROVE  RowInv'
<1> DEFINE i0 == ic \div cn
           ch0 == ic % cn
           v == reduce_int_sum(i0, i0 + w, ch0)
<1>1. w \in Nat /\ n \in Nat /\ n > 0 /\ cn \in Nat /\ w \in {3, 5}
      /\ \A i \in 0 .. n + w - 1, ch \in Channels : call.prefix[i][ch] \in Int
  BY Arguments DEF RowInv, RowTypeOK, CellsInv
<1>2. /\ i0 \in Pixels /\ ch0 \in Channels
      /\ \A i \in Pixels, ch \in Channels : i * cn + ch < ic + 1 => i * cn + ch < ic \/ (i = i0 /\ ch = ch0)
  BY <1>1, CellCoordinates DEF Pixels, Channels, RowInv, RowTypeOK
<1>3. v \in Int
  BY <1>1, <1>2 DEF reduce_int_sum, Pixels
<1>4. /\ d' = [d EXCEPT ![i0][ch0] = v] /\ written' = written \cup {<<i0, ch0>>} /\ ic' = ic + 1
      /\ UNCHANGED <<call, at, c, k, sum>>
  BY DEF Store
<1> HIDE DEF i0, ch0, v
<1>5. UNCHANGED <<w, n, cn, Pixels, Channels>>
  BY <1>4 DEF w, n, cn, Pixels, Channels
<1>6. RowTypeOK'
  BY <1>2, <1>3, <1>4, <1>5 DEF RowInv, RowTypeOK
<1>7. WrittenRight'
  <2> SUFFICES ASSUME NEW i \in Pixels, NEW ch \in Channels, <<i, ch>> \in written'
               PROVE  d'[i][ch] = reduce_int_sum(i, i + w, ch)'
    BY <1>5 DEF WrittenRight
  <2>1. CASE i = i0 /\ ch = ch0
    BY <2>1, <1>2, <1>4, <1>5 DEF RowInv, RowTypeOK, v, reduce_int_sum
  <2>2. CASE ~(i = i0 /\ ch = ch0)
    <3>1. <<i, ch>> \in written
      BY <2>2, <1>4
    <3>2. d'[i][ch] = d[i][ch]
      BY <2>2, <1>2, <1>4 DEF RowInv, RowTypeOK
    <3> QED
      BY <3>1, <3>2, <1>4, <1>5 DEF RowInv, WrittenRight, reduce_int_sum
  <2> QED
    BY <2>1, <2>2
<1>8. CellsInv'
  <2>1. ic + 1 <= n * cn
    <3>1. n * cn \in Nat
      BY <1>1
    <3> QED
      BY <3>1 DEF RowInv, RowTypeOK
  <2>2. \A i \in Pixels, ch \in Channels : i * cn + ch < ic + 1 => <<i, ch>> \in written'
    BY <1>2, <1>4 DEF RowInv, CellsInv
  <2> QED
    BY <2>1, <2>2, <1>1, <1>4, <1>5 DEF CellsInv
<1> QED
  BY <1>4, <1>6, <1>7, <1>8 DEF RowInv, NestInv, WindowInv, SlideInv, DoneInv

-----------------------------------------------------------------------------
LEMMA AddToWindowInv ==
  ASSUME RowInv, AddToWindow(Group)
  PROVE  RowInv'
<1> USE DEF AddToWindow
<1>1. w \in Nat /\ n \in Nat /\ n > 0 /\ cn \in Nat
      /\ \A i \in 0 .. n + w - 1, ch \in Channels : call.prefix[i][ch] \in Int
  BY Arguments DEF RowInv, RowTypeOK
<1>2. Group \subseteq Channels
  BY GroupChannels DEF RowInv
<1>3. UNCHANGED <<w, n, cn, Pixels, Channels, Fused, Group>>
  BY DEF w, n, cn, Pixels, Channels, Fused, Group
<1>4. \A ch \in Channels : S(k, ch) \in Int /\ S(k, ch) = reduce_int_sum(k, k + 1, ch)
  BY <1>1 DEF S, reduce_int_sum, RowInv, RowTypeOK
<1>5. RowTypeOK'
  BY <1>1, <1>3, <1>4 DEF RowInv, RowTypeOK
<1>6. WrittenRight' /\ DoneInv' /\ SlideInv' /\ CellsInv'
  BY <1>3 DEF RowInv, WrittenRight, reduce_int_sum, DoneInv, SlideInv, CellsInv
<1>7. NestInv'
  BY <1>1, <1>2, <1>3 DEF RowInv, NestInv, Group, Channels, RowTypeOK
<1>8. WindowInv'
  <2>1. ASSUME NEW ch \in Group
        PROVE  sum'[ch] = call.prefix[k + 1][ch] - call.prefix[0][ch]
    <3>1. sum'[ch] = sum[ch] + S(k, ch)
      BY <1>2
    <3>2. sum[ch] = reduce_int_sum(0, k, ch)
      BY DEF RowInv, WindowInv
    <3> QED
      BY <3>1, <3>2, <1>1, <1>2 DEF S, reduce_int_sum, RowInv, RowTypeOK
  <2>2. k + 1 <= w
    BY <1>1 DEF RowInv, RowTypeOK
  <2> QED
    BY <2>1, <2>2, <1>3 DEF WindowInv, reduce_int_sum
<1> QED
  BY <1>5, <1>6, <1>7, <1>8 DEF RowInv

\* Writing the pixel i in the channels of the group, with the sums of its
\* windows: common to the first pixel and to the next ones.
LEMMA PixelWritten ==
  ASSUME RowInv, Group \subseteq Channels, NEW p \in Pixels, UNCHANGED call,
         NEW s \in [Channels -> Int], \A ch \in Group : s[ch] = reduce_int_sum(p, p + w, ch),
         d' = [d EXCEPT ![p] = [ch \in Channels |-> IF ch \in Group THEN s[ch] ELSE @[ch]]],
         written' = written \cup ({p} \X Group)
  PROVE  /\ d' \in [Pixels -> [Channels -> Int]]
         /\ written' \in SUBSET (Pixels \X Channels)
         /\ WrittenRight'
<1>1. UNCHANGED <<w, n, cn, Pixels, Channels>>
  BY DEF w, n, cn, Pixels, Channels
<1>2. d \in [Pixels -> [Channels -> Int]] /\ written \subseteq Pixels \X Channels
  BY DEF RowInv, RowTypeOK
<1>3. d' \in [Pixels -> [Channels -> Int]]
  BY <1>2
<1>4. WrittenRight'
  <2> SUFFICES ASSUME NEW i \in Pixels, NEW ch \in Channels, <<i, ch>> \in written'
               PROVE  d'[i][ch] = reduce_int_sum(i, i + w, ch)'
    BY <1>1 DEF WrittenRight
  <2>1. reduce_int_sum(i, i + w, ch)' = reduce_int_sum(i, i + w, ch)
    BY <1>1 DEF reduce_int_sum
  <2>2. CASE i = p /\ ch \in Group
    BY <2>1, <2>2, <1>2
  <2>3. CASE ~(i = p /\ ch \in Group)
    <3>1. <<i, ch>> \in written
      BY <2>3
    <3>2. d'[i][ch] = d[i][ch]
      BY <2>3, <1>2
    <3> QED
      BY <3>1, <3>2, <2>1 DEF RowInv, WrittenRight
  <2> QED
    BY <2>2, <2>3
<1> QED
  BY <1>2, <1>3, <1>4

LEMMA FirstPixelInv ==
  ASSUME RowInv, FirstPixel(Group)
  PROVE  RowInv'
<1> USE DEF FirstPixel
<1>1. w \in Nat /\ n \in Nat /\ n > 0 /\ cn \in Nat
  BY Arguments DEF RowInv, RowTypeOK
<1>2. Group \subseteq Channels
  BY GroupChannels DEF RowInv
<1>3. UNCHANGED <<w, n, cn, Pixels, Channels, Fused, Group>>
  BY DEF w, n, cn, Pixels, Channels, Fused, Group
<1>4. k = w
  BY <1>1 DEF RowInv, RowTypeOK, WindowInv
<1>5. 0 \in Pixels
  BY <1>1 DEF Pixels
<1>6. \A ch \in Group : sum[ch] = reduce_int_sum(0, 0 + w, ch)
  BY <1>1, <1>4 DEF RowInv, WindowInv
<1>7. /\ d' \in [Pixels -> [Channels -> Int]] /\ written' \in SUBSET (Pixels \X Channels)
      /\ WrittenRight'
  BY <1>2, <1>5, <1>6, PixelWritten DEF RowInv, RowTypeOK
<1>8. RowTypeOK'
  BY <1>3, <1>7 DEF RowInv, RowTypeOK
<1>9. NestInv'
  BY <1>3 DEF RowInv, NestInv
<1>10. SlideInv'
  BY <1>1, <1>3, <1>6 DEF SlideInv, reduce_int_sum, Pixels
<1> QED
  BY <1>7, <1>8, <1>9, <1>10 DEF RowInv, CellsInv, WindowInv, DoneInv

LEMMA SlideWindowInv ==
  ASSUME RowInv, SlideWindow(Group)
  PROVE  RowInv'
<1> USE DEF SlideWindow
<1>1. w \in Nat /\ n \in Nat /\ n > 0 /\ cn \in Nat
      /\ \A i \in 0 .. n + w - 1, ch \in Channels : call.prefix[i][ch] \in Int
  BY Arguments DEF RowInv, RowTypeOK
<1>2. Group \subseteq Channels
  BY GroupChannels DEF RowInv
<1>3. w' = w /\ n' = n /\ cn' = cn /\ Pixels' = Pixels /\ Channels' = Channels /\ Fused' = Fused
      /\ Group' = Group
  BY DEF w, n, cn, Pixels, Channels, Fused, Group
<1>4. k \in Pixels /\ k \in 1 .. n - 1
  BY <1>1 DEF RowInv, RowTypeOK, SlideInv, Pixels
<1>5. \A ch \in Channels : S(k + w - 1, ch) \in Int /\ S(k - 1, ch) \in Int
  BY <1>1, <1>4 DEF S
<1>6. sum' \in [Channels -> Int]
  BY <1>5 DEF RowInv, RowTypeOK
<1>7. \A ch \in Group : sum'[ch] = reduce_int_sum(k, k + w, ch)
  <2> SUFFICES ASSUME NEW ch \in Group PROVE sum'[ch] = reduce_int_sum(k, k + w, ch)
    OBVIOUS
  <2>1. sum'[ch] = sum[ch] + S(k + w - 1, ch) - S(k - 1, ch)
    BY <1>2
  <2>2. sum[ch] = reduce_int_sum(k - 1, k - 1 + w, ch)
    BY DEF RowInv, SlideInv
  <2>3. k - 1 + w = k + w - 1 /\ k + w - 1 + 1 = k + w /\ k - 1 + 1 = k
    BY <1>1, <1>4
  <2>4. call.prefix[k - 1][ch] \in Int /\ call.prefix[k][ch] \in Int
        /\ call.prefix[k + w - 1][ch] \in Int /\ call.prefix[k + w][ch] \in Int
    BY <1>1, <1>2, <1>4
  <2> QED
    BY <2>1, <2>2, <2>3, <2>4 DEF S, reduce_int_sum
<1>8. /\ d' \in [Pixels -> [Channels -> Int]] /\ written' \in SUBSET (Pixels \X Channels)
      /\ WrittenRight'
  BY <1>2, <1>4, <1>6, <1>7, PixelWritten
<1>9. RowTypeOK'
  BY <1>3, <1>6, <1>8 DEF RowInv, RowTypeOK
<1>10. NestInv'
  BY <1>1, <1>2, <1>3 DEF RowInv, NestInv, Group, Channels, RowTypeOK
<1>11. SlideInv'
  <2>0. k' = k + 1 /\ UNCHANGED <<at, call>> /\ at = "slide" /\ written' = written \cup ({k} \X Group)
    OBVIOUS
  <2> HIDE DEF SlideWindow
  <2>1. k + 1 \in 1 .. n /\ k + 1 - 1 = k
    BY <1>1, <1>4
  <2>2. \A i \in Pixels, ch \in Group : i < k + 1 => <<i, ch>> \in written'
    BY <1>1, <1>4, <2>0 DEF RowInv, SlideInv, Pixels
  <2>3. \A ch \in Group : (sum[ch] = reduce_int_sum(k - 1, k - 1 + w, ch))'
    <3>1. k' - 1 = k
      BY <1>1, <1>4, <2>0
    <3> QED
      BY <1>1, <1>3, <1>4, <1>7, <2>0, <3>1 DEF reduce_int_sum
  <2>4. k' \in 1 .. n
    BY <2>0, <2>1
  <2>5. \A i \in Pixels, ch \in Group : i < k' => <<i, ch>> \in written'
    BY <2>0, <2>2
  <2> QED
    BY <1>1, <1>3, <1>4, <2>0, <2>3, <2>4, <2>5 DEF SlideInv
<1> QED
  BY <1>8, <1>9, <1>10, <1>11 DEF RowInv, CellsInv, WindowInv, DoneInv

LEMMA NestStepInv ==
  ASSUME RowInv, Nest(Group)
  PROVE  RowInv'
  BY AddToWindowInv, FirstPixelInv, SlideWindowInv DEF Nest

\* All pixels of the group are written when its loop on the pixels ends.
LEMMA GroupDone ==
  ASSUME RowInv, LastPixel
  PROVE  \A i \in Pixels, ch \in Group : <<i, ch>> \in written
<1>1. n \in Nat
  BY Arguments DEF RowInv, RowTypeOK
<1>2. \A i \in Pixels : i < k
  BY <1>1 DEF LastPixel, Pixels, RowInv, RowTypeOK
<1> QED
  BY <1>2 DEF RowInv, SlideInv, LastPixel

LEMMA ReturnInv ==
  ASSUME RowInv, Fused, Return
  PROVE  RowInv'
<1>1. UNCHANGED <<w, n, cn, Pixels, Channels>>
  BY DEF Return, w, n, cn, Pixels, Channels
<1>2. DoneInv'
  BY GroupDone, <1>1 DEF Return, DoneInv, Group
<1> QED
  BY <1>1, <1>2 DEF Return, RowInv, RowTypeOK, WrittenRight, reduce_int_sum, CellsInv, NestInv,
                    WindowInv, SlideInv

LEMMA NextChannelInv ==
  ASSUME RowInv, ~Fused, NextChannel
  PROVE  RowInv'
<1> USE DEF NextChannel
<1>1. w \in Nat /\ n \in Nat /\ n > 0 /\ cn \in Nat
      /\ \A i \in 0 .. n + w - 1, ch \in Channels : call.prefix[i][ch] \in Int
  BY Arguments DEF RowInv, RowTypeOK
<1>2. UNCHANGED <<w, n, cn, Pixels, Channels, Fused>>
  BY DEF w, n, cn, Pixels, Channels, Fused
<1>3. c \in Channels /\ at = "slide"
  BY DEF LastPixel, RowInv, NestInv
<1>4. \A i \in Pixels, ch \in Channels : ch < c + 1 => <<i, ch>> \in written
  BY <1>1, <1>3, GroupDone DEF RowInv, NestInv, Group, Channels
<1>5. RowTypeOK' /\ WrittenRight'
  BY <1>1, <1>2 DEF RowInv, RowTypeOK, WrittenRight, reduce_int_sum
<1>6. CASE c + 1 < cn
  <2>1. c + 1 \in Channels
    BY <1>1, <1>3, <1>6 DEF Channels
  <2>2. NestInv'
    BY <1>1, <1>2, <1>3, <1>4, <1>6, <2>1 DEF RowInv, NestInv, Channels
  <2>3. WindowInv'
    <3>1. sum[c + 1] = 0
      BY <1>1, <1>3, <2>1 DEF RowInv, NestInv, Channels
    <3>2. reduce_int_sum(0, 0, c + 1) = 0
      BY <1>1, <2>1 DEF reduce_int_sum
    <3> QED
      BY <1>1, <1>2, <1>6, <3>1, <3>2 DEF WindowInv, Group, reduce_int_sum
  <2> QED
    BY <1>5, <1>6, <2>2, <2>3 DEF RowInv, CellsInv, SlideInv, DoneInv
<1>7. CASE ~(c + 1 < cn)
  <2>1. \A ch \in Channels : ch < c + 1
    BY <1>1, <1>3, <1>7 DEF Channels
  <2>2. DoneInv'
    BY <1>2, <1>4, <2>1 DEF DoneInv
  <2> QED
    BY <1>5, <1>7, <2>2 DEF RowInv, CellsInv, NestInv, WindowInv, SlideInv
<1> QED
  BY <1>6, <1>7

\* A step of the program keeps the invariant: one case per branch.
LEMMA RowNextInv ==
  ASSUME RowInv, [RowNext]_rowVars
  PROVE  RowInv'
<1>1. w \in Nat /\ n \in Nat /\ n > 0 /\ cn \in Nat
      /\ \A i \in 0 .. n + w - 1, ch \in Channels : call.prefix[i][ch] \in Int
  BY Arguments DEF RowInv, RowTypeOK
<1>2. ASSUME at = "pixels", ic < n * cn
      PROVE  ic \div cn \in Pixels /\ ic % cn \in Channels
  BY <1>1, <1>2, CellCoordinates DEF RowInv, RowTypeOK, Pixels, Channels
<1> DEFINE i0 == ic \div cn
           ch0 == ic % cn
<1>3. CASE WidthThree
  <2>1. i0 \in Pixels /\ ch0 \in Channels /\ at = "pixels" /\ ic < n * cn /\ w = 3
    BY <1>2, <1>3 DEF WidthThree
  <2>2. Store(i0, ch0, S(i0, ch0) + S(i0 + 1, ch0) + S(i0 + 2, ch0))
    BY <1>3 DEF WidthThree
  <2> HIDE DEF i0, ch0
  <2>3. S(i0, ch0) + S(i0 + 1, ch0) + S(i0 + 2, ch0) = reduce_int_sum(i0, i0 + w, ch0)
    BY <1>1, <2>1 DEF S, reduce_int_sum, Pixels
  <2> QED
    BY <2>1, <2>2, <2>3, StoreInv DEF i0, ch0
<1>4. CASE WidthFive
  <2>1. i0 \in Pixels /\ ch0 \in Channels /\ at = "pixels" /\ ic < n * cn /\ w = 5
    BY <1>2, <1>4 DEF WidthFive
  <2>2. Store(i0, ch0, S(i0, ch0) + S(i0 + 1, ch0) + S(i0 + 2, ch0) + S(i0 + 3, ch0) + S(i0 + 4, ch0))
    BY <1>4 DEF WidthFive
  <2> HIDE DEF i0, ch0
  <2>3. S(i0, ch0) + S(i0 + 1, ch0) + S(i0 + 2, ch0) + S(i0 + 3, ch0) + S(i0 + 4, ch0)
          = reduce_int_sum(i0, i0 + w, ch0)
    BY <1>1, <2>1 DEF S, reduce_int_sum, Pixels
  <2> QED
    BY <2>1, <2>2, <2>3, StoreInv DEF i0, ch0
<1>5. CASE AllCells
  <2>1. UNCHANGED <<w, n, cn, Pixels, Channels>>
    BY <1>5 DEF AllCells, w, n, cn, Pixels, Channels
  <2>2. \A i \in Pixels, ch \in Channels : i * cn + ch < n * cn
    <3> SUFFICES ASSUME NEW i \in Pixels, NEW ch \in Channels PROVE i * cn + ch < n * cn
      OBVIOUS
    <3>1. i * cn <= (n - 1) * cn
      BY <1>1 DEF Pixels
    <3>2. (n - 1) * cn = n * cn - cn
      BY <1>1
    <3> QED
      BY <3>1, <3>2, <1>1 DEF Channels, Pixels
  <2>3. DoneInv'
    <3>1. n * cn \in Int /\ ic \in Int /\ ic >= n * cn
      BY <1>1, <1>5 DEF AllCells, RowInv, RowTypeOK
    <3>2. \A i \in Pixels, ch \in Channels : i * cn + ch \in Int
      BY <1>1 DEF Pixels, Channels
    <3>3. \A i \in Pixels, ch \in Channels : i * cn + ch < ic
      BY <2>2, <3>1, <3>2
    <3> QED
      BY <1>5, <2>1, <3>3 DEF AllCells, DoneInv, RowInv, CellsInv
  <2> QED
    BY <1>5, <2>1, <2>3 DEF AllCells, RowInv, RowTypeOK, WrittenRight, reduce_int_sum, CellsInv, NestInv,
                            WindowInv, SlideInv
<1>6. CASE OneChannel
  <2>1. Fused /\ Group = {0}
    BY <1>6 DEF OneChannel, Fused, Group, Channels
  <2> QED
    BY <1>6, <2>1, NestStepInv, ReturnInv DEF OneChannel
<1>7. CASE ThreeChannels
  <2>1. Fused /\ Group = {0, 1, 2}
    BY <1>7 DEF ThreeChannels, Fused, Group, Channels
  <2> QED
    BY <1>7, <2>1, NestStepInv, ReturnInv DEF ThreeChannels
<1>8. CASE FourChannels
  <2>1. Fused /\ Group = {0, 1, 2, 3}
    BY <1>8 DEF FourChannels, Fused, Group, Channels
  <2> QED
    BY <1>8, <2>1, NestStepInv, ReturnInv DEF FourChannels, FourWindow, FourFirst, FourSlide, FourReturn, Nest
<1>9. CASE AnyChannels
  <2>1. ~Fused /\ Group = {c}
    BY <1>9 DEF AnyChannels, Group
  <2> QED
    BY <1>9, <2>1, NestStepInv, NextChannelInv DEF AnyChannels
<1>10. CASE UNCHANGED rowVars
  BY <1>10 DEF rowVars, RowInv, RowTypeOK, WrittenRight, CellsInv, NestInv, WindowInv, SlideInv, DoneInv,
               Group, Fused, Pixels, Channels, reduce_int_sum, w, n, cn
<1> QED
  BY <1>3, <1>4, <1>5, <1>6, <1>7, <1>8, <1>9, <1>10 DEF RowNext

LEMMA RowInvariant == RowSpec => []RowInv
  BY RowInitInv, RowNextInv, PTL DEF RowSpec

-----------------------------------------------------------------------------
\* rowSum returns with every cell of the output written and equal to the sum
\* of its window, in all the branches of the program that OptiTrust outputs.
THEOREM RowSumCorrect == RowSpec => []RowSumRight
<1>1. RowInv => RowSumRight
  <2> SUFFICES ASSUME RowInv PROVE RowSumRight
    OBVIOUS
  <2>1. written \subseteq Pixels \X Channels
    BY DEF RowInv, RowTypeOK
  <2>2. \A cell \in written : d[cell[1]][cell[2]] = reduce_int_sum(cell[1], cell[1] + w, cell[2])
    BY <2>1 DEF RowInv, WrittenRight
  <2>3. at = "done" => written = Pixels \X Channels
    BY <2>1 DEF RowInv, DoneInv
  <2> QED
    BY <2>2, <2>3 DEF RowSumRight
<1> QED
  BY <1>1, RowInvariant, PTL

\* rowSum reads only inside the source, which its ghost code assumes.
THEOREM RowSumInRange == RowSpec => []AccessesInRange
<1>1. RowInv => AccessesInRange
  <2> SUFFICES ASSUME RowInv PROVE AccessesInRange
    OBVIOUS
  <2>1. w \in Nat /\ n \in Nat /\ n > 0 /\ cn \in Nat
    BY Arguments DEF RowInv, RowTypeOK
  <2>2. ASSUME at = "pixels", ic < n * cn
        PROVE  /\ ic \div cn \in Pixels /\ ic % cn \in Channels
               /\ InSource(ic \div cn) /\ InSource((ic \div cn) + w - 1)
    <3>1. ic \div cn \in Pixels /\ ic % cn \in Channels
      BY <2>1, <2>2, CellCoordinates DEF RowInv, RowTypeOK, Pixels, Channels
    <3>2. w \in {3, 5}
      BY <2>2 DEF RowInv, CellsInv
    <3> QED
      BY <2>1, <3>1, <3>2 DEF Pixels, InSource
  <2>3. at = "window" /\ k < w => InSource(k)
    BY <2>1 DEF RowInv, RowTypeOK, InSource
  <2>4. at = "slide" /\ k < n => k \in Pixels /\ InSource(k - 1) /\ InSource(k + w - 1)
    BY <2>1 DEF RowInv, SlideInv, InSource, Pixels
  <2> QED
    BY <2>2, <2>3, <2>4 DEF AccessesInRange
<1> QED
  BY <1>1, RowInvariant, PTL

=============================================================================
