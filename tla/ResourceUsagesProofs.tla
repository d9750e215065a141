------------------------ MODULE ResourceUsagesProofs ------------------------
(***************************************************************************)
(* What Instr.move relies on when it compares the usages of two groups of  *)
(* instructions, for any number of resources and all usage maps: composing *)
(* usages does not depend on how instructions are grouped, two groups that *)
(* do not interfere have the same composite in both orders, and a group    *)
(* interferes whenever one of its parts does.                              *)
(***************************************************************************)
EXTENDS ResourceUsages, TLAPS

IsUsageMap(map) ==
  /\ map = [hyp \in DOMAIN map |-> map[hyp]]
  /\ \A hyp \in DOMAIN map : map[hyp] \in Pure \cup Linear

\* No usage is composed with one that cannot come after it.
Composable(current, extra) == ~Fails(update_usage_map(current, extra))

-----------------------------------------------------------------------------
\* One resource.

\* The table only has usages, and failures, as results.
LEMMA UsageClosed ==
  ASSUME NEW u \in Usages, NEW v \in Usages
  PROVE  update_usage(u, v) \in Usages \cup {Failed}
BY DEF update_usage, Usages, Pure, Linear, NotUsed, Failed

\* Three usages in a row: the table can be applied from either end, when it
\* accepts the first two and the last two.
LEMMA UsageAssociative ==
  ASSUME NEW u \in Usages, NEW v \in Usages, NEW x \in Usages,
         update_usage(u, v) # Failed, update_usage(v, x) # Failed
  PROVE  update_usage(update_usage(u, v), x) = update_usage(u, update_usage(v, x))
<1> USE DEF update_usage, Usages, Pure, Linear, NotUsed, Failed
<1>1. CASE u \in Pure
  <2>1. CASE v \in Pure BY <1>1, <2>1, ZenonT(60)
  <2>2. CASE v \in Linear BY <1>1, <2>2
  <2>3. CASE v = NotUsed BY <1>1, <2>3
  <2> QED BY <2>1, <2>2, <2>3
<1>2. CASE u \in Linear
  <2>1. CASE v \in Pure  BY <1>2, <2>1
  <2>2. CASE v = "Produced"  BY <1>2, <2>2
  <2>3. CASE v = "SplittedFrac"  BY <1>2, <2>3
  <2>4. CASE v = "JoinedFrac"  BY <1>2, <2>4
  <2>5. CASE v \in {"ConsumedFull", "ConsumedUninit"}  BY <1>2, <2>5
  <2>6. CASE v = NotUsed BY <1>2, <2>6
  <2> QED BY <2>1, <2>2, <2>3, <2>4, <2>5, <2>6
<1>3. CASE u = NotUsed BY <1>3
<1> QED BY <1>1, <1>2, <1>3

\* Usages that do not interfere commute, but for those of a variable that a
\* call has chosen arbitrarily, which the check does not look at.
LEMMA UsageCommutes ==
  ASSUME NEW u \in Usages, NEW v \in Usages, ~Interferes(u, v),
         u # "ArbitrarilyChosen", v # "ArbitrarilyChosen"
  PROVE  update_usage(u, v) = update_usage(v, u)
BY DEF update_usage, Interferes, Effects, Usages, Pure, Linear, NotUsed, Failed

\* What interferes with one of two usages interferes with their composite.
LEMMA UsageCovers ==
  ASSUME NEW u \in Usages, NEW v \in Usages, NEW x \in Usages,
         update_usage(u, v) # Failed, update_usage(u, v) # NotUsed,
         Interferes(u, x) \/ Interferes(v, x)
  PROVE  Interferes(update_usage(u, v), x)
BY DEF update_usage, Interferes, Effects, Usages, Pure, Linear, NotUsed, Failed

-----------------------------------------------------------------------------
\* Usage maps.

\* Every resource has a usage in a usage map.
LEMMA UsageInMap ==
  ASSUME NEW a, IsUsageMap(a), NEW hyp
  PROVE  /\ UsageOf(a, hyp) \in Usages
         /\ hyp \in DOMAIN a <=> UsageOf(a, hyp) # NotUsed
BY DEF IsUsageMap, UsageOf, Usages, Pure, Linear, NotUsed

\* Merging two maps is to apply the table to each resource.
LEMMA MergePointwise ==
  ASSUME NEW a, NEW b, IsUsageMap(a), IsUsageMap(b), NEW hyp
  PROVE  UsageOf(update_usage_map(a, b), hyp) = update_usage(UsageOf(a, hyp), UsageOf(b, hyp))
<1> DEFINE all == Merged(a, b)
           kept == {u \in DOMAIN all : all[u] # NotUsed}
<1>1. all = [u \in DOMAIN a \cup DOMAIN b |-> update_usage(UsageOf(a, u), UsageOf(b, u))]
  BY DEF Merged
<1>2. update_usage_map(a, b) = [u \in kept |-> all[u]]
  BY DEF update_usage_map
<1> HIDE DEF all
<1>3. CASE hyp \in DOMAIN a \cup DOMAIN b
  <2>1. all[hyp] = update_usage(UsageOf(a, hyp), UsageOf(b, hyp))
    BY <1>1, <1>3
  <2>2. CASE all[hyp] = NotUsed
    BY <1>2, <2>1, <2>2 DEF UsageOf
  <2>3. CASE all[hyp] # NotUsed
    BY <1>1, <1>2, <1>3, <2>1, <2>3 DEF UsageOf
  <2> QED BY <2>2, <2>3
<1>4. CASE hyp \notin DOMAIN a \cup DOMAIN b
  <2>1. hyp \notin DOMAIN update_usage_map(a, b)
    BY <1>1, <1>2, <1>4
  <2> QED BY <1>4, <2>1 DEF UsageOf, update_usage
<1> QED BY <1>3, <1>4

\* A merged map holds no resource that is not used.
LEMMA MergeDomain ==
  ASSUME NEW a, NEW b
  PROVE  /\ update_usage_map(a, b) = [hyp \in DOMAIN update_usage_map(a, b) |-> update_usage_map(a, b)[hyp]]
         /\ \A hyp \in DOMAIN update_usage_map(a, b) : update_usage_map(a, b)[hyp] # NotUsed
BY DEF update_usage_map

\* Merging gives a usage map, unless it fails.
LEMMA MergeClosed ==
  ASSUME NEW a, NEW b, IsUsageMap(a), IsUsageMap(b), Composable(a, b)
  PROVE  IsUsageMap(update_usage_map(a, b))
<1> DEFINE ab == update_usage_map(a, b)
<1> SUFFICES ASSUME NEW hyp \in DOMAIN ab
             PROVE  ab[hyp] \in Pure \cup Linear
  BY MergeDomain DEF IsUsageMap
<1>1. ab[hyp] = update_usage(UsageOf(a, hyp), UsageOf(b, hyp))
  BY MergePointwise DEF UsageOf
<1>2. ab[hyp] # NotUsed /\ ab[hyp] # Failed
  BY MergeDomain DEF Composable, Fails
<1>3. ab[hyp] \in Usages \cup {Failed}
  BY <1>1, UsageClosed, UsageInMap
<1> QED BY <1>2, <1>3 DEF Usages

\* When merging does not fail, it fails on no resource.
LEMMA MergeAccepts ==
  ASSUME NEW a, NEW b, IsUsageMap(a), IsUsageMap(b), Composable(a, b), NEW hyp
  PROVE  update_usage(UsageOf(a, hyp), UsageOf(b, hyp)) # Failed
<1>1. UsageOf(update_usage_map(a, b), hyp) # Failed
  BY DEF Composable, Fails, UsageOf, NotUsed, Failed
<1> QED BY <1>1, MergePointwise

\* Maps that give the same usage to every resource are equal.
LEMMA SameUsages ==
  ASSUME NEW a, NEW b,
         a = [hyp \in DOMAIN a |-> a[hyp]], \A hyp \in DOMAIN a : a[hyp] # NotUsed,
         b = [hyp \in DOMAIN b |-> b[hyp]], \A hyp \in DOMAIN b : b[hyp] # NotUsed,
         \A hyp : UsageOf(a, hyp) = UsageOf(b, hyp)
  PROVE  a = b
<1>1. ASSUME NEW hyp PROVE hyp \in DOMAIN a <=> hyp \in DOMAIN b
  BY DEF UsageOf
<1>2. DOMAIN a = DOMAIN b
  BY <1>1
<1>3. \A hyp \in DOMAIN a : a[hyp] = b[hyp]
  BY <1>2 DEF UsageOf
<1> QED BY <1>2, <1>3

-----------------------------------------------------------------------------
\* Usages of groups of instructions.

\* The usage of a sequence does not depend on how its instructions are grouped:
\* compute_usage_of_instrs can fold over the usages of calls, or over those of
\* the blocks in which they are nested, as update_usage_map accepts its parts.
THEOREM GroupingNeutral ==
  ASSUME NEW a, NEW b, NEW c, IsUsageMap(a), IsUsageMap(b), IsUsageMap(c),
         Composable(a, b), Composable(b, c)
  PROVE  update_usage_map(update_usage_map(a, b), c) = update_usage_map(a, update_usage_map(b, c))
<1> DEFINE left == update_usage_map(update_usage_map(a, b), c)
           right == update_usage_map(a, update_usage_map(b, c))
<1>1. IsUsageMap(update_usage_map(a, b)) /\ IsUsageMap(update_usage_map(b, c))
  BY MergeClosed
<1>2. ASSUME NEW hyp PROVE UsageOf(left, hyp) = UsageOf(right, hyp)
  <2>1. UsageOf(left, hyp) =
          update_usage(update_usage(UsageOf(a, hyp), UsageOf(b, hyp)), UsageOf(c, hyp))
    BY <1>1, MergePointwise
  <2>2. UsageOf(right, hyp) =
          update_usage(UsageOf(a, hyp), update_usage(UsageOf(b, hyp), UsageOf(c, hyp)))
    BY <1>1, MergePointwise
  <2>3. /\ update_usage(UsageOf(a, hyp), UsageOf(b, hyp)) # Failed
        /\ update_usage(UsageOf(b, hyp), UsageOf(c, hyp)) # Failed
    BY MergeAccepts
  <2> QED BY <2>1, <2>2, <2>3, UsageInMap, UsageAssociative
<1>3. /\ left = [hyp \in DOMAIN left |-> left[hyp]]
      /\ \A hyp \in DOMAIN left : left[hyp] # NotUsed
  BY MergeDomain
<1>4. /\ right = [hyp \in DOMAIN right |-> right[hyp]]
      /\ \A hyp \in DOMAIN right : right[hyp] # NotUsed
  BY MergeDomain
<1> HIDE DEF left, right
<1>5. left = right
  BY <1>2, <1>3, <1>4, SameUsages
<1> QED BY <1>5 DEF left, right

\* The check of Instr.move is enough for the usage of the sequence around the
\* two groups to stay what it was: without interference the two groups have the
\* same composite in both orders.  A variable chosen arbitrarily by a call is
\* left out: the check does not compare what chooses it and what needs it.
THEOREM SwapNeutral ==
  ASSUME NEW a, NEW b, IsUsageMap(a), IsUsageMap(b),
         collect_interferences(a, b) = {},
         \A hyp \in DOMAIN a : a[hyp] # "ArbitrarilyChosen",
         \A hyp \in DOMAIN b : b[hyp] # "ArbitrarilyChosen"
  PROVE  update_usage_map(a, b) = update_usage_map(b, a)
<1>1. ASSUME NEW hyp
      PROVE  UsageOf(update_usage_map(a, b), hyp) = UsageOf(update_usage_map(b, a), hyp)
  <2>1. ~Interferes(UsageOf(a, hyp), UsageOf(b, hyp))
    <3>1. CASE hyp \in DOMAIN a \cap DOMAIN b
      BY <3>1 DEF collect_interferences, UsageOf
    <3>2. CASE hyp \notin DOMAIN a \cap DOMAIN b
      BY <3>2 DEF Interferes, UsageOf
    <3> QED BY <3>1, <3>2
  <2>2. UsageOf(a, hyp) # "ArbitrarilyChosen" /\ UsageOf(b, hyp) # "ArbitrarilyChosen"
    BY DEF UsageOf, NotUsed
  <2>3. UsageOf(a, hyp) \in Usages /\ UsageOf(b, hyp) \in Usages
    BY UsageInMap
  <2>4. update_usage(UsageOf(a, hyp), UsageOf(b, hyp)) = update_usage(UsageOf(b, hyp), UsageOf(a, hyp))
    BY <2>1, <2>2, <2>3, UsageCommutes
  <2> QED BY <2>4, MergePointwise
<1> QED BY <1>1, MergeDomain, SameUsages

\* The check on two groups implies the check on their parts, so that to move a
\* group is to move its instructions one by one: what the usage of one part has
\* is still seen in the composite.  The exception is a resource that the first
\* part makes and the second one takes away: nothing outside the group uses it.
THEOREM PartsCovered ==
  ASSUME NEW a, NEW b, NEW c, IsUsageMap(a), IsUsageMap(b), IsUsageMap(c),
         Composable(a, b),
         \A hyp \in DOMAIN c : hyp \in DOMAIN a \cup DOMAIN b => hyp \in DOMAIN update_usage_map(a, b),
         collect_interferences(update_usage_map(a, b), c) = {}
  PROVE  collect_interferences(a, c) = {} /\ collect_interferences(b, c) = {}
<1> DEFINE ab == update_usage_map(a, b)
<1>1. ASSUME NEW hyp \in DOMAIN c, hyp \in DOMAIN a \cup DOMAIN b
      PROVE  ~Interferes(UsageOf(a, hyp), c[hyp]) /\ ~Interferes(UsageOf(b, hyp), c[hyp])
  <2>1. hyp \in DOMAIN ab
    BY <1>1
  <2>2. ~Interferes(ab[hyp], c[hyp])
    BY <2>1 DEF collect_interferences
  <2>3. ab[hyp] = update_usage(UsageOf(a, hyp), UsageOf(b, hyp))
    BY <2>1, MergePointwise DEF UsageOf
  <2>4. ab[hyp] # NotUsed /\ ab[hyp] # Failed
    BY <2>1, MergeDomain DEF Composable, Fails
  <2>5. UsageOf(a, hyp) \in Usages /\ UsageOf(b, hyp) \in Usages /\ c[hyp] \in Usages
    BY UsageInMap DEF IsUsageMap, Usages
  <2> HIDE DEF ab
  <2> QED BY <2>2, <2>3, <2>4, <2>5, UsageCovers
<1>2. collect_interferences(a, c) = {}
  BY <1>1 DEF collect_interferences, UsageOf
<1>3. collect_interferences(b, c) = {}
  BY <1>1 DEF collect_interferences, UsageOf
<1> QED BY <1>2, <1>3

=============================================================================
