--------------------------- MODULE ResourceUsages ---------------------------
(***************************************************************************)
(* How an instruction uses each resource, how the usages of consecutive    *)
(* instructions compose, and when two usages interfere                     *)
(* (lib/framework/resources/resource_computation.ml and resources.ml).     *)
(***************************************************************************)

Pure == {"Required", "Ensured", "ArbitrarilyChosen", "Cleared"}
Linear == {"ConsumedFull", "ConsumedUninit", "SplittedFrac", "JoinedFrac", "Produced"}
NotUsed == "not_used"
Failed == "failure"
Usages == Pure \cup Linear \cup {NotUsed}

\* The usage that results from the usage current, followed by extra.
update_usage(current, extra) ==
  CASE current = NotUsed -> extra
    [] extra = NotUsed -> current
    [] current \in {"Required", "Ensured", "ArbitrarilyChosen"} /\ extra = "Required" -> current
    [] current = "Required" /\ extra = "Cleared" -> "Cleared"
    [] current \in {"Ensured", "ArbitrarilyChosen"} /\ extra = "Cleared" -> NotUsed
    [] current = "Produced" /\ extra \in {"ConsumedFull", "ConsumedUninit"} -> NotUsed
    [] current = "Produced" /\ extra \in {"SplittedFrac", "JoinedFrac"} -> "Produced"
    [] current = "JoinedFrac" /\ extra = "ConsumedUninit" -> "ConsumedUninit"
    [] current = "JoinedFrac" /\ extra = "ConsumedFull" -> "ConsumedFull"
    [] current = "SplittedFrac" /\ extra \in {"ConsumedFull", "ConsumedUninit"} -> "ConsumedFull"
    [] current = "JoinedFrac" /\ extra = "JoinedFrac" -> "JoinedFrac"
    [] current = "SplittedFrac" /\ extra \in {"SplittedFrac", "JoinedFrac"} -> "SplittedFrac"
    [] current = "JoinedFrac" /\ extra = "SplittedFrac" -> "SplittedFrac"
    [] OTHER -> Failed

\* A usage map is a function on the resources used.
UsageOf(map, hyp) == IF hyp \in DOMAIN map THEN map[hyp] ELSE NotUsed
Merged(current, extra) ==
  [hyp \in DOMAIN current \cup DOMAIN extra |-> update_usage(UsageOf(current, hyp), UsageOf(extra, hyp))]
update_usage_map(current, extra) ==
  LET all == Merged(current, extra)
  IN  [hyp \in {u \in DOMAIN all : all[u] # NotUsed} |-> all[hyp]]
Fails(map) == \E hyp \in DOMAIN map : map[hyp] = Failed

\* Faulty: to produce a resource is not an effect.
EffectsOnOthers == {"Ensured", "Cleared", "ConsumedFull", "ConsumedUninit"}

Effects == {"Ensured", "Cleared", "Produced", "ConsumedFull", "ConsumedUninit"}

\* Faulty: only what both usages write interferes.
BothWrite(u, v) == u \in Effects /\ v \in Effects

Interferes(u, v) == u # NotUsed /\ v # NotUsed /\ (u \in Effects \/ v \in Effects)

collect_interferences(before, after) ==
  {hyp \in DOMAIN before \cap DOMAIN after : Interferes(before[hyp], after[hyp])}

=============================================================================
