------------------------------ MODULE MCSession ------------------------------
(* Two actions compete at step 1; a state facet shares the step.  One plan *)
(* has no action at all, so that forbidding both actions finds no plan     *)
(* that can be displayed, and requiring b without h finds none.            *)
EXTENDS Session, TLC

CONSTANTS a, b, h

MCFacets == {a, b, h}
MCStepOf == [f \in MCFacets |-> 1]
MCPlans == {{a}, {a, h}, {b, h}, {h}}

Pick(f, s) == [facet |-> f, state |-> s, previous |-> "any"]
From(f, p, s) == [facet |-> f, state |-> s, previous |-> p]

MCBatches == {<<Pick(a, "positive")>>,
              <<Pick(b, "positive"), Pick(h, "negative")>>,
              <<From(a, "positive", "neutral")>>}

OneBatch == {<<Pick(a, "positive")>>}

Ask(type, facet, number) == [type |-> type, facet |-> facet, number |-> number]

CountQuery == {Ask("solutionCount", None, 0)}
(* fewer than the plans at first, more than those that have a *)
ShowQueries == {Ask("solution", None, 3)}
ImpactQueries == {Ask("selectionImpact", a, 0)}
ReadQueries == {Ask("facets", None, 0), Ask("probe", None, 0)}

AllQueries == CountQuery \cup ShowQueries \cup ImpactQueries \cup ReadQueries
JobQueries == CountQuery \cup ImpactQueries

Twins == Permutations(Requests) \cup Permutations(Jobs)
RequestTwins == Permutations(Requests)
=============================================================================
