----------------------------- MODULE Selections -----------------------------
(***************************************************************************)
(* The plan-space algebra of a session: what a set of facet selections is, *)
(* how a batch of choices changes it, and what FASB answers about it.      *)
(*                                                                         *)
(* A plan is an answer set of the task's logic program, taken as the set   *)
(* of facets that are true in it.  FASB itself is external: its answers    *)
(* are the brave and cautious consequences and the number of answer sets   *)
(* under the selections it has been sent.                                  *)
(***************************************************************************)
EXTENDS Integers, Sequences, FiniteSets

CONSTANTS
    Facets,          \* facet identifiers of the task
    StateFacets,     \* those whose identifier starts with "holds("
    AbstractFacets,  \* those whose identifier starts with "occurs_sometime("
    StepOf,          \* the timestep of each facet (facet_timesteps)
    NoStep,          \* the timestep None
    Plans,           \* the answer sets within the horizon
    Batches          \* the batches of choices clients may send

ASSUME FacetsAssumption ==
    /\ StateFacets \subseteq Facets
    /\ AbstractFacets \subseteq Facets
    /\ StateFacets \cap AbstractFacets = {}

ASSUME PlansAssumption == /\ Plans \subseteq SUBSET Facets
                          /\ IsFiniteSet(Plans)

States == {"neutral", "positive", "negative"}

(* applied_selections; a facet that is absent from the dict is neutral. *)
Selections == [Facets -> States]

NoSelections == [f \in Facets |-> "neutral"]

Active(sel) == {f \in Facets : sel[f] # "neutral"}

(* A batch of choices, as the REST layer lets it through: each facet at    *)
(* most once.  previous is previousSelectionState, "any" when not sent.    *)
Choices == [facet : Facets, state : States, previous : States \cup {"any"}]

DistinctFacets(batch) ==
    \A i, j \in DOMAIN batch : batch[i].facet = batch[j].facet => i = j

ASSUME BatchesAssumption ==
    \A b \in Batches : b \in Seq(Choices) /\ DistinctFacets(b)

-----------------------------------------------------------------------------
(* Selecting an action positively at a fixed timestep pushes out the other *)
(* positive actions of that timestep.                                      *)

IsAction(f) == f \notin StateFacets

Competes(f, g) ==
    /\ f # g
    /\ IsAction(f) /\ IsAction(g)
    /\ StepOf[f] # NoStep
    /\ StepOf[f] = StepOf[g]

(* one pass of the loop of _updated_selections *)
KeepsCompetitors(sel, f, s) == [sel EXCEPT ![f] = s]

Updated(sel, f, s) ==
    [g \in Facets |->
        IF g = f THEN s
        ELSE IF s = "positive" /\ sel[g] = "positive" /\ Competes(f, g)
             THEN "neutral"
             ELSE sel[g]]

(* The whole loop in closed form: a facet keeps what the batch, or else    *)
(* the current selections, say of it, unless it is positive and a          *)
(* competitor is made positive after that point.                           *)
NeverDisplaced(batch, g, i) == FALSE

Displaced(batch, g, i) ==
    \E j \in DOMAIN batch : /\ j > i
                            /\ batch[j].state = "positive"
                            /\ Competes(batch[j].facet, g)

Settled(state, displaced) ==
    IF state = "positive" /\ displaced THEN "neutral" ELSE state

UpdatedSelections(sel, batch) ==
    [g \in Facets |->
        IF \E i \in DOMAIN batch : batch[i].facet = g
        THEN LET i == CHOOSE k \in DOMAIN batch : batch[k].facet = g
             IN  Settled(batch[i].state, Displaced(batch, g, i))
        ELSE Settled(sel[g], Displaced(batch, g, 0))]

(* previousSelectionState of each choice, when the client sends it *)
PreviousStatesHold(sel, batch) ==
    \A i \in DOMAIN batch :
        batch[i].previous \in {"any", sel[batch[i].facet]}

-----------------------------------------------------------------------------
(* FASB's answers under a set of selections. *)

Models(sel) ==
    {p \in Plans : \A f \in Facets : /\ sel[f] = "positive" => f \in p
                                     /\ sel[f] = "negative" => f \notin p}

CountModels(sel) == Cardinality(Models(sel))

(* "?": the facets some plan has and some plan lacks *)
Open(sel) == {f \in Facets : /\ \E p \in Models(sel) : f \in p
                             /\ \E p \in Models(sel) : f \notin p}

(* "|= %": what every plan has; a session keeps the abstract ones *)
ImpliedAbstract(sel) ==
    {f \in AbstractFacets : /\ Models(sel) # {}
                            /\ \A p \in Models(sel) : f \in p}

(* the actions of a plan that are displayed as the session's solution *)
Displayed(p) == p \ (StateFacets \cup AbstractFacets)

(* get_representative_solution accepts only a plan with some action *)
Displayable(p) == Displayed(p) # {}

-----------------------------------------------------------------------------
(* The facets a session lists and those of them a client may select: the   *)
(* alternatives that are open, the actions of the displayed solution, and  *)
(* the explicit selections, which stay listed and can be taken back.       *)
View(sel, solution) ==
    [visible    |-> Open(sel) \cup ImpliedAbstract(sel) \cup solution
                              \cup Active(sel),
     selectable |-> Open(sel) \cup Active(sel)]

(* _compose_facets with FASB's answers under "answered": a selection is    *)
(* listed only if the catalog of raw facets has it.                        *)
WithoutSelections(answered, sel, solution, catalog) ==
    [visible    |-> Open(answered) \cup ImpliedAbstract(answered) \cup solution,
     selectable |-> Open(answered)]

ComposedFacets(answered, sel, solution, catalog) ==
    LET shown  == Open(answered) \cup ImpliedAbstract(answered) \cup solution
        chosen == Active(sel) \cap (catalog \cup shown)
    IN  [visible |-> shown \cup chosen, selectable |-> Open(answered) \cup chosen]

(* selectionImpact: the two previewed routes, and when their counts add up *)
RequireRoute(sel, f) == Updated(sel, f, "positive")
ForbidRoute(sel, f) == Updated(sel, f, "negative")

ComparableWithoutCompetitors(sel, f) == f \notin Active(sel)
ComparableWhenSelected(sel, f) ==
    ~ \E g \in Facets : sel[g] = "positive" /\ Competes(f, g)

Comparable(sel, f) ==
    /\ f \notin Active(sel)
    /\ ~ \E g \in Facets : sel[g] = "positive" /\ Competes(f, g)

-----------------------------------------------------------------------------
(* At most one positive action per fixed timestep. *)
OnePositivePerStep(sel) ==
    \A f, g \in Facets :
        Competes(f, g) => ~ (sel[f] = "positive" /\ sel[g] = "positive")
=============================================================================
