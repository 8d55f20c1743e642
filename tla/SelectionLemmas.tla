--------------------------- MODULE SelectionLemmas ---------------------------
(***************************************************************************)
(* Facts about the operators of Selections, for every set of facets, plans *)
(* and batches.                                                            *)
(***************************************************************************)
EXTENDS Selections, FiniteSetTheorems, TLAPS

LEMMA CompetesSymmetric ==
    ASSUME NEW f \in Facets, NEW g \in Facets, Competes(f, g)
    PROVE  Competes(g, f)
BY DEF Competes, IsAction

(* One choice yields selections again. *)
LEMMA UpdatedTyped ==
    ASSUME NEW sel \in Selections, NEW f, NEW s \in States
    PROVE  Updated(sel, f, s) \in Selections
BY DEF Updated, Selections, States

(* So does a whole batch. *)
LEMMA UpdatedSelectionsTyped ==
    ASSUME NEW sel \in Selections, NEW batch \in Seq(Choices)
    PROVE  UpdatedSelections(sel, batch) \in Selections
<1>1. ASSUME NEW g \in Facets
      PROVE  UpdatedSelections(sel, batch)[g] \in States
  <2>1. ASSUME NEW i \in DOMAIN batch PROVE batch[i].state \in States
    <3>1. batch[i] \in Choices
      BY <2>1
    <3> QED
      BY <3>1 DEF Choices
  <2>2. CASE \E i \in DOMAIN batch : batch[i].facet = g
    <3> DEFINE k == CHOOSE k \in DOMAIN batch : batch[k].facet = g
    <3>1. k \in DOMAIN batch
      BY <2>2
    <3>2. Settled(batch[k].state, Displaced(batch, g, k)) \in States
      BY <2>1, <3>1 DEF Settled, States
    <3> QED
      BY <2>2, <3>2 DEF UpdatedSelections
  <2>3. CASE ~ \E i \in DOMAIN batch : batch[i].facet = g
    BY <2>3 DEF UpdatedSelections, Settled, States, Selections
  <2> QED
    BY <2>2, <2>3
<1> QED
  BY <1>1 DEF UpdatedSelections, Selections

(* The facet list, the displayed solution and FASB's counts have the types *)
(* that a session keeps.                                                   *)
LEMMA ModelsTyped ==
    ASSUME NEW sel
    PROVE  /\ Models(sel) \subseteq Plans
           /\ IsFiniteSet(Models(sel))
           /\ CountModels(sel) \in Nat
<1>1. Models(sel) \subseteq Plans
  BY DEF Models
<1>2. IsFiniteSet(Models(sel))
  BY <1>1, PlansAssumption, FS_Subset
<1> QED
  BY <1>1, <1>2, FS_CardinalityType DEF CountModels

LEMMA DisplayedTyped ==
    ASSUME NEW sel, NEW p \in Models(sel)
    PROVE  Displayed(p) \in SUBSET Facets
BY ModelsTyped, PlansAssumption DEF Displayed

LEMMA ComposedFacetsTyped ==
    ASSUME NEW answered, NEW sel, NEW solution \in SUBSET Facets, NEW catalog
    PROVE  ComposedFacets(answered, sel, solution, catalog)
             \in [visible : SUBSET Facets, selectable : SUBSET Facets]
<1>1. Open(answered) \subseteq Facets /\ Active(sel) \subseteq Facets
  BY DEF Open, Active
<1>2. ImpliedAbstract(answered) \subseteq Facets
  BY FacetsAssumption DEF ImpliedAbstract
<1> QED
  BY <1>1, <1>2 DEF ComposedFacets

(* Selecting one facet leaves at most one positive action at a timestep. *)
LEMMA UpdatedKeepsOnePositive ==
    ASSUME NEW sel \in Selections, OnePositivePerStep(sel),
           NEW f \in Facets, NEW s \in States
    PROVE  OnePositivePerStep(Updated(sel, f, s))
<1> SUFFICES ASSUME NEW g \in Facets, NEW h \in Facets, Competes(g, h),
                    Updated(sel, f, s)[g] = "positive",
                    Updated(sel, f, s)[h] = "positive"
             PROVE  FALSE
  BY DEF OnePositivePerStep
<1>1. g # h /\ Competes(h, g)
  BY CompetesSymmetric DEF Competes
<1>2. CASE g = f
  BY <1>1, <1>2 DEF Updated
<1>3. CASE h = f
  BY <1>1, <1>3 DEF Updated
<1>4. CASE g # f /\ h # f
  <2>1. sel[g] = "positive" /\ sel[h] = "positive"
    BY <1>4 DEF Updated
  <2> QED
    BY <2>1 DEF OnePositivePerStep
<1> QED
  BY <1>2, <1>3, <1>4

(* Where the batch is extended, a facet is displaced from a position on    *)
(* when it was before, or when the last choice makes a competitor positive. *)
LEMMA DisplacedByAppend ==
    ASSUME NEW b \in Seq(Choices), NEW c \in Choices, NEW g \in Facets,
           NEW i \in 0..Len(b)
    PROVE  Displaced(Append(b, c), g, i)
             <=> \/ Displaced(b, g, i)
                 \/ c.state = "positive" /\ Competes(c.facet, g)
<1> DEFINE n == Len(b)
           a == Append(b, c)
<1>1. n \in Nat /\ DOMAIN b = 1..n /\ DOMAIN a = 1..(n + 1)
  OBVIOUS
<1>2. a[n + 1] = c /\ \A j \in 1..n : a[j] = b[j]
  OBVIOUS
<1>3. \A j \in 1..(n + 1) : j \in 1..n \/ j = n + 1
  BY <1>1
<1>4. n + 1 > i /\ n + 1 \in 1..(n + 1) /\ 1..n \subseteq 1..(n + 1)
  BY <1>1
<1> QED
  BY <1>1, <1>2, <1>3, <1>4 DEF Displaced

(* The closed form of _updated_selections follows its loop: one more       *)
(* choice in the batch is one more pass.                                   *)
THEOREM BatchByOneChoice ==
    ASSUME NEW sel \in Selections, NEW b \in Seq(Choices), NEW c \in Choices,
           DistinctFacets(Append(b, c))
    PROVE  UpdatedSelections(sel, Append(b, c))
             = Updated(UpdatedSelections(sel, b), c.facet, c.state)
<1> DEFINE n == Len(b)
           a == Append(b, c)
           u == UpdatedSelections(sel, b)
<1>1. n \in Nat /\ DOMAIN b = 1..n /\ DOMAIN a = 1..(n + 1)
  OBVIOUS
<1>2. a[n + 1] = c /\ \A j \in 1..n : a[j] = b[j]
  OBVIOUS
<1>3. \A i, j \in 1..(n + 1) : a[i].facet = a[j].facet => i = j
  BY <1>1 DEF DistinctFacets
<1>4. 1..n \subseteq 1..(n + 1) /\ n + 1 \in 1..(n + 1) /\ n + 1 \notin 1..n
      /\ \A j \in 1..(n + 1) : j \in 1..n \/ j = n + 1
  BY <1>1
<1>5. ASSUME NEW g \in Facets
      PROVE  UpdatedSelections(sel, a)[g] = Updated(u, c.facet, c.state)[g]
  <2>1. CASE g = c.facet
    <3>1. a[n + 1].facet = g /\ n + 1 \in DOMAIN a
      BY <1>1, <1>2, <1>4, <2>1
    <3>2. (CHOOSE k \in DOMAIN a : a[k].facet = g) = n + 1
      BY <1>1, <1>3, <3>1
    <3>3. ~ Displaced(a, g, n + 1)
      <4>1. \A j \in DOMAIN a : ~ j > n + 1
        BY <1>1
      <4> QED
        BY <4>1 DEF Displaced
    <3>4. UpdatedSelections(sel, a)[g] = c.state
      BY <1>2, <3>1, <3>2, <3>3 DEF UpdatedSelections, Settled
    <3> QED
      BY <2>1, <3>4 DEF Updated
  <2>2. CASE g # c.facet
    <3> DEFINE later == c.state = "positive" /\ Competes(c.facet, g)
    <3>1. Updated(u, c.facet, c.state)[g] = Settled(u[g], later)
      BY <2>2 DEF Updated, Settled
    <3>2. ASSUME NEW s, NEW i \in 0..n
          PROVE  Settled(s, Displaced(a, g, i))
                   = Settled(Settled(s, Displaced(b, g, i)), later)
      <4>1. Displaced(a, g, i) <=> Displaced(b, g, i) \/ later
        BY DisplacedByAppend
      <4> QED
        BY <4>1 DEF Settled
    <3>3. CASE \E i \in DOMAIN b : b[i].facet = g
      <4> DEFINE k == CHOOSE k \in DOMAIN b : b[k].facet = g
                 m == CHOOSE m \in DOMAIN a : a[m].facet = g
      <4>1. k \in 1..n /\ b[k].facet = g
        BY <1>1, <3>3
      <4>2. k \in DOMAIN a /\ a[k].facet = g
        BY <1>1, <1>2, <1>4, <4>1
      <4>3. m = k
        BY <1>1, <1>3, <4>2
      <4>4. UpdatedSelections(sel, a)[g] = Settled(b[k].state, Displaced(a, g, k))
        BY <1>2, <4>1, <4>2, <4>3 DEF UpdatedSelections
      <4>5. u[g] = Settled(b[k].state, Displaced(b, g, k))
        BY <3>3 DEF UpdatedSelections
      <4>6. k \in 0..n
        BY <1>1, <4>1
      <4> QED
        BY <3>1, <3>2, <4>4, <4>5, <4>6
    <3>4. CASE ~ \E i \in DOMAIN b : b[i].facet = g
      <4>1. ~ \E i \in DOMAIN a : a[i].facet = g
        BY <1>1, <1>2, <1>4, <2>2, <3>4
      <4>2. UpdatedSelections(sel, a)[g] = Settled(sel[g], Displaced(a, g, 0))
        BY <4>1 DEF UpdatedSelections
      <4>3. u[g] = Settled(sel[g], Displaced(b, g, 0))
        BY <3>4 DEF UpdatedSelections
      <4>4. 0 \in 0..n
        BY <1>1
      <4> QED
        BY <3>1, <3>2, <4>2, <4>3, <4>4
    <3> QED
      BY <3>3, <3>4
  <2> QED
    BY <2>1, <2>2
<1> QED
  BY <1>5 DEF UpdatedSelections, Updated

(* A comparable facet is in none of the selections, and neither preview    *)
(* changes any other selection.                                            *)
LEMMA ComparableRoutes ==
    ASSUME NEW sel \in Selections, NEW f \in Facets, Comparable(sel, f)
    PROVE  /\ sel[f] = "neutral"
           /\ RequireRoute(sel, f) = [sel EXCEPT ![f] = "positive"]
           /\ ForbidRoute(sel, f) = [sel EXCEPT ![f] = "negative"]
<1>1. sel[f] = "neutral"
  BY DEF Comparable, Active
<1>2. \A g \in Facets : ~ (sel[g] = "positive" /\ Competes(f, g))
  BY DEF Comparable
<1>3. RequireRoute(sel, f) = [sel EXCEPT ![f] = "positive"]
  BY <1>2 DEF RequireRoute, Updated, Selections
<1>4. ForbidRoute(sel, f) = [sel EXCEPT ![f] = "negative"]
  BY DEF ForbidRoute, Updated, Selections
<1> QED
  BY <1>1, <1>3, <1>4

(* selectionImpact: when the previews are called comparable, every plan of *)
(* the current plan space is in exactly one of them, so that the sum that  *)
(* is stored as solution_count is the current number of plans.             *)
THEOREM ImpactPartition ==
    ASSUME NEW sel \in Selections, NEW f \in Facets, Comparable(sel, f)
    PROVE  CountModels(RequireRoute(sel, f)) + CountModels(ForbidRoute(sel, f))
             = CountModels(sel)
<1> DEFINE R == Models(RequireRoute(sel, f))
           F == Models(ForbidRoute(sel, f))
<1>1. /\ sel[f] = "neutral"
      /\ RequireRoute(sel, f) = [sel EXCEPT ![f] = "positive"]
      /\ ForbidRoute(sel, f) = [sel EXCEPT ![f] = "negative"]
  BY ComparableRoutes
<1>2. R = {p \in Models(sel) : f \in p}
  BY <1>1 DEF Models, Selections
<1>3. F = {p \in Models(sel) : f \notin p}
  BY <1>1 DEF Models, Selections
<1>4. IsFiniteSet(Models(sel))
  BY PlansAssumption, FS_Subset DEF Models
<1>5. IsFiniteSet(R) /\ IsFiniteSet(F)
  BY <1>2, <1>3, <1>4, FS_Subset
<1>6. R \cup F = Models(sel) /\ R \cap F = {}
  BY <1>2, <1>3
<1>7. Cardinality(R \cup F) = Cardinality(R) + Cardinality(F) - Cardinality(R \cap F)
  BY <1>5, FS_Union
<1>8. Cardinality(R \cap F) = 0
  BY <1>6, FS_EmptySet
<1>9. Cardinality(R) \in Nat /\ Cardinality(F) \in Nat
  BY <1>5, FS_CardinalityType
<1>10. Cardinality(Models(sel)) = Cardinality(R) + Cardinality(F)
  <2> DEFINE r == Cardinality(R)
             m == Cardinality(F)
             n == Cardinality(R \cap F)
             u == Cardinality(R \cup F)
  <2>1. r \in Nat /\ m \in Nat /\ n = 0 /\ u = r + m - n
    BY <1>7, <1>8, <1>9
  <2>2. u = r + m
    <3> HIDE DEF r, m, n, u
    <3> QED
      BY <2>1
  <2> QED
    BY <1>6, <2>2
<1> QED
  BY <1>10 DEF CountModels
=============================================================================
