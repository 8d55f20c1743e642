------------------------- MODULE LandmarkHeuristics -------------------------
(***************************************************************************)
(* Which landmarks are past in a state and which are still to come depends *)
(* on the paths it was reached on; the landmark heuristics are sums over   *)
(* those to come.  A status is [past, future], two sets of landmarks;      *)
(* flags are the kinds of progression that are switched on.                *)
(***************************************************************************)
EXTENDS Landmarks

(* past: by intersection, future: by union                                 *)
NoStatus(g) == [past |-> Lms(g), future |-> {}]

ProgressInitialState(g, s) ==
    LET holds == {lm \in Lms(g) : IsTrueIn(lm, s)}
    IN  [past |-> holds,
         future |-> (Lms(g) \ holds) \cup
                    {lm \in holds : \E p \in Parents(g, lm) : p \notin holds}]

ChildrenOver(g, lm, type) == {c \in Children(g, lm) : g.edges[<<lm, c>>] = type}

(* (a deviation: a landmark stays to come although the step made it true)  *)
KeepsWhatWasMadeTrue(g, from, s, to, known) ==
    LET missed == {lm \in from.future : ~IsTrueIn(lm, to)}
    IN  [past |-> known.past \ (missed \ from.past), future |-> known.future \cup from.future]

(* what was to come in state s still is in state to, unless the step from  *)
(* s to to made it true                                                    *)
ProgressLandmarks(g, from, s, to, known) ==
    LET missed == {lm \in from.future : ~IsTrueIn(lm, to)}
        kept == {lm \in from.future : IsTrueIn(lm, to) /\ IsTrueIn(lm, s)}
    IN  [past |-> known.past \ (missed \ from.past), future |-> known.future \cup missed \cup kept]

ProgressGoals(g, to) == {lm \in Lms(g) : g.info[lm].goal /\ ~IsTrueIn(lm, to)}

(* needed directly before a landmark that is not past                      *)
ProgressGreedyNecessary(g, to, past) ==
    {lm \in Lms(g) : ~IsTrueIn(lm, to) /\ ~(ChildrenOver(g, lm, GreedyNecessary) \subseteq past)}

ProgressReasonable(g, past) ==
    {lm \in Lms(g) : \E p \in Parents(g, lm) : g.edges[<<p, lm>>] = Reasonable /\ p \notin past}

WithOrders(g, flags, to, status) ==
    [status EXCEPT !.future = @ \cup (IF flags.goals THEN ProgressGoals(g, to) ELSE {})
        \cup (IF flags.greedy THEN ProgressGreedyNecessary(g, to, status.past) ELSE {})
        \cup (IF flags.reasonable THEN ProgressReasonable(g, status.past) ELSE {})]

(* known: what earlier paths to the state have left                        *)
Progress(g, flags, from, s, to, known) ==
    IF s = to THEN known
    ELSE WithOrders(g, flags, to, ProgressLandmarks(g, from, s, to, known))

-----------------------------------------------------------------------------
(* A cycle of natural orders: the search goes depth first, what is closed  *)
(* is not on a cycle.                                                      *)
HasCycleOfNaturalOrderings(g) ==
    LET after(S) == {c \in UNION {Children(g, lm) : lm \in S} :
                        \E lm \in S : c \in Children(g, lm) /\ g.edges[<<lm, c>>] >= Natural}
    IN  \E lm \in Lms(g) : lm \in Fixpoint(LAMBDA S : S \cup after(S), after({lm}))

Achievers(g, status, lm) ==
    IF lm \in status.past THEN g.info[lm].possible ELSE g.info[lm].first

(* any operator may be what makes a derived landmark true                  *)
AchieversNow(t, g, status, lm) ==
    IF g.info[lm].derived THEN DOMAIN t.operators ELSE Achievers(g, status, lm)

(* axioms cost nothing                                                     *)
CostOf(t, o) == IF o \in DOMAIN t.operators THEN t.operators[o].cost ELSE 0

(* the cost of a derived landmark is that of any operator                  *)
MinCostOfAchievers(t, g, status, lm) ==
    IF g.info[lm].derived THEN MinOperatorCost(t)
    ELSE Min({CostOf(t, o) : o \in Achievers(g, status, lm)} \cup {Infinity})

LandmarkSum(t, g, status) ==
    LET cost(lm) == MinCostOfAchievers(t, g, status, lm)
    IN  IF \E lm \in status.future : cost(lm) = Infinity THEN Infinity
        ELSE SumOver(status.future, cost)

-----------------------------------------------------------------------------
(* Uniform cost partitioning: the cost of an operator is shared equally by *)
(* the landmarks it may achieve.  Shares are counted in parts of the unit  *)
(* cost, of which there are Parts (divisible by every number to 10).       *)
Parts == 2520

Shared(t, needs, relevant) ==
    LET sharing(o) == Cardinality({lm \in relevant : o \in needs[lm]})
        least(lm) == Min({(t.operators[o].cost * Parts) \div sharing(o) : o \in needs[lm]})
    IN  SumOver(relevant, least)

(* actions: the operators that are the only achiever of a landmark         *)
WithActionLandmarks(t, needs, actions) ==
    SumOver(actions, LAMBDA o : t.operators[o].cost * Parts)
    + Shared(t, needs, {lm \in DOMAIN needs : needs[lm] \cap actions = {}})

PartitionedCost(t, needs, useActionLandmarks) ==
    WithActionLandmarks(t, needs,
        IF useActionLandmarks
        THEN UNION {needs[lm] : lm \in {lm \in DOMAIN needs : Cardinality(needs[lm]) = 1}} ELSE {})

(* rounded up, less a hundredth                                            *)
RoundedUp(parts) ==
    LET hundredths == 100 * parts - Parts
    IN  IF hundredths <= 0 THEN 0 ELSE (hundredths + 100 * Parts - 1) \div (100 * Parts)

UniformCostPartitioning(t, g, status, useActionLandmarks) ==
    LET needs == [lm \in status.future |-> Achievers(g, status, lm)]
    IN  IF \E lm \in status.future : needs[lm] = {} THEN Infinity
        ELSE RoundedUp(PartitionedCost(t, needs, useActionLandmarks))

(* h: a heuristic with its task, graph, kind, flags and whether it has one *)
(* of these cycles                                                         *)
LandmarkHeuristicValue(h, status) ==
    IF h.cyclic THEN Infinity
    ELSE IF h.kind = "sum" THEN LandmarkSum(h.task, h.graph, status)
    ELSE UniformCostPartitioning(h.task, h.graph, status, h.kind = "uniform_alm")
=============================================================================
