------------------------- MODULE TransitionSystems --------------------------
(***************************************************************************)
(* The factored transition system of merge-and-shrink and the reduction of *)
(* its labels.  A transition                                               *)
(* system has the states 0..size-1 and groups of labels with the same      *)
(* transitions <<source, target>>; a label is an operator, or what several *)
(* labels were reduced to.  costs[l] is the cost of label l, -1 once it is *)
(* reduced.  A factor is a system with the distances of its states and the *)
(* abstract state of each state of the task: rep[s], Pruned if it has none *)
(* (the code's tables hold the same map for the values of the variables).  *)
(***************************************************************************)
EXTENDS PlanningTask

Pruned == -1

AbstractStates(ts) == 0..(ts.size - 1)

ActiveLabels(costs) == {l \in DOMAIN costs : costs[l] # -1}

LabelGroup(costs, labels, transitions) ==
    [labels |-> labels, transitions |-> transitions,
     cost |-> Min({costs[l] : l \in labels} \cup {Infinity})]

(* labels join the first group that has their transitions                  *)
AddLabels(costs, groups, labels, transitions) ==
    LET same == {i \in DOMAIN groups : groups[i].transitions = transitions}
    IN  IF same = {} THEN Append(groups, LabelGroup(costs, labels, transitions))
        ELSE [groups EXCEPT ![Min(same)] = LabelGroup(costs, @.labels \cup labels, transitions)]

(* groups without labels are inactive; the others with equal transitions   *)
(* are merged into the first                                               *)
ComputeEquivalentLocalLabels(costs, groups) ==
    FoldLeft(LAMBDA made, g : IF g.labels = {} THEN made
                              ELSE AddLabels(costs, made, g.labels, g.transitions), <<>>, groups)

-----------------------------------------------------------------------------
(* The atomic systems, one for each variable                               *)

CreateLabels(t) == [o \in DOMAIN t.operators |-> t.operators[o].cost]

GoalValues(t, v) ==
    IF v \in GoalVars(t) THEN {g[2] : g \in {g \in ToSet(t.goals) : g[1] = v}} ELSE Values(t, v)

ValuesBefore(t, op, v) ==
    LET given == {f[2] : f \in {f \in op.preconditions : f[1] = v}}
    IN  IF given = {} THEN Values(t, v) ELSE given

(* the value is set where the effect may trigger, kept where it may not    *)
HandleOperatorEffect(t, op, e) ==
    LET v == e.fact[1]
        own == {c[2] : c \in {c \in e.conditions : c[1] = v}}
        before == ValuesBefore(t, op, v)
        others == \E c \in e.conditions : c[1] # v
    IN  {<<d, e.fact[2]>> : d \in {d \in before : own \subseteq {d}}} \cup
        {<<d, d>> : d \in {d \in before : e.conditions # {} /\ (others \/ d \notin own)}}

OperatorTransitions(t, op, v) ==
    IF v \in EffectVars(op)
    THEN UNION {HandleOperatorEffect(t, op, e) : e \in {e \in ToSet(op.effects) : e.fact[1] = v}}
    ELSE {<<d, d>> : d \in ValuesBefore(t, op, v)}

IsRelevantFor(op, v) == v \in EffectVars(op) \cup {f[1] : f \in op.preconditions}

(* irrelevant operators form a group of their own                          *)
BuildTransitions(t, v, costs) ==
    LET ops == [o \in DOMAIN t.operators |-> o]
        relevant == SelectSeq(ops, LAMBDA o : IsRelevantFor(t.operators[o], v))
        irrelevant == DOMAIN t.operators \ ToSet(relevant)
        groups == FoldLeft(LAMBDA gs, o : AddLabels(costs, gs, {o},
                               OperatorTransitions(t, t.operators[o], v)), <<>>, relevant)
    IN  IF irrelevant = {} THEN groups
        ELSE Append(groups, LabelGroup(costs, irrelevant, {<<d, d>> : d \in Values(t, v)}))

AtomicSystem(t, v, costs) ==
    [vars |-> {v}, size |-> t.sizes[v], goals |-> GoalValues(t, v), init |-> t.initial[v],
     groups |-> BuildTransitions(t, v, costs)]

-----------------------------------------------------------------------------
(* The product of two systems: s1 * size2 + s2 stands for <<s1, s2>>.      *)
(* Labels are together if they are in both; the labels that are dead in    *)
(* either share the last group.  (A hash table orders the groups made from *)
(* one of the first system; here the second one's order does.)             *)

ProductTransitions(n, T1, T2) ==
    {<<x[1][1] * n + x[2][1], x[1][2] * n + x[2][2]>> : x \in T1 \X T2}

Buckets(costs, g, b) ==
    FlattenSeq([j \in DOMAIN b.groups |->
        LET labels == g.labels \cap b.groups[j].labels
        IN  IF labels = {} THEN <<>>
            ELSE <<LabelGroup(costs, labels,
                       ProductTransitions(b.size, g.transitions, b.groups[j].transitions))>>])

MergeGroups(costs, a, b) ==
    LET all == FlattenSeq([i \in DOMAIN a.groups |-> Buckets(costs, a.groups[i], b)])
        dead == UNION {g.labels : g \in {g \in ToSet(all) : g.transitions = {}}}
    IN  SelectSeq(all, LAMBDA g : g.transitions # {}) \o
        (IF dead = {} THEN <<>> ELSE <<LabelGroup(costs, dead, {})>>)

MergeSystems(costs, a, b) ==
    [vars |-> a.vars \cup b.vars, size |-> a.size * b.size,
     goals |-> {x[1] * b.size + x[2] : x \in a.goals \X b.goals},
     init |-> a.init * b.size + b.init,
     groups |-> MergeGroups(costs, a, b)]

-----------------------------------------------------------------------------
(* Abstraction: classes is a sequence of disjoint sets of states, which    *)
(* become one state each; a state in none of them is pruned.               *)

ClassOf(classes, s) == Max({i \in DOMAIN classes : s \in classes[i]} \cup {0}) - 1

ComputeAbstractionMapping(n, classes) ==
    FoldLeft(LAMBDA m, i : Append(m, ClassOf(classes, i - 1)), <<>>, [i \in 1..n |-> i])

AbstractTransitions(mapping, T) ==
    {x \in {<<mapping[y[1] + 1], mapping[y[2] + 1]>> : y \in T} : Pruned \notin {x[1], x[2]}}

ApplyAbstraction(costs, ts, classes, mapping) ==
    [ts EXCEPT
        !.size = Len(classes),
        !.goals = {i - 1 : i \in {i \in DOMAIN classes : classes[i] \cap ts.goals # {}}},
        !.init = mapping[@ + 1],
        !.groups = ComputeEquivalentLocalLabels(costs, [i \in DOMAIN @ |->
            LabelGroup(costs, @[i].labels, AbstractTransitions(mapping, @[i].transitions))])]

-----------------------------------------------------------------------------
(* Label reduction: a mapping is a sequence of [new, old], a new label for *)
(* a set of old ones.  Where the old ones are equivalent the new one takes *)
(* their place; elsewhere it has the transitions of all of them.           *)

ReduceLabels(costs, mapping) ==
    FoldLeft(LAMBDA c, m : Append([l \in DOMAIN c |-> IF l \in m.old THEN -1 ELSE c[l]],
                                  Min({c[l] : l \in m.old})), costs, mapping)

OldLabels(mapping) == UNION {m.old : m \in ToSet(mapping)}

ReplaceLabels(costs, mapping, g) ==
    LabelGroup(costs,
        (g.labels \ OldLabels(mapping)) \cup
            {m.new : m \in {m \in ToSet(mapping) : m.old \cap g.labels # {}}},
        g.transitions)

CombinedGroup(costs, groups, m) ==
    LabelGroup(costs, {m.new},
        UNION {g.transitions : g \in {g \in ToSet(groups) : g.labels \cap m.old # {}}})

ApplyLabelReduction(costs, ts, mapping, onlyEquivalent) ==
    [ts EXCEPT !.groups =
        IF onlyEquivalent THEN [i \in DOMAIN @ |-> ReplaceLabels(costs, mapping, @[i])]
        ELSE ComputeEquivalentLocalLabels(costs,
            [i \in DOMAIN @ |-> LabelGroup(costs, @[i].labels \ OldLabels(mapping), @[i].transitions)]
            \o [k \in DOMAIN mapping |-> CombinedGroup(costs, @, mapping[k])])]

-----------------------------------------------------------------------------
(* Distances from the initial state and to the goal: those of a            *)
(* breadth-first search if all groups cost 1, of Dijkstra's algorithm      *)
(* otherwise; sequences, <<>> if they are not computed.                    *)

Edges(ts) == UNION {{<<x[1], x[2], g.cost>> : x \in g.transitions} : g \in ToSet(ts.groups)}

Reversed(edges) == {<<e[2], e[1], e[3]>> : e \in edges}

ShortestDistances(n, edges, start) ==
    Fixpoint(LAMBDA d : [i \in 1..n |->
                 Min({d[i]} \cup {Plus(d[e[1] + 1], e[3]) : e \in {e \in edges : e[2] = i - 1}})],
             [i \in 1..n |-> IF i - 1 \in start THEN 0 ELSE Infinity])

InitDistances(ts) == ShortestDistances(ts.size, Edges(ts), {ts.init})
GoalDistances(ts) == ShortestDistances(ts.size, Reversed(Edges(ts)), ts.goals)

ComputeDistances(ts, compute) ==
    [init |-> IF "init" \in compute THEN InitDistances(ts) ELSE <<>>,
     goal |-> IF "goal" \in compute THEN GoalDistances(ts) ELSE <<>>]

ClassDistances(dist, classes) ==
    IF dist = <<>> THEN <<>>
    ELSE FoldLeft(LAMBDA d, c : Append(d, dist[Min(c) + 1]), <<>>, classes)

IsUniform(dist, class) == Cardinality({dist[s + 1] : s \in class}) = 1

(* computed anew unless the states of each class agree in theirs           *)
DistancesAfterAbstraction(dist, ts, classes, compute) ==
    IF \A d \in {dist.init, dist.goal} \ {<<>>} : \A c \in ToSet(classes) : IsUniform(d, c)
    THEN [init |-> ClassDistances(dist.init, classes), goal |-> ClassDistances(dist.goal, classes)]
    ELSE ComputeDistances(ts, compute)

-----------------------------------------------------------------------------
(* Factors                                                                 *)

Merged == [active |-> FALSE]

ActiveFactors(fts) == {i \in DOMAIN fts.factors : fts.factors[i].active}

NewFactor(ts, rep, compute) ==
    [active |-> TRUE, ts |-> ts, dist |-> ComputeDistances(ts, compute), rep |-> rep]

(* compute: which distances are kept up to date                            *)
CreateFactoredTransitionSystem(t, compute, S) ==
    [costs |-> CreateLabels(t), compute |-> compute,
     factors |-> FoldLeft(LAMBDA fs, v :
         Append(fs, NewFactor(AtomicSystem(t, v, CreateLabels(t)), [s \in S |-> s[v]], compute)),
         <<>>, [v \in Vars(t) |-> v])]

AbstractFactor(f, ts, classes, mapping, compute) ==
    [f EXCEPT !.ts = ts, !.dist = DistancesAfterAbstraction(@, ts, classes, compute),
              !.rep = [s \in DOMAIN @ |-> IF @[s] = Pruned THEN Pruned ELSE mapping[@[s] + 1]]]

AbstractWith(fts, f, classes, mapping) ==
    AbstractFactor(f, ApplyAbstraction(fts.costs, f.ts, classes, mapping), classes, mapping,
                   fts.compute)

(* as many classes as states: nothing changes                              *)
ApplyToFactor(fts, i, classes) ==
    IF Len(classes) = fts.factors[i].ts.size THEN fts
    ELSE [fts EXCEPT !.factors[i] = AbstractWith(fts, @, classes,
                                        ComputeAbstractionMapping(@.ts.size, classes))]

ApplyLabelMapping(fts, mapping, combinable) ==
    LET costs == ReduceLabels(fts.costs, mapping)
    IN  [fts EXCEPT !.costs = costs, !.factors = [i \in DOMAIN @ |->
            IF @[i].active
            THEN [@[i] EXCEPT !.ts = ApplyLabelReduction(costs, @, mapping, i # combinable)]
            ELSE @[i]]]

MergedRep(f1, f2) ==
    [s \in DOMAIN f1.rep |->
        IF Pruned \in {f1.rep[s], f2.rep[s]} THEN Pruned ELSE f1.rep[s] * f2.ts.size + f2.rep[s]]

MergeFactors(fts, i1, i2) ==
    LET f1 == fts.factors[i1]
        f2 == fts.factors[i2]
    IN  [fts EXCEPT !.factors =
            Append([@ EXCEPT ![i1] = Merged, ![i2] = Merged],
                   NewFactor(MergeSystems(fts.costs, f1.ts, f2.ts), MergedRep(f1, f2), fts.compute))]

IsFactorSolvable(f) ==
    f.ts.init # Pruned /\ (f.dist.goal = <<>> \/ f.dist.goal[f.ts.init + 1] # Infinity)

IsFactorTrivial(f) ==
    Pruned \notin Range(f.rep) /\ f.ts.goals = AbstractStates(f.ts)

-----------------------------------------------------------------------------
(* Exact label reduction: labels of one cost that are equivalent in all    *)
(* factors but one are reduced to one label.  Factors are tried in an      *)
(* order of all indices a run can use.                                     *)

GroupIndex(ts, l) == CHOOSE i \in DOMAIN ts.groups : l \in ts.groups[i].labels

(* labels of equal keys can be combined in factor i                        *)
CombinableKey(fts, i, l) ==
    [j \in ActiveFactors(fts) \ {i} |-> GroupIndex(fts.factors[j].ts, l)]

ComputeCombinableEquivalenceRelation(fts, i) ==
    {{m \in ActiveLabels(fts.costs) : CombinableKey(fts, i, m) = CombinableKey(fts, i, l)} :
        l \in ActiveLabels(fts.costs)}

(* the sets of at least two labels of a cost; hash tables order them in    *)
(* the code, their smallest labels do here                                 *)
SameCost(costs, relation) ==
    {C \in UNION {{{m \in B : costs[m] = costs[l]} : l \in B} : B \in relation} : Cardinality(C) > 1}

ComputeLabelMapping(costs, relation) ==
    LET sets == SameCost(costs, relation)
        firsts == Ascending({Min(C) : C \in sets})
    IN  [k \in DOMAIN firsts |-> [new |-> Len(costs) + k,
                                  old |-> CHOOSE C \in sets : Min(C) = firsts[k]]]

(* mapping: <<>> if nothing can be reduced                                 *)
MappingFor(fts, i) ==
    IF fts.factors[i].active
    THEN ComputeLabelMapping(fts.costs, ComputeCombinableEquivalenceRelation(fts, i))
    ELSE <<>>

WithMapping(fts, i, mapping) == IF mapping = <<>> THEN fts ELSE ApplyLabelMapping(fts, mapping, i)

ReduceIn(fts, i) == WithMapping(fts, i, MappingFor(fts, i))

-----------------------------------------------------------------------------
(* the orders of the options; a random one is given                        *)
TransitionSystemOrder(t, kind) ==
    LET n == 2 * Len(t.sizes) - 1
    IN  IF kind = "reverse" THEN [i \in 1..n |-> n + 1 - i] ELSE [i \in 1..n |-> i]

(* the next position whose index is in use already                         *)
NextPosition(order, n, at) ==
    LET usable == {k \in DOMAIN order : order[k] <= n}
        later == {k \in usable : k > at}
    IN  IF later = {} THEN Min(usable) ELSE Min(later)

(* one factor is tried; without success everywhere, or after each factor   *)
(* was tried once, it is over                                              *)
TryFactor(x, order, mapping) ==
    LET n == Len(x.fts.factors)
        failures == IF mapping = <<>> THEN x.failures + 1 ELSE 1
    IN  [x EXCEPT !.fts = WithMapping(@, order[x.at], mapping), !.failures = failures,
                  !.tried = @ + 1, !.at = NextPosition(order, n, @)]

(* method: the two factors to merge, each factor once, or until no factor  *)
(* can reduce any more                                                     *)
Reduce(fts, lr, order, pair) ==
    LET n == Len(fts.factors)
        going(x) == x.failures < n /\ (lr.method = "fixpoint" \/ x.tried < n)
    IN  IF lr.method = "two" THEN ReduceIn(ReduceIn(fts, pair[1]), pair[2])
        ELSE While(going, LAMBDA x : TryFactor(x, order, MappingFor(x.fts, order[x.at])),
                   [fts |-> fts, failures |-> 0, tried |-> 0,
                    at |-> NextPosition(order, n, 0)]).fts
=============================================================================
