----------------------- MODULE CartesianAbstractions ------------------------
(***************************************************************************)
(* Cartesian abstractions, refined by counterexamples.  An abstraction     *)
(* has the abstract states 1, 2, ..., sets[a] giving the values of each    *)
(* variable in state a; transitions <<op, state>> out of and into each     *)
(* state and the operators that loop at it; and a tree of nodes            *)
(* [var, value, left, right, state] that finds the abstract state of a     *)
(* state, node[a] being that of state a.                                   *)
(***************************************************************************)
EXTENDS TaskTransformations, Relaxation, TransitionSystems

Wholly(t) == [v \in Vars(t) |-> Values(t, v)]

Includes(set, facts) == \A f \in facts : f[2] \in set[f[1]]

WithFacts(set, facts) ==
    [v \in DOMAIN set |->
        LET given == {f[2] : f \in {f \in facts : f[1] = v}} IN IF given = {} THEN set[v] ELSE given]

RegressedSet(t, set, op) ==
    WithFacts([v \in DOMAIN set |-> IF v \in EffectVars(op) THEN Values(t, v) ELSE set[v]],
              op.preconditions)

PreconditionValue(op, v) ==
    IF \E f \in op.preconditions : f[1] = v
    THEN (CHOOSE f \in op.preconditions : f[1] = v)[2] ELSE -1

PostconditionValue(op, v) ==
    FoldLeft(LAMBDA value, e : IF e.fact[1] = v THEN e.fact[2] ELSE value,
             PreconditionValue(op, v), op.effects)

-----------------------------------------------------------------------------
(* Splitting the abstract state v into itself, with the values of var that *)
(* are not wanted, and a new state w with the wanted ones: each transition *)
(* goes where it still has a pair of concrete states.                      *)

AddTransition(a, from, o, to) ==
    [a EXCEPT !.outgoing[from] = Append(@, <<o, to>>), !.incoming[to] = Append(@, <<o, from>>)]
AddLoop(a, v, o) == [a EXCEPT !.loops[v] = Append(@, o)]

AddFrom(a, sources, o, to) == FoldLeft(LAMBDA b, u : AddTransition(b, u, o, to), a, sources)
AddTo(a, from, o, targets) == FoldLeft(LAMBDA b, u : AddTransition(b, from, o, u), a, targets)

Without(transitions, v) == SelectSeq(transitions, LAMBDA x : x[2] # v)

(* the parts v and w that share a value of var with u                      *)
Meeting(a, u, v, w, var) ==
    SelectSeq(<<v, w>>, LAMBDA part : a.sets[u][var] \cap a.sets[part][var] # {})

(* the one part with the value                                             *)
Holding(a, v, w, var, value) == IF value \in a.sets[v][var] THEN v ELSE w

RewireIncoming(t, a, old, v, w, var) ==
    LET kept == FoldLeft(LAMBDA b, x : [b EXCEPT !.outgoing[x[2]] = Without(@, v)], a, old)
        targets(x) == LET post == PostconditionValue(t.operators[x[1]], var)
                      IN  IF post = -1 THEN Meeting(a, x[2], v, w, var)
                          ELSE <<Holding(a, v, w, var, post)>>
    IN  FoldLeft(LAMBDA b, x : AddTo(b, x[2], x[1], targets(x)), kept, old)

RewireOutgoing(t, a, old, v, w, var) ==
    LET kept == FoldLeft(LAMBDA b, x : [b EXCEPT !.incoming[x[2]] = Without(@, v)], a, old)
        sources(x) ==
            LET pre == PreconditionValue(t.operators[x[1]], var)
                post == PostconditionValue(t.operators[x[1]], var)
            IN  IF post = -1 THEN Meeting(a, x[2], v, w, var)
                ELSE IF pre = -1 THEN <<v, w>>
                ELSE <<Holding(a, v, w, var, pre)>>
    IN  FoldLeft(LAMBDA b, x : AddFrom(b, sources(x), x[1], x[2]), kept, old)

AddBetween(a, from, o, to) == IF from = to THEN AddLoop(a, to, o) ELSE AddTransition(a, from, o, to)

RewireLoop(t, a, o, v, w, var) ==
    LET pre == PreconditionValue(t.operators[o], var)
        post == PostconditionValue(t.operators[o], var)
        to == Holding(a, v, w, var, post)
    IN  IF post = -1 THEN AddLoop(AddLoop(a, v, o), w, o)
        ELSE IF pre = -1 THEN AddBetween(AddBetween(a, v, o, to), w, o, to)
        ELSE AddBetween(a, Holding(a, v, w, var, pre), o, to)

(* a: before the split, b: with the two parts and without transitions      *)
Rewire(t, a, b, v, w, var) ==
    LET incoming == RewireIncoming(t, b, a.incoming[v], v, w, var)
        outgoing == RewireOutgoing(t, incoming, a.outgoing[v], v, w, var)
    IN  FoldLeft(LAMBDA c, o : RewireLoop(t, c, o, v, w, var), outgoing, a.loops[v])

-----------------------------------------------------------------------------
LeafNode(v) == [var |-> 0, value |-> -1, left |-> 0, right |-> 0, state |-> v]

(* one node for each wanted value, the last one's left child being v's     *)
SplitNode(tree, node, var, values, v, w) ==
    LET right == Len(tree) + 1
    IN  FoldLeft(LAMBDA x, value :
            [tree |-> Append([x.tree EXCEPT ![x.node] =
                                 [var |-> var, value |-> value, left |-> Len(x.tree) + 1,
                                  right |-> right, state |-> 0]], LeafNode(v)),
             node |-> Len(x.tree) + 1],
            [tree |-> Append(tree, LeafNode(w)), node |-> node], values)

AbstractStateId(tree, s) ==
    tree[While(LAMBDA n : tree[n].var # 0,
               LAMBDA n : IF s[tree[n].var] = tree[n].value THEN tree[n].right ELSE tree[n].left,
               1)].state

TrivialAbstraction(t) ==
    [sets |-> <<Wholly(t)>>, init |-> 1, goals |-> {1}, tree |-> <<LeafNode(1)>>, node |-> <<1>>,
     outgoing |-> <<<<>>>>, incoming |-> <<<<>>>>, loops |-> <<[o \in DOMAIN t.operators |-> o]>>]

GoalParts(t, sets, parts) == {p \in parts : Includes(sets[p], ToSet(t.goals))}

WithParts(t, a, v, var, split) ==
    LET w == Len(a.sets) + 1
        wanted == ToSet(split.values)
        sets == Append([a.sets EXCEPT ![v][var] = @ \ wanted],
                       [a.sets[v] EXCEPT ![var] = wanted])
        nodes == SplitNode(a.tree, a.node[v], var, split.values, v, w)
    IN  [sets |-> sets,
         init |-> IF a.init = v /\ ~Includes(sets[v], FactsOf(t.initial)) THEN w ELSE a.init,
         goals |-> IF v \in a.goals THEN (a.goals \ {v}) \cup GoalParts(t, sets, {v, w})
                   ELSE a.goals,
         tree |-> nodes.tree,
         node |-> Append([a.node EXCEPT ![v] = nodes.node], Len(a.tree) + 1),
         outgoing |-> Append([a.outgoing EXCEPT ![v] = <<>>], <<>>),
         incoming |-> Append([a.incoming EXCEPT ![v] = <<>>], <<>>),
         loops |-> Append([a.loops EXCEPT ![v] = <<>>], <<>>)]

RefineState(t, a, v, split) ==
    Rewire(t, a, WithParts(t, a, v, split.var, split), v, Len(a.sets) + 1, split.var)

-----------------------------------------------------------------------------
(* A* in the abstraction, with estimates h that grow from search to search *)

SearchStep(t, a, x) ==
    LET top == Popped(x.queue)
        v == top[2]
        rest == [x EXCEPT !.queue = AfterPop(@)]
        visit(y, step) ==
            LET g == Plus(x.g[v], t.operators[step[1]].cost)
                u == step[2]
            IN  IF g >= y.g[u] THEN y
                ELSE IF x.h[u] = Infinity THEN [y EXCEPT !.g[u] = g]
                ELSE [y EXCEPT !.g[u] = g, !.queue = Push(@, g + x.h[u], u),
                               !.from[u] = <<step[1], v>>]
    IN  IF x.g[v] + x.h[v] < top[1] THEN rest
        ELSE IF v \in a.goals THEN [rest EXCEPT !.goal = v]
        ELSE FoldLeft(visit, rest, a.outgoing[v])

RECURSIVE SolutionTo(_, _, _)
SolutionTo(x, init, v) ==
    IF v = init THEN <<>>
    ELSE Append(SolutionTo(x, init, x.from[v][2]), <<x.from[v][1], v>>)

AfterSolution(t, x, solution) ==
    LET cost == SumOver(DOMAIN solution, LAMBDA i : t.operators[solution[i][1]].cost)
    IN  [v \in DOMAIN x.h |->
            IF x.g[v] < Infinity THEN Max({x.h[v], cost - x.g[v]}) ELSE x.h[v]]

Found(t, a, x) ==
    IF x.goal = 0 THEN [found |-> FALSE, h |-> [x.h EXCEPT ![a.init] = Infinity]]
    ELSE LET solution == SolutionTo(x, a.init, x.goal)
         IN  [found |-> TRUE, steps |-> solution, h |-> AfterSolution(t, x, solution)]

FindSolution(t, a, estimates) ==
    LET n == 1..Len(a.sets)
        h == [v \in n |-> IF v \in DOMAIN estimates THEN estimates[v] ELSE 0]
        start == [queue |-> Push(EmptyQueue, h[a.init], a.init), h |-> h, goal |-> 0,
                  g |-> [v \in n |-> IF v = a.init THEN 0 ELSE Infinity],
                  from |-> [v \in n |-> <<0, 0>>]]
    IN  Found(t, a, While(LAMBDA x : x.queue # EmptyQueue /\ x.goal = 0,
                          LAMBDA x : SearchStep(t, a, x), start))

-----------------------------------------------------------------------------
(* Where the solution fails: the concrete state there, the abstract state  *)
(* it is in, and the values that would not fail.  <<>>: nowhere.           *)

FollowStep(t, a, x, step) ==
    LET op == t.operators[step[1]]
        next == Successor(t, x.state, op)
        failing(set) == [x EXCEPT !.flaw = <<[state |-> x.state, at |-> x.at, desired |-> set]>>]
    IN  IF x.flaw # <<>> THEN x
        ELSE IF ~IsApplicable(op, x.state) THEN failing(WithFacts(Wholly(t), op.preconditions))
        ELSE IF ~Includes(a.sets[step[2]], FactsOf(next)) THEN failing(RegressedSet(t, a.sets[step[2]], op))
        ELSE [x EXCEPT !.state = next, !.at = step[2]]

FindFlaw(t, a, solution) ==
    LET end == FoldLeft(LAMBDA x, step : FollowStep(t, a, x, step),
                        [state |-> t.initial, at |-> a.init, flaw |-> <<>>], solution)
    IN  IF end.flaw # <<>> \/ IsGoal(t, end.state) THEN end.flaw
        ELSE <<[state |-> end.state, at |-> end.at,
                desired |-> WithFacts(Wholly(t), ToSet(t.goals))]>>

PossibleSplits(a, flaw) ==
    FoldLeft(LAMBDA splits, v :
        IF flaw.state[v] \in flaw.desired[v] THEN splits
        ELSE Append(splits, [var |-> v, values |-> Ascending(a.sets[flaw.at][v] \cap flaw.desired[v])]),
        <<>>, [v \in DOMAIN flaw.state |-> v])

(* the rating of a split, a fraction <<numerator, denominator>>; hadd      *)
(* gives the h^add costs of facts, -1 for those never reached              *)
RateSplit(t, set, hadd, pick, split) ==
    LET remaining == Cardinality(set[split.var])
        unwanted == remaining - Len(split.values)
        costs == {hadd[<<split.var, d>>] : d \in ToSet(split.values)}
    IN  CASE pick = "min_unwanted" -> <<-unwanted, 1>>
          [] pick = "max_unwanted" -> <<unwanted, 1>>
          [] pick = "min_refined" -> <<remaining, t.sizes[split.var]>>
          [] pick = "max_refined" -> <<-remaining, t.sizes[split.var]>>
          [] pick = "min_hadd" -> <<-Min(costs), 1>>
          [] pick = "max_hadd" -> <<Max(costs), 1>>

HigherRating(a, b) == a[1] * b[2] > b[1] * a[2]

(* the first of the highest rating                                         *)
BestRated(splits, ratings) ==
    splits[CHOOSE i \in DOMAIN splits : \A j \in DOMAIN splits :
               ~HigherRating(ratings[j], ratings[i]) /\ (j < i => HigherRating(ratings[i], ratings[j]))]

PickSplit(t, set, hadd, pick, splits) ==
    IF Len(splits) = 1 THEN {splits[1]}
    ELSE IF pick = "random" THEN ToSet(splits)
    ELSE {BestRated(splits, [i \in DOMAIN splits |-> RateSplit(t, set, hadd, pick, splits[i])])}

-----------------------------------------------------------------------------
(* The refinement loop.  A run c is the abstraction, the estimates of its  *)
(* search, and whether it has ended.                                       *)

NonLoops(a) == SumOver(DOMAIN a.outgoing, LAMBDA v : Len(a.outgoing[v]))

MayKeepRefining(a, limits) ==
    Len(a.sets) < limits.states /\ NonLoops(a) < limits.transitions

(* facts that can be reached without achieving the last one                *)
PossiblyBefore(t, last) ==
    LET ops == {op \in ToSet(t.operators) : last \notin {e.fact : e \in ToSet(op.effects)}}
    IN  Fixpoint(LAMBDA F : F \cup UNION {{e.fact : e \in ToSet(op.effects)} :
                                op \in {op \in ops : op.preconditions \subseteq F}},
                 FactsOf(t.initial)) \cup {last}

SeparateUnreachable(t, limits, facts) ==
    LET unreachable(v) == Ascending({d \in Values(t, v) : <<v, d>> \notin facts})
        separate(a, v) == IF MayKeepRefining(a, limits) /\ unreachable(v) # <<>>
                          THEN RefineState(t, a, a.init, [var |-> v, values |-> unreachable(v)])
                          ELSE a
        separated == FoldLeft(separate, TrivialAbstraction(t), [v \in Vars(t) |-> v])
    IN  [separated EXCEPT !.goals = DOMAIN separated.sets]

StartOfRefinement(t, limits) ==
    [a |-> IF Len(t.goals) = 1 THEN SeparateUnreachable(t, limits, PossiblyBefore(t, t.goals[1]))
           ELSE TrivialAbstraction(t),
     h |-> <<>>, phase |-> "refining"]

(* both parts inherit the estimate                                         *)
RefinedBy(t, a, h, v, split) ==
    [a |-> RefineState(t, a, v, split), h |-> Append(h, h[v]), phase |-> "refining"]

RepairFlaw(t, a, h, hadd, pick, flaw) ==
    {RefinedBy(t, a, h, flaw.at, split) : split \in
        PickSplit(t, a.sets[flaw.at], hadd, pick, PossibleSplits(a, flaw))}

AfterFlaw(t, c, h, hadd, pick, flaws) ==
    IF flaws = <<>> THEN {[c EXCEPT !.h = h, !.phase = "solved"]}
    ELSE RepairFlaw(t, c.a, h, hadd, pick, flaws[1])

AfterSearch(t, c, hadd, pick, result) ==
    IF result.found THEN AfterFlaw(t, c, result.h, hadd, pick, FindFlaw(t, c.a, result.steps))
    ELSE {[c EXCEPT !.h = result.h, !.phase = "unsolvable"]}

RefineOnce(t, limits, hadd, pick, c) ==
    IF c.phase # "refining" THEN {}
    ELSE IF ~MayKeepRefining(c.a, limits) THEN {[c EXCEPT !.phase = "limit"]}
    ELSE AfterSearch(t, c, hadd, pick, FindSolution(t, c.a, c.h))

HAddCosts(t) ==
    RelaxedExploration("add", t, Simplified(UnaryOperators(t)), t.initial).cost

RefinementsWith(t, limits, hadd, pick) ==
    Fixpoint(LAMBDA C : C \cup UNION {RefineOnce(t, limits, hadd, pick, c) : c \in C},
             {StartOfRefinement(t, limits)})

(* timed: the loop can end at any time                                     *)
RefinedAbstractions(t, limits, pick, timed) ==
    {c \in RefinementsWith(t, limits, HAddCosts(t), pick) : timed \/ c.phase # "refining"}

-----------------------------------------------------------------------------
(* Saturated costs: what an abstraction needs of each operator's costs for *)
(* its distances, the rest being left for the abstractions after it.       *)

EdgesOf(t, a) ==
    UNION {{<<v - 1, x[2] - 1, t.operators[x[1]].cost>> : x \in ToSet(a.outgoing[v])} :
               v \in DOMAIN a.outgoing}

StatesFrom0(S) == {v - 1 : v \in S}

SaturatedCosts(t, a, g, h, general) ==
    LET alive == {v \in DOMAIN a.sets : g[v] # Infinity /\ h[v] # Infinity}
        needed(o) == UNION {{h[v] - h[x[2]] : x \in {x \in ToSet(a.outgoing[v]) :
                                x[1] = o /\ h[x[2]] # Infinity}} : v \in alive}
        looping(o) == {0 : v \in {v \in alive : general /\ o \in ToSet(a.loops[v])}}
    IN  [o \in DOMAIN t.operators |->
            Max(needed(o) \cup looping(o) \cup {IF general THEN -Infinity ELSE 0})]

ReducedCost(remaining, saturated) ==
    IF remaining = Infinity \/ saturated = -Infinity THEN Infinity ELSE remaining - saturated

(* a subtask: its task and the groups of values it combines (none: <<>>)   *)
Subtask(t) == [task |-> t, groups |-> [v \in Vars(t) |-> <<>>]]

HeuristicFunction(a, h, groups) == [tree |-> a.tree, h |-> h, groups |-> groups]

FunctionValue(t, f, s) == f.h[AbstractStateId(f.tree, ConvertState(t, f.groups, s))]

WithFunction(t, x, a, g, h, groups, general) ==
    [functions |-> Append(x.functions, HeuristicFunction(a, h, groups)),
     remaining |-> [o \in DOMAIN x.remaining |->
                       ReducedCost(x.remaining[o], SaturatedCosts(t, a, g, h, general)[o])],
     states |-> x.states + Len(a.sets), transitions |-> x.transitions + NonLoops(a)]

WithAbstraction(t, x, a, groups, general) ==
    WithFunction(t, x, a,
        ShortestDistances(Len(a.sets), EdgesOf(t, a), StatesFrom0({a.init})),
        ShortestDistances(Len(a.sets), Reversed(EdgesOf(t, a)), StatesFrom0(a.goals)),
        groups, general)

ShouldAbort(t, x, c) ==
    \/ x.states >= c.states \/ x.transitions >= c.transitions
    \/ \E f \in ToSet(x.functions) : FunctionValue(t, f, t.initial) = Infinity

Share(limit, used, parts) == Max({1, (limit - used) \div parts})

BuildAbstraction(t, x, subtask, reduced, parts, c) ==
    {WithAbstraction(reduced, x, r.a, subtask.groups, c.general) : r \in
        RefinedAbstractions(reduced, [states |-> Share(c.states, x.states, parts),
                                      transitions |-> Share(c.transitions, x.transitions, parts)],
                            c.pick, c.timed)}

(* the subtasks of one generator, as long as there is no reason to stop    *)
RECURSIVE BuildAbstractions(_, _, _, _)
BuildAbstractions(t, x, subtasks, c) ==
    IF subtasks = <<>> THEN {x}
    ELSE UNION {(IF c.timed THEN {y} ELSE {}) \cup
                IF ShouldAbort(t, y, c) THEN {y} ELSE BuildAbstractions(t, y, Tail(subtasks), c) :
                   y \in BuildAbstraction(t, x, Head(subtasks),
                             ModifiedOperatorCosts(Head(subtasks).task, x.remaining),
                             Len(subtasks), c)}

(* generators: for each the sequences of subtasks it may give              *)
RECURSIVE GenerateFunctions(_, _, _, _)
GenerateFunctions(t, x, generators, c) ==
    IF generators = <<>> \/ (x.functions # <<>> /\ ShouldAbort(t, x, c)) THEN {x}
    ELSE UNION {GenerateFunctions(t, y, Tail(generators), c) :
                   y \in UNION {BuildAbstractions(t, x, subtasks, c) : subtasks \in Head(generators)}}

CostSaturation(t, generators, c) ==
    GenerateFunctions(t, [functions |-> <<>>, remaining |-> CreateLabels(t), states |-> 0,
                          transitions |-> 0], generators, c)

AdditiveValue(t, functions, s) ==
    FoldLeft(LAMBDA sum, f : Plus(sum, FunctionValue(t, f, s)), 0, functions)

-----------------------------------------------------------------------------
(* Subtasks                                                                *)

TaskDuplicator(t, copies) == {[i \in 1..copies |-> Subtask(t)]}

(* facts that do not hold yet, in one of the orders; sort() may leave      *)
(* facts of equal cost in any order                                        *)
ByHAdd(facts, hadd) ==
    {p \in SetToSeqs(facts) : \A i, j \in DOMAIN p : i < j => hadd[p[i]] <= hadd[p[j]]}

FilterAndOrderFacts(t, order, facts) ==
    LET wanted == SelectSeq(facts, LAMBDA f : t.initial[f[1]] # f[2])
    IN  CASE order = "original" -> {wanted}
          [] order = "random" -> SetToSeqs(ToSet(wanted))
          [] order = "hadd_up" -> ByHAdd(ToSet(wanted), HAddCosts(t))
          [] order = "hadd_down" -> {Reverse(p) : p \in ByHAdd(ToSet(wanted), HAddCosts(t))}

GoalDecomposition(t, order) ==
    {[i \in DOMAIN facts |-> Subtask(ModifiedGoals(t, <<facts[i]>>))] :
        facts \in FilterAndOrderFacts(t, order, t.goals)}

(* landmarks: facts in order, and before[f]: the landmarks ordered before  *)
CombinedGroups(t, earlier) ==
    [v \in Vars(t) |->
        LET values == {f[2] : f \in {f \in earlier : f[1] = v}}
        IN  IF Cardinality(values) >= 2 THEN <<values>> ELSE <<>>]

LandmarkSubtask(t, fact, earlier, combine) ==
    LET groups == IF combine THEN CombinedGroups(t, earlier) ELSE Subtask(t).groups
    IN  [task |-> Abstracted(ModifiedGoals(t, <<fact>>), groups), groups |-> groups]

LandmarkDecomposition(t, landmarks, order, combine) ==
    {[i \in DOMAIN facts |->
        LandmarkSubtask(t, facts[i], landmarks.before[facts[i]], combine)] :
        facts \in FilterAndOrderFacts(t, order, landmarks.facts)}

-----------------------------------------------------------------------------
(* Reference: the transitions an abstract state induces, by its sets       *)

InducedTransitions(t, a, v) ==
    {<<o, w>> \in (DOMAIN t.operators) \X (DOMAIN a.sets) :
        LET op == t.operators[o]
        IN  /\ Includes(a.sets[v], op.preconditions)
            /\ \A u \in Vars(t) :
                 IF PostconditionValue(op, u) = -1 THEN a.sets[v][u] \cap a.sets[w][u] # {}
                 ELSE PostconditionValue(op, u) \in a.sets[w][u]}

RewiredTransitions(a, v) ==
    ToSet(a.outgoing[v]) \cup {<<o, v>> : o \in ToSet(a.loops[v])}
=============================================================================
