--------------------------- MODULE DownwardTables ---------------------------
(***************************************************************************)
(* Small planning tasks, in the parsed form of the translator's output,    *)
(* and what the components compute for their states.  (TLC evaluates an    *)
(* argument once, so intermediate results are arguments.)                  *)
(***************************************************************************)
EXTENDS LandmarkCut, TaskTransformations, StubbornSets, PatternGenerators, MergeAndShrink,
        CausalGraphHeuristics, LandmarkHeuristics, CartesianAbstractions

Var(size) == [size |-> size, layer |-> -1]
Derived == [size |-> 2, layer |-> 0]
Change(v, before, after) == [conditions |-> {}, var |-> v, before |-> before, after |-> after]
Action(prevail, changes, cost) == [prevail |-> prevail, changes |-> changes, cost |-> cost]

(* a truck (1), a parcel (2: at 0, at 1, in the truck) and a permit (3)    *)
Delivery ==
    [metric |-> TRUE, variables |-> <<Var(2), Var(3), Var(2)>>, mutexGroups |-> {},
     initial |-> <<0, 0, 0>>, goals |-> <<<<1, 0>>, <<2, 1>>>>, rules |-> <<>>,
     actions |-> <<Action({}, <<Change(1, 0, 1)>>, 2),
                   Action({}, <<Change(1, 1, 0)>>, 1),
                   Action({<<1, 0>>}, <<Change(2, 0, 2)>>, 0),
                   Action({<<1, 1>>}, <<Change(2, 2, 1)>>, 1),
                   Action({<<1, 0>>}, <<Change(2, 2, 0)>>, 1),
                   Action({<<3, 1>>}, <<Change(2, 0, 1)>>, 1),
                   Action({}, <<Change(3, 0, 1)>>, 4)>>]

UnitDelivery == [Delivery EXCEPT !.metric = FALSE]

(* the key (2) spent on the way is missed behind the door (3)              *)
Locked ==
    [metric |-> TRUE, variables |-> <<Var(3), Var(2), Var(2)>>,
     mutexGroups |-> {{<<2, 1>>, <<3, 1>>}},
     initial |-> <<0, 1, 0>>, goals |-> <<<<1, 2>>, <<3, 1>>>>, rules |-> <<>>,
     actions |-> <<Action({}, <<Change(1, 0, 1), Change(2, 1, 0)>>, 1),
                   Action({}, <<Change(1, 0, 2)>>, 3),
                   Action({<<1, 2>>}, <<Change(2, 1, 0), Change(3, -1, 1)>>, 1),
                   Action({}, <<Change(1, 1, 2)>>, 0),
                   Action({}, <<Change(1, -1, 0)>>, 1)>>]

(* a lamp (2, derived) is on if its switch (1) is or if the other (3) is   *)
(* not; the goal is behind a lit door, and a blown fuse lights it for good *)
Lamp ==
    [metric |-> TRUE,
     variables |-> <<Var(2), Derived, Var(2), Var(3), [size |-> 2, layer |-> 1]>>,
     mutexGroups |-> {}, initial |-> <<0, 0, 1, 0, 1>>, goals |-> <<<<4, 2>>>>,
     actions |-> <<Action({}, <<Change(1, 0, 1)>>, 3),
                   Action({}, <<Change(3, 1, 0)>>, 1),
                   Action({<<2, 1>>}, <<Change(4, 0, 1)>>, 1),
                   Action({<<5, 1>>}, <<Change(4, 1, 2), Change(3, -1, 1)>>, 1),
                   Action({<<5, 0>>}, <<Change(4, 1, 2)>>, 5)>>,
     rules |-> <<[conditions |-> {<<1, 1>>}, var |-> 2, before |-> 0, after |-> 1],
                 [conditions |-> {<<3, 0>>}, var |-> 2, before |-> 0, after |-> 1],
                 [conditions |-> {<<2, 1>>, <<3, 0>>}, var |-> 5, before |-> 1, after |-> 0]>>]

(* a switch whose effect depends on the state it is pulled in              *)
Toggle ==
    [metric |-> TRUE, variables |-> <<Var(2), Var(2), Var(2)>>, mutexGroups |-> {},
     initial |-> <<0, 0, 0>>, goals |-> <<<<2, 1>>, <<3, 1>>>>, rules |-> <<>>,
     actions |-> <<Action({}, <<[conditions |-> {<<1, 0>>}, var |-> 2, before |-> -1, after |-> 1],
                                [conditions |-> {<<1, 1>>}, var |-> 3, before |-> -1, after |-> 1],
                                [conditions |-> {<<1, 1>>}, var |-> 2, before |-> -1, after |-> 0]>>, 2),
                   Action({}, <<Change(1, 0, 1)>>, 1),
                   Action({}, <<Change(1, 1, 0)>>, 1)>>]

(* two ways (1), the shorter one of more steps, to the work (2) and to the *)
(* tool for it (3)                                                         *)
Detour ==
    [metric |-> TRUE, variables |-> <<Var(3), Var(2), Var(2)>>, mutexGroups |-> {},
     initial |-> <<0, 0, 0>>, goals |-> <<<<2, 1>>>>, rules |-> <<>>,
     actions |-> <<Action({}, <<Change(1, 0, 2), Change(3, -1, 1)>>, 5),
                   Action({}, <<Change(1, 0, 1)>>, 1),
                   Action({}, <<Change(1, 1, 2), Change(3, -1, 1)>>, 1),
                   Action({<<1, 2>>, <<3, 1>>}, <<Change(2, 0, 1)>>, 6)>>]

AllInputs == <<Delivery, UnitDelivery, Locked, Lamp, Toggle, Detour>>

-----------------------------------------------------------------------------
(* What pattern databases and their generators give for a small task.      *)

Limits == [pdb |-> 6, collection |-> 10, refined |-> 7, samples |-> 1, improvement |-> 1]

CanonicalTable(pdbs, cliques, S) == [s \in S |-> CanonicalValue(pdbs, cliques, s)]
ZeroOneTable(pdbs, S) == [s \in S |-> ZeroOneValue(pdbs, s)]
Databases(pdbs, patterns) == [i \in DOMAIN patterns |-> pdbs[patterns[i]]]

CollectionTable(t, pdbs, S, patterns) ==
    CanonicalTable(Databases(pdbs, patterns), PatternCliques(patterns, AdditiveVars(t)), S)

PrunedTable(x, S) == CanonicalTable(x.pdbs, x.cliques, S)

(* every generator's collections                                           *)
GeneratedCollections(t, cg, S) ==
    [systematic |-> SystematicPatterns(t, cg, 2),
     combo |-> ComboPatterns(t, cg, Limits.pdb),
     interesting |-> {Ascending(P) : P \in {P \in SUBSET Vars(t) :
                         Cardinality(P) <= 2 /\ IsInteresting(t, cg, P)}},
     genetic |-> GeneticCollections(t, cg, Limits.pdb, TRUE, 1),
     random |-> MultiplePatterns(t, [n \in 1..Limits.pdb |-> [g \in DOMAIN t.goals |->
                    RandomPatterns(t, Neighbors(t, cg, TRUE), n, t.goals[g][1])]],
                    Limits.pdb, Limits.collection)]

(* an iteration of a run within limits                                     *)
Iteration1(pdb, collection, y) ==
    [pdb |-> pdb, collection |-> collection,
     patterns |-> {y.c.infos[i].pattern : i \in Live(y.c)},
     flaws |-> {<<y.c.infos[f[1]].pattern, f[2]>> : f \in y.flaws},
     solutions |-> IF y.solution = 0 THEN {} ELSE CegarResult(y)]

(* runs with wildcard plans and without, within limits and hardly any      *)
Refinements(t, pdbs, goals) ==
    {Iteration1(Limits.pdb, Limits.refined, y) : y \in
        CegarIterations(t, pdbs, TRUE, Limits.pdb, Limits.refined, goals, {})}
    \cup
    {Iteration1(100, 100, y) : y \in
        CegarIterations(t, pdbs, FALSE, 100, 100, goals, {}) \cup
        CegarIterations(t, pdbs, TRUE, 100, 100, <<goals[1]>>, Vars(t) \ GoalVars(t))}

PatternEstimates(t, pdbs, generated, climbed, S) ==
    LET additive == AdditiveVars(t)
        system == generated.systematic
        cliques == PatternCliques(system, additive)
    IN  [perfect |-> {[s \in S |-> PdbValue(pdbs[[v \in Vars(t) |-> v]], s)]},
         admissible |->
            {[s \in S |-> PdbValue(pdbs[p], s)] : p \in AllPatterns(t)}
            \cup {CollectionTable(t, pdbs, S, c) : c \in climbed \cup {generated.combo}}
            \cup {ZeroOneTable(ZeroOnePdbs(t, c), S) : c \in generated.genetic \cup {system}},
         equal |->
            {<<CanonicalTable(Databases(pdbs, system), cliques, S),
               PrunedTable(PruneDominatedCliques(system, Databases(pdbs, system), cliques), S)>>}]

PatternResults(t, cg, pdbs, generated, climbed, S) ==
    [estimates |-> PatternEstimates(t, pdbs, generated, climbed, S),
     limits |-> Limits,
     generated |-> generated, climbed |-> climbed,
     refinements |-> Refinements(t, pdbs, [g \in DOMAIN t.goals |-> t.goals[g][1]]),
     sizes |-> [p \in AllPatterns(t) |-> PdbSize(t, p)],
     initial |-> [p \in AllPatterns(t) |-> PdbValue(pdbs[p], t.initial)]]

WithPdbs(t, cg, pdbs, S) ==
    PatternResults(t, cg, pdbs, GeneratedCollections(t, cg, S),
                   HillClimbingCollections(t, cg, pdbs, Limits, S), S)

PatternsOf(t) == WithPdbs(t, CausalGraph(t), PdbTable(t), States(t))

-----------------------------------------------------------------------------
(* Merge-and-shrink with several options, and the heuristics it gives for  *)
(* a small task, whenever the time is up.                                  *)

Exact == [kind |-> "bisimulation", greedy |-> FALSE, atLimit |-> "return"]
Greedy == [kind |-> "bisimulation", greedy |-> TRUE, atLimit |-> "use_up"]

Scoring(kind) == [kind |-> kind]
Total1(t, level, newest, atomicFirst) ==
    [kind |-> "total_order",
     order |-> TransitionSystemsInOrder(Len(t.sizes),
                   [level |-> level, newest |-> newest, atomicFirst |-> atomicFirst])]
Miasm(limits) == [kind |-> "miasm", limits |-> limits, strategy |-> Exact]

Precomputed(order) == [kind |-> "precomputed", order |-> order, shuffled |-> <<>>, functions |-> <<>>]
Sccs(order, functions) == [kind |-> "sccs", order |-> order, functions |-> functions]
Stateless(functions) == [kind |-> "stateless", functions |-> functions]

Labels(method, order, beforeShrinking, beforeMerging) ==
    [method |-> method, order |-> order, beforeShrinking |-> beforeShrinking,
     beforeMerging |-> beforeMerging]

NoLimits == ShrinkLimits(-1, -1, -1, Infinity)
Forced == ShrinkLimits(-1, -1, 1, Infinity)
Tight(n) == ShrinkLimits(n * n, n, 1, Infinity)

Options(merge, shrink, labels, prune, limits) ==
    [merge |-> merge, shrink |-> shrink, labels |-> labels, prune |-> prune, limits |-> limits]

(* nothing is lost: only bisimilar states are combined                     *)
ExactOptions(t) ==
    {Options(Sccs("topological", <<Scoring("goal_relevance"), Scoring("dfp"),
                                   Total1(t, TRUE, TRUE, FALSE)>>),
             Exact, Labels("two", "regular", TRUE, FALSE), {"unreachable", "irrelevant"}, Forced),
     Options(Precomputed("reverse_level"), Exact, Labels("fixpoint", "reverse", TRUE, TRUE), {},
             Forced),
     Options(Stateless(<<Total1(t, FALSE, FALSE, TRUE)>>), Exact,
             Labels("two", "regular", FALSE, FALSE), {"irrelevant"}, NoLimits)}

LossyOptions(t) ==
    {Options(Precomputed("cg_goal_level"), Greedy, Labels("all", "regular", FALSE, TRUE),
             {"unreachable"}, Tight(3)),
     Options(Stateless(<<Miasm(Tight(2)), Total1(t, TRUE, FALSE, FALSE)>>), Exact,
             Labels("two", "regular", TRUE, TRUE), {"irrelevant"}, Tight(2)),
     Options(Sccs("decreasing", <<Scoring("dfp"), Scoring("single_random")>>),
             [kind |-> "fh", fHigh |-> TRUE, hHigh |-> FALSE],
             Labels("fixpoint", "regular", FALSE, TRUE), {}, Tight(3)),
     Options(Stateless(<<Scoring("single_random")>>), [kind |-> "random"],
             Labels("two", "regular", FALSE, FALSE), {}, Tight(2))}

-----------------------------------------------------------------------------
FactorsTable(factors, S) == [s \in S |-> MergeAndShrinkValue(factors, s)]

TablesOf(runs, S) == {FactorsTable(ExtractFactors(x.fts), S) : x \in runs}

(* x: of one choice of options, the tables at the end and at any time.     *)
(* Only without conditional effects is every transition one of the task.   *)
RunTables(t, runs, S, exact) ==
    [perfect |-> IF exact /\ ~HasConditionalEffects(t)
                 THEN TablesOf({x \in runs : x.phase = "end"}, S) ELSE {},
     admissible |-> TablesOf(runs, S), equal |-> {}]

UnionOfTables(X) ==
    [perfect |-> UNION {x.perfect : x \in X}, admissible |-> UNION {x.admissible : x \in X},
     equal |-> UNION {x.equal : x \in X}]

MergeAndShrinkEstimates(t, cg, exact, lossy, S) ==
    UnionOfTables({RunTables(t, BuildFactoredTransitionSystem(t, cg, c, S), S, c \in exact) :
                      c \in exact \cup lossy})

MergeAndShrinkOf(t) ==
    MergeAndShrinkEstimates(t, CausalGraph(t), ExactOptions(t), LossyOptions(t), States(t))

-----------------------------------------------------------------------------
(* Cartesian abstractions: of the whole task, for one goal or one landmark *)
(* after the other, within limits and whenever the time is up.             *)

(* facts that are landmarks in some order, and all that come before each   *)
FactLandmarks(g) ==
    LET fact(lm) == CHOOSE f \in lm.facts : TRUE
        ancestors(lm) == Fixpoint(LAMBDA A : A \cup UNION {Parents(g, a) : a \in A}, Parents(g, lm))
    IN  [facts |-> SortSeq(Listed({fact(lm) : lm \in Lms(g)}), FactBefore),
         before |-> [f \in {fact(lm) : lm \in Lms(g)} |-> {fact(a) : a \in ancestors(Simple(f))}]]

Saturation(states, transitions, pick, general, timed) ==
    [states |-> states, transitions |-> transitions, pick |-> pick, general |-> general,
     timed |-> timed]

CartesianRuns(t, landmarks) ==
    CostSaturation(t, <<LandmarkDecomposition(t, landmarks, "hadd_down", TRUE),
                        GoalDecomposition(t, "hadd_down")>>,
                   Saturation(100, 100, "max_refined", TRUE, FALSE))
    \cup CostSaturation(t, <<LandmarkDecomposition(t, landmarks, "random", FALSE)>>,
                        Saturation(9, 12, "min_hadd", FALSE, FALSE))
    \cup CostSaturation(t, <<GoalDecomposition(t, "original"), TaskDuplicator(t, 1)>>,
                        Saturation(8, 100, "min_unwanted", TRUE, TRUE))

AdditiveTables(t, runs, S) == {[s \in S |-> AdditiveValue(t, x.functions, s)] : x \in runs}

(* of the whole task: rewired transitions are those the sets induce, and a *)
(* run that ends with a plan has its cost                                  *)
TransitionTables(t, a, S) ==
    <<[s \in S |-> RewiredTransitions(a, AbstractStateId(a.tree, s))],
      [s \in S |-> InducedTransitions(t, a, AbstractStateId(a.tree, s))]>>

InitialOnly(t, value, S) == [s \in S |-> IF s = t.initial THEN {<<0, value>>} ELSE {}]

SolvedTables(t, functions, cheapest, S) ==
    <<InitialOnly(t, AdditiveValue(t, functions, t.initial), S), InitialOnly(t, cheapest, S)>>

WholeTask(t, a) ==
    WithAbstraction(t, [functions |-> <<>>, remaining |-> CreateLabels(t), states |-> 0,
                        transitions |-> 0], a, Subtask(t).groups, TRUE).functions

WholeTables(t, whole, cheapest, S) ==
    {TransitionTables(t, c.a, S) : c \in whole}
    \cup {SolvedTables(t, WholeTask(t, c.a), cheapest, S) : c \in {c \in whole : c.phase = "solved"}}

CartesianOf(t, whole, runs, costs, S) ==
    [perfect |-> {}, admissible |-> AdditiveTables(t, runs, S),
     equal |-> WholeTables(t, whole, costs[t.initial], S)]

Whole(t) ==
    RefinedAbstractions(t, [states |-> 6, transitions |-> 100], "random", TRUE)
    \cup RefinedAbstractions(t, [states |-> 100, transitions |-> 100], "max_hadd", FALSE)
    \cup RefinedAbstractions(t, [states |-> 100, transitions |-> 100], "max_unwanted", FALSE)

CartesianTables(t) ==
    CartesianOf(t, Whole(t), CartesianRuns(t, FactLandmarks(LandmarkFactoryHM(t, 1, FALSE, TRUE))),
                PlanCosts(t), States(t))

-----------------------------------------------------------------------------
AllTasks == [i \in DOMAIN AllInputs |-> RootTask(AllInputs[i])]

AllCosts == [i \in DOMAIN AllTasks |-> PlanCosts(AllTasks[i])]

-----------------------------------------------------------------------------
(* Estimates; negated is the task with the axioms for default values, and  *)
(* uneven is admissible and not consistent.                                *)

RelaxedEstimates(t, negated, ops, relaxed, S) ==
    [blind |-> [s \in S |-> HBlind(t, s)],
     max |-> [s \in S |-> HMax(negated, ops, s)],
     add |-> [s \in S |-> HAdd(negated, ops, s)],
     ff |-> [s \in S |-> relaxed[s].h],
     preferred |-> [s \in S |-> relaxed[s].preferred],
     plus |-> [s \in S |-> HPlus(negated, s)],
     uneven |-> [s \in S |-> IF s[1] = 1 THEN HPlus(negated, s) ELSE 0],
     cut |-> [s \in S |-> IF IsSimple(t) THEN HLmCut(t, RelaxedOperators(t), s)
                          ELSE HMax(negated, ops, s)],
     pairs |-> [s \in S |-> IF IsSimple(t) THEN HM(t, 2, s) ELSE 0]]

(* states one after the other: what each leaves in the cache the next finds *)
Noted(x, s, y) == [cache |-> y.cache, of |-> (s :> Reported(y)) @@ x.of]

WithCache(p, states) ==
    FoldLeft(LAMBDA x, s : Noted(x, s, HCausalGraph(p, s, x.cache)),
             [cache |-> <<>>, of |-> <<>>], states).of

CacheTables(t, graphs, depends, states) ==
    {WithCache(NewCGHeuristic(t, graphs, depends, limit), states) : limit \in {6, 100}} \cup
    {WithCache(NewCGHeuristic(t, graphs, depends, 100), Reverse(states))}

InEvery(tables, S) == [s \in S |-> {h[s] : h \in tables}]

CausalEstimates(t, graphs, depends, contextual, S) ==
    [causal |-> WithCache(NewCGHeuristic(t, graphs, depends, 0), Listed(S)),
     cached |-> InEvery(CacheTables(t, graphs, depends, Listed(S)), S),
     context |-> [s \in S |-> Reported(HContextEnhanced(NewCEAHeuristic(t, contextual), s))]]

GraphEstimates(t, S) ==
    CausalEstimates(t, DomainTransitionGraphs(t, FALSE), DependsOn(t, CausalGraph(t)),
                    DomainTransitionGraphs(t, TRUE), S)

WithUnary(t, negated, ops) ==
    RelaxedEstimates(t, negated, ops, [s \in States(t) |-> HFF(negated, ops, s)], States(t))
    @@ GraphEstimates(negated, States(t))

WithNegation(t, negated) == WithUnary(t, negated, Simplified(UnaryOperators(negated)))

EstimatesOf(t) == WithNegation(t, DefaultValueAxiomsTask(t, "approximate_negative_cycles"))

-----------------------------------------------------------------------------
(* Landmark heuristics, with statuses that all paths to a state add up to, *)
(* and for every set of achievers the states from which the goal can be    *)
(* reached without them.                                                   *)

OnePredicate(t) == [f \in Facts(t) |-> 1]
PredicateOfVar(t) == [f \in Facts(t) |-> f[1]]

TransitionsOf(t, S) ==
    UNION {{<<o, s, Successor(t, s, t.operators[o])>> : o \in Applicable(t, s)} : s \in S}

FromInitial(t, steps) ==
    Fixpoint(LAMBDA R : R \cup {e[3] : e \in {e \in steps : e[2] \in R}}, {t.initial})

Dodging(t, steps, S, A) ==
    Fixpoint(LAMBDA R : R \cup {e[2] : e \in {e \in steps : e[1] \notin A /\ e[3] \in R}},
             {s \in S : IsGoal(t, s)})

AllAchievers(t, g) ==
    {DOMAIN t.operators} \cup UNION {{g.info[lm].first, g.info[lm].possible} : lm \in Lms(g)}

AllPaths(t, g, flags, steps, S) ==
    Fixpoint(LAMBDA m : FoldSet(LAMBDA e, n :
                 [n EXCEPT ![e[3]] = Progress(g, flags, n[e[2]], e[2], e[3], @)], m, steps),
             [s \in S |-> IF s = t.initial THEN ProgressInitialState(g, s) ELSE NoStatus(g)])

ReachedSteps(steps, S) == {e \in steps : e[2] \in S}

(* o: [graph, kind, flags]                                                 *)
ObserverOf(t, o, steps, S) ==
    o @@ [task |-> t, cyclic |-> HasCycleOfNaturalOrderings(o.graph),
          dodges |-> [A \in AllAchievers(t, o.graph) |-> Dodging(t, steps, S, A)],
          merged |-> AllPaths(t, o.graph, o.flags, ReachedSteps(steps, S), S)]

Progression(goals, greedy, reasonable) ==
    [goals |-> goals, greedy |-> greedy, reasonable |-> reasonable]
Estimator(graph, kind, flags) == [graph |-> graph, kind |-> kind, flags |-> flags]

Observers(t, options, steps, S) ==
    FoldLeft(LAMBDA r, o : Append(r, ObserverOf(t, o, steps, S)), <<>>, options)

ObserversIn(t, options, steps) == Observers(t, options, steps, FromInitial(t, steps))

GeneralOptions(t, sasp, labelled, kind) ==
    <<Estimator(sasp, kind, Progression(TRUE, TRUE, FALSE)),
      Estimator(labelled, "sum", Progression(FALSE, TRUE, FALSE)),
      Estimator(LandmarkFactoryReasonableOrdersHPS(t, sasp), "sum", Progression(TRUE, TRUE, TRUE)),
      Estimator(LandmarkFactoryMerged(<<LandmarkFactoryRpgSasp(t, PredicateOfVar(t), FALSE, TRUE),
                                        labelled>>), kind, Progression(TRUE, FALSE, FALSE))>>

SimpleOptions(t) ==
    <<Estimator(LandmarkFactoryHM(t, 2, TRUE, TRUE), "uniform_alm", Progression(TRUE, TRUE, FALSE)),
      Estimator(LandmarkFactoryReasonableOrdersHPS(t, LandmarkFactoryHM(t, 1, FALSE, TRUE)),
                "uniform", Progression(TRUE, TRUE, TRUE)),
      Estimator(LandmarkFactoryRpgExhaust(t, TRUE), "uniform_alm", Progression(TRUE, TRUE, FALSE))>>

LandmarkOptions(t) ==
    GeneralOptions(t, LandmarkFactoryRpgSasp(t, OnePredicate(t), TRUE, TRUE),
                   LandmarkFactoryZhuGivan(t, TRUE), IF HasAxioms(t) THEN "sum" ELSE "uniform_alm")
    \o (IF IsSimple(t) THEN SimpleOptions(t) ELSE <<>>)

LandmarksWith(t) == ObserversIn(t, LandmarkOptions(t), TransitionsOf(t, States(t)))

LandmarksOfTask(t) == LandmarksWith(DefaultValueAxiomsTask(t, "approximate_negative_cycles"))

-----------------------------------------------------------------------------
SuccessorsOf(t, g) == [s \in States(t) |-> GenerateApplicableOps(g, s)]

(* methods of pruning, by name                                             *)
AtomCentric(shortcut, strategy) ==
    [kind |-> "atom", shortcut |-> shortcut, strategy |-> strategy]

PruningMethods ==
    [simple |-> [kind |-> "simple"], ec |-> [kind |-> "ec"],
     quickSkip |-> AtomCentric(TRUE, "quick_skip"), first |-> AtomCentric(FALSE, "fast_downward"),
     staticSmall |-> AtomCentric(FALSE, "static_small"),
     dynamicSmall |-> AtomCentric(TRUE, "dynamic_small")]

PruningsWith(t, d, reach, successors) ==
    [null |-> successors] @@
    [name \in DOMAIN PruningMethods |-> RemainingOf(t, d, reach, PruningMethods[name], successors)]

PruningsFor(t, d, successors) == PruningsWith(t, d, ReachabilityMap(d), successors)

PruningsOf(t, successors) ==
    IF IsSimple(t) THEN PruningsFor(t, SortedTask(t), successors) ELSE [null |-> successors]

(* the abstraction that tells value 0 of a variable from its other values  *)
FirstValue(t) == [v \in Vars(t) |-> <<Values(t, v) \ {0}>>]

ImageOf(t, groups) ==
    IF IsSimple(t)
    THEN [task |-> Abstracted(t, groups), of |-> [s \in States(t) |-> ConvertState(t, groups, s)]]
    ELSE [task |-> t, of |-> [s \in States(t) |-> s]]

(* for variables that are not on a cycle of axioms                         *)
DefaultsOf(t) ==
    {[var |-> v, conditions |-> {a.conditions : a \in DefaultValueAxioms(t, v)}] :
        v \in {v \in Vars(t) : IsDerived(t, v) /\ ~OnCycle(t, v)}}

(* the rounds of LM-cut in each state, as LandmarkCuts sees them           *)
Relaxed(t, ops, s) ==
    [facts |-> Propositions(t), goal |-> ArtificialGoal,
     needs |-> [o \in DOMAIN ops |-> ToSet(ops[o].pre)],
     adds |-> [o \in DOMAIN ops |-> ToSet(ops[o].eff)],
     base |-> [o \in DOMAIN ops |-> ops[o].cost],
     state |-> FactsOf(s) \cup {ArtificialPrecondition}]

RoundSeen(x, reached) ==
    [price |-> x.cost, total |-> x.total,
     labels |-> [reached |-> reached, hmax |-> Restrict(x.hmax, reached),
                 supporter |-> Restrict(x.supporter, {o \in DOMAIN x.supporter :
                                                        x.supporter[o] # NoProposition})]]

CutsWith(t, ops, S) ==
    [s \in S |->
        [relaxed |-> Relaxed(t, ops, s),
         rounds |-> FoldLeft(LAMBDA r, x :
                        Append(r, RoundSeen(x, {p \in DOMAIN x.status : x.status[p] # "unreached"})),
                        <<>>, CutRounds(t, ops, s))]]

CutsOf(t) == CutsWith(t, RelaxedOperators(t), States(t))

(* the value of each task, computed at once                                *)
ForEachTask(f(_)) == FoldLeft(LAMBDA r, t : Append(r, f(t)), <<>>, AllTasks)

AllEstimates == ForEachTask(EstimatesOf)
AllSuccessors == ForEachTask(LAMBDA t : SuccessorsOf(t, Generator(t)))
AllArcs == ForEachTask(LAMBDA t :
    [s \in States(t) |-> {<<o, Successor(t, s, t.operators[o])>> : o \in Applicable(t, s)}])
AllPrunings == ForEachTask(LAMBDA t : PruningsOf(t, SuccessorsOf(t, Generator(t))))
AllImages == ForEachTask(LAMBDA t : ImageOf(t, FirstValue(t)) @@ [defaults |-> DefaultsOf(t)])
AllPatternResults == ForEachTask(LAMBDA t : IF IsSimple(t) THEN PatternsOf(t) ELSE <<>>)

AbstractionsOf(t) ==
    UnionOfTables({MergeAndShrinkOf(t)} \cup {CartesianTables(x) : x \in {x \in {t} : IsSimple(x)}})

AllAbstractions == ForEachTask(LAMBDA t : IF HasAxioms(t) THEN <<>> ELSE AbstractionsOf(t))
AllLandmarks == ForEachTask(LandmarksOfTask)
AllCuts == ForEachTask(LAMBDA t : IF IsSimple(t) THEN CutsOf(t) ELSE <<>>)
=============================================================================
