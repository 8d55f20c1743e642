------------------------- MODULE PatternGenerators --------------------------
(***************************************************************************)
(* How patterns are chosen.  A generator that chooses at random, or that a *)
(* time limit may end after any step, is modelled by the set of all        *)
(* results it can have.  pdbs gives the database of every pattern.         *)
(***************************************************************************)
EXTENDS PatternDatabases

AllPatterns(t) == {Ascending(P) : P \in SUBSET Vars(t)}

PdbTable(t) == [p \in AllPatterns(t) |-> ComputePdb(t, p, OperatorCosts(t))]

(* greedy: variables in causal graph order until one does not fit          *)
GreedyPattern(t, cg, maxStates) ==
    FoldLeft(LAMBDA x, v :
        IF x.open /\ IsProductWithinLimit(x.size, t.sizes[v], maxStates)
        THEN [x EXCEPT !.pattern = Append(@, v), !.size = @ * t.sizes[v]]
        ELSE [x EXCEPT !.open = FALSE],
        [pattern |-> <<>>, size |-> 1, open |-> TRUE],
        VariableOrder(t, cg, "goal_cg_level", <<>>)).pattern

(* combo: that pattern, and one for each goal it lacks                     *)
ComboPatterns(t, cg, maxStates) ==
    LET large == GreedyPattern(t, cg, maxStates)
        others == SelectSeq([g \in DOMAIN t.goals |-> t.goals[g][1]],
                            LAMBDA v : v \notin ToSet(large))
    IN  <<NormalizedPattern(large)>> \o [i \in DOMAIN others |-> <<others[i]>>]

GoalPatterns(t) == [g \in DOMAIN t.goals |-> <<t.goals[g][1]>>]

With1(pattern, v) == NormalizedPattern(Append(pattern, v))

-----------------------------------------------------------------------------
(* systematic: patterns grown from a goal against the arcs (sga), then     *)
(* unions of disjoint ones that are connected in the causal graph          *)

EffPreNeighbors(cg, pattern) == UNION {cg.effToPre[v] : v \in ToSet(pattern)} \ ToSet(pattern)

ConnectionPoints(cg, pattern) ==
    UNION {cg.successors[v] : v \in ToSet(pattern)}
        \ (ToSet(pattern) \cup UNION {cg.effToPre[v] : v \in ToSet(pattern)})

(* patterns found first come first, each of them once                      *)
Enqueued1(patterns, new) == patterns \o SelectSeq(new, LAMBDA p : ~Contains(patterns, p))

SgaPatterns(t, cg, maxSize) ==
    LET grown(p) == IF Len(p) = maxSize THEN {} ELSE {With1(p, v) : v \in EffPreNeighbors(cg, p)}
    IN  While(LAMBDA x : x.at <= Len(x.patterns),
              LAMBDA x : [at |-> x.at + 1,
                          patterns |-> Enqueued1(x.patterns, Listed(grown(x.patterns[x.at])))],
              [at |-> 1, patterns |-> GoalPatterns(t)]).patterns

SystematicPatterns(t, cg, maxSize) ==
    LET sga == SgaPatterns(t, cg, maxSize)
        joined(p) ==
            {NormalizedPattern(p \o q) : q \in {q \in ToSet(sga) :
                /\ ToSet(q) \cap ConnectionPoints(cg, p) # {}
                /\ Len(p) + Len(q) <= maxSize
                /\ ToSet(p) \cap ToSet(q) = {}}}
    IN  While(LAMBDA x : x.at <= Len(x.patterns),
              LAMBDA x : [at |-> x.at + 1,
                          patterns |-> Enqueued1(x.patterns, Listed(joined(x.patterns[x.at])))],
              [at |-> 1, patterns |-> sga]).patterns

(* what "interesting" means: the pattern is connected in the causal graph, *)
(* and arcs within it lead from each of its variables to a goal            *)
IsInteresting(t, cg, P) ==
    LET within(v, next) == Fixpoint(LAMBDA R : R \cup (UNION {next[u] : u \in R} \cap P), {v})
        either == [v \in Vars(t) |-> cg.successors[v] \cup cg.predecessors[v]]
    IN  /\ P # {}
        /\ \A v \in P : within(v, either) = P
        /\ \A v \in P : within(v, cg.preToEff) \cap GoalVars(t) # {}

-----------------------------------------------------------------------------
(* random walks on the causal graph from a goal, variable by variable      *)

Neighbors(t, cg, bidirectional) ==
    [v \in Vars(t) |-> cg.predecessors[v] \cup IF bidirectional THEN cg.successors[v] ELSE {}]

RandomWalkSteps(t, neighbors, maxSize, x) ==
    {[at |-> v, visited |-> x.visited \cup {v}] :
        v \in {v \in neighbors[x.at] \ x.visited :
            IsProductWithinLimit(PdbSize(t, Ascending(x.visited)), t.sizes[v], maxSize)}}

RandomPatterns(t, neighbors, maxSize, goal) ==
    {Ascending(x.visited) : x \in
        Fixpoint(LAMBDA X : X \cup UNION {RandomWalkSteps(t, neighbors, maxSize, x) : x \in X},
                 {[at |-> goal, visited |-> {goal}]})}

(* patterns for one goal after another until the collection is large       *)
(* enough; found[n][g] holds the patterns of at most n states for goal g   *)
HandleGeneratedPattern(t, x, pattern) ==
    [generated |-> x.generated \cup {pattern},
     remaining |-> x.remaining - IF pattern \in x.generated THEN 0 ELSE PdbSize(t, pattern),
     goal |-> (x.goal % Len(t.goals)) + 1]

MultiplePatterns(t, found, maxPdb, maxCollection) ==
    LET next(x) == {HandleGeneratedPattern(t, x, p) :
                       p \in found[Min({x.remaining, maxPdb})][x.goal]}
        start == {[generated |-> {}, remaining |-> maxCollection, goal |-> g] : g \in DOMAIN t.goals}
        all == Fixpoint(LAMBDA X : X \cup UNION {next(x) : x \in {x \in X : x.remaining > 0}}, start)
    IN  {x.generated : x \in {x \in all : x.generated # {}}}

-----------------------------------------------------------------------------
(* CEGAR: each pattern has an optimal plan in its projection.  Where it    *)
(* cannot be executed the pattern lacks a variable (a flaw); adding it may *)
(* merge two patterns, and a variable that does not fit is blacklisted.    *)
(* c: [infos, blacklisted]; an info is <<>> where a pattern was merged.    *)
(* (The program ends if a projection proves that there is no plan.)        *)

PatternInfos(pdbs, wildcard, pattern) ==
    LET plan == pdbs[pattern].plan
        single == {[i \in DOMAIN plan |-> {f[i]}] : f \in
                      {f \in [DOMAIN plan -> UNION ToSet(plan)] : \A i \in DOMAIN plan : f[i] \in plan[i]}}
    IN  {[pattern |-> pattern, plan |-> p, solved |-> FALSE] :
            p \in IF wildcard THEN {plan} ELSE single}

ViolatedPreconditions(t, c, o, s) ==
    {f[1] : f \in {f \in t.operators[o].preconditions :
                       f[1] \notin c.blacklisted /\ s[f[1]] # f[2]}}

(* an operator is applied although variables on the blacklist forbid it    *)
ApplyOpToState(t, s, o) ==
    FoldLeft(LAMBDA r, e : [r EXCEPT ![e.fact[1]] = e.fact[2]], s, t.operators[o].effects)

(* all outcomes: a final state, or the flaws of the step that failed       *)
ApplyPlan(t, c, plan) ==
    LET step(x, ops) ==
            LET can == {o \in ops : ViolatedPreconditions(t, c, o, x.state) = {}}
            IN  IF x.flaws # {} THEN {x}
                ELSE IF can = {}
                THEN {[x EXCEPT !.flaws = UNION {ViolatedPreconditions(t, c, o, x.state) : o \in ops}]}
                ELSE {[x EXCEPT !.state = ApplyOpToState(t, x.state, o)] : o \in can}
    IN  FoldLeft(LAMBDA X, ops : UNION {step(x, ops) : x \in X},
                 {[state |-> t.initial, flaws |-> {}]}, plan)

(* y: [c, flaws (of all patterns), solution (an index; 0: none)]           *)
FlawsForPattern(t, y, i) ==
    LET info == y.c.infos[i]
        goalFlaws(s) == {f[1] : f \in {f \in ToSet(t.goals) :
                            s[f[1]] # f[2] /\ f[1] \notin y.c.blacklisted}}
        judged(x) ==
            IF x.flaws # {} THEN [y EXCEPT !.flaws = @ \cup {<<i, v>> : v \in x.flaws}]
            ELSE IF IsGoal(t, x.state) /\ y.c.blacklisted = {} THEN [y EXCEPT !.solution = i]
            ELSE IF ~IsGoal(t, x.state) /\ goalFlaws(x.state) # {}
            THEN [y EXCEPT !.flaws = @ \cup {<<i, v>> : v \in goalFlaws(x.state)}]
            ELSE [y EXCEPT !.c.infos[i].solved = TRUE]
    IN  IF y.solution # 0 \/ info = <<>> \/ (info # <<>> /\ info.solved) THEN {y}
        ELSE {judged(x) : x \in ApplyPlan(t, y.c, info.plan)}

Flaws(t, c) ==
    FoldLeft(LAMBDA Y, i : UNION {FlawsForPattern(t, y, i) : y \in Y},
             {[c |-> c, flaws |-> {}, solution |-> 0]}, [i \in DOMAIN c.infos |-> i])

Live(c) == {i \in DOMAIN c.infos : c.infos[i] # <<>>}
CollectionSize(t, c) == SumOver(Live(c), LAMBDA i : PdbSize(t, c.infos[i].pattern))
HomeOf(c, v) == {i \in Live(c) : Contains(c.infos[i].pattern, v)}

(* a change of Fits that the checks must notice: pattern after pattern may *)
(* grow to its own limit                                                   *)
FitsAlone(t, c, m, n, given, maxPdb, maxCollection) == IsProductWithinLimit(m, n, maxPdb)

(* growing a pattern of size m by a factor of n, which replaces patterns   *)
(* of size given, keeps to the limits                                      *)
Fits(t, c, m, n, given, maxPdb, maxCollection) ==
    /\ IsProductWithinLimit(m, n, maxPdb)
    /\ CollectionSize(t, c) + m * n - given <= maxCollection

RefineFlaw(t, pdbs, wildcard, maxPdb, maxCollection, c, flaw) ==
    LET i == flaw[1]
        v == flaw[2]
        mine == c.infos[i].pattern
        m == PdbSize(t, mine)
        homes == HomeOf(c, v)
        j == CHOOSE j \in homes : TRUE
        n == PdbSize(t, c.infos[j].pattern)
        infos(p) == PatternInfos(pdbs, wildcard, NormalizedPattern(p))
    IN  IF homes # {}
        THEN IF Fits(t, c, m, n, m + n, maxPdb, maxCollection)
             THEN {[c EXCEPT !.infos = [@ EXCEPT ![i] = info, ![j] = <<>>]] :
                      info \in infos(mine \o c.infos[j].pattern)}
             ELSE {[c EXCEPT !.blacklisted = @ \cup {v}]}
        ELSE IF Fits(t, c, m, t.sizes[v], m, maxPdb, maxCollection)
        THEN {[c EXCEPT !.infos[i] = info] : info \in infos(Append(mine, v))}
        ELSE {[c EXCEPT !.blacklisted = @ \cup {v}]}

InitialCollections(pdbs, wildcard, goals, blacklisted) ==
    FoldLeft(LAMBDA C, g :
        {[c EXCEPT !.infos = Append(@, info)] : c \in C, info \in PatternInfos(pdbs, wildcard, <<g>>)},
        {[infos |-> <<>>, blacklisted |-> blacklisted]}, goals)

(* every iteration of every run: [c, flaws, solution]                      *)
CegarIterations(t, pdbs, wildcard, maxPdb, maxCollection, goals, blacklisted) ==
    LET next(y) ==
            IF y.solution # 0 \/ y.flaws = {} THEN {}
            ELSE UNION {UNION {Flaws(t, d) : d \in
                    RefineFlaw(t, pdbs, wildcard, maxPdb, maxCollection, y.c, f)} : f \in y.flaws}
        start == UNION {Flaws(t, c) : c \in InitialCollections(pdbs, wildcard, goals, blacklisted)}
    IN  Fixpoint(LAMBDA Y : Y \cup UNION {next(y) : y \in Y}, start)

(* what is returned when the run ends after iteration y                    *)
CegarResult(y) ==
    IF y.solution # 0 THEN {y.c.infos[y.solution].pattern}
    ELSE {y.c.infos[i].pattern : i \in Live(y.c)}

-----------------------------------------------------------------------------
(* Searches in the space of pattern collections: hill-climbing, which adds *)
(* the pattern that improves the canonical heuristic on most of a sample   *)
(* of states, and a genetic algorithm.                                     *)

(* x: [patterns, candidates, generated]: the collection, what may be added *)
(* to it, and everything that has ever been a candidate                    *)

RelevantNeighbours(t, cg, v) == cg.effToPre[v] \cup (cg.successors[v] \cap GoalVars(t))

GenerateCandidates(t, cg, maxPdb, x, pattern) ==
    LET relevant == UNION {RelevantNeighbours(t, cg, v) : v \in ToSet(pattern)} \ ToSet(pattern)
        new == {With1(pattern, v) : v \in
                   {v \in relevant : IsProductWithinLimit(PdbSize(t, pattern), t.sizes[v], maxPdb)}}
                   \ x.generated
    IN  [x EXCEPT !.candidates = @ \o Listed(new), !.generated = @ \cup new]

HillClimbingStart(t, cg, maxPdb) ==
    FoldLeft(LAMBDA x, p : GenerateCandidates(t, cg, maxPdb, x, p),
             [patterns |-> GoalPatterns(t), candidates |-> <<>>, generated |-> {}], GoalPatterns(t))

Values1(pdbs, patterns, s) == [i \in DOMAIN patterns |-> PdbValue(pdbs[patterns[i]], s)]

(* is h the estimate of the collection, does the pattern raise it in s?    *)
IsHeuristicImproved(own, h, values, cliques) ==
    \/ own = Infinity
    \/ /\ h # Infinity
       /\ Infinity \notin ToSet(values)
       /\ \E c \in DOMAIN cliques : own + CliqueValue(values, cliques[c]) > h

Improvement(pdbs, additive, cliques, patterns, samples, pattern) ==
    LET beside == CliquesWithPattern(patterns, cliques, pattern, additive)
        current(s) == CanonicalValue([i \in DOMAIN patterns |-> pdbs[patterns[i]]], cliques, s)
    IN  Cardinality({k \in DOMAIN samples :
            IsHeuristicImproved(PdbValue(pdbs[pattern], samples[k]), current(samples[k]),
                                Values1(pdbs, patterns, samples[k]), beside)})

(* candidates that no longer fit are forgotten; of the others the first    *)
(* with the greatest improvement is taken                                  *)
Fitting(t, x, maxCollection) ==
    SelectSeq(x.candidates, LAMBDA p : TotalSize(t, x.patterns) + PdbSize(t, p) <= maxCollection)

ClimbWith(t, cg, pdbs, additive, maxPdb, minImprovement, x, cliques, fitting, samples) ==
    LET count == [k \in DOMAIN fitting |->
                     Improvement(pdbs, additive, cliques, x.patterns, samples, fitting[k])]
        best == CHOOSE k \in DOMAIN fitting :
                    /\ \A j \in DOMAIN fitting : count[j] <= count[k]
                    /\ \A j \in 1..(k - 1) : count[j] < count[k]
    IN  IF fitting = <<>> \/ (fitting # <<>> /\ count[best] < minImprovement) THEN {}
        ELSE {GenerateCandidates(t, cg, maxPdb,
                  [x EXCEPT !.patterns = Append(@, fitting[best]),
                            !.candidates = RemoveAt(fitting, best)], fitting[best])}

(* all successors of x, over all samples that may be drawn from S          *)
ClimbSteps(t, cg, pdbs, additive, limits, S, x) ==
    LET cliques == PatternCliques(x.patterns, additive)
        deadEnd == CanonicalValue([i \in DOMAIN x.patterns |-> pdbs[x.patterns[i]]],
                                  cliques, t.initial) = Infinity
    IN  IF deadEnd THEN {}
        ELSE UNION {ClimbWith(t, cg, pdbs, additive, limits.pdb, limits.improvement, x, cliques,
                              Fitting(t, x, limits.collection), samples) :
                        samples \in [1..limits.samples -> S]}

(* S: the states a random walk can get to                                  *)
HillClimbingCollections(t, cg, pdbs, limits, S) ==
    {x.patterns : x \in
        Fixpoint(LAMBDA X : X \cup UNION {ClimbSteps(t, cg, pdbs, AdditiveVars(t), limits, S, x) : x \in X},
                 {HillClimbingStart(t, cg, limits.pdb)})}

-----------------------------------------------------------------------------
(* The genetic algorithm: a collection is a sequence of sets of variables  *)

(* variables in a random order, a new bin when one does not fit            *)
BinPacking(t, maxSize, order) ==
    LET put(x, v) ==
            IF t.sizes[v] > maxSize THEN x
            ELSE IF IsProductWithinLimit(x.size, t.sizes[v], maxSize)
            THEN [x EXCEPT !.bin = @ \cup {v}, !.size = @ * t.sizes[v]]
            ELSE [bins |-> Append(x.bins, x.bin), bin |-> {v}, size |-> t.sizes[v]]
        packed == FoldLeft(put, [bins |-> <<>>, bin |-> {}, size |-> 1], order)
    IN  IF packed.size > 1 THEN Append(packed.bins, packed.bin) ELSE packed.bins

(* any bits may flip; at most so many do                                   *)
Mutations(t, bins, flips) ==
    {[b \in DOMAIN bins |-> SymDiff(bins[b], {v \in Vars(t) : <<b, v>> \in F})] :
        F \in {F \in SUBSET ((DOMAIN bins) \X Vars(t)) : Cardinality(F) <= flips}}

(* what leads to a goal within the pattern                                 *)
RemoveIrrelevantVariables(t, cg, P) ==
    Ascending(Fixpoint(LAMBDA R : R \cup (UNION {cg.effToPre[v] : v \in R} \cap P),
                       P \cap GoalVars(t)))

IsPatternTooLarge(t, P, maxSize) == PdbSize(t, Ascending(P)) > maxSize

(* patterns up to the first that is not allowed                            *)
EvaluateCollection(t, cg, maxSize, disjoint, bins) ==
    FoldLeft(LAMBDA x, P :
        IF ~x.valid THEN x
        ELSE IF IsPatternTooLarge(t, P, maxSize) \/ (disjoint /\ P \cap x.used # {})
        THEN [x EXCEPT !.valid = FALSE]
        ELSE [x EXCEPT !.used = @ \cup P,
                       !.patterns = Append(@, RemoveIrrelevantVariables(t, cg, P))],
        [valid |-> TRUE, used |-> {}, patterns |-> <<>>], bins)

(* in thousandths                                                          *)
InvalidFitness == 1

Fitness(x, pdbs) ==
    IF ~x.valid THEN InvalidFitness
    ELSE LET means == [i \in DOMAIN pdbs |-> MeanFiniteH(pdbs[i])]
         IN  IF Infinity \in ToSet(means) THEN Infinity
             ELSE SumOver(DOMAIN means, LAMBDA i : means[i])

(* an evaluated collection, which may be truncated, and its fitness        *)
JudgedCollection(t, x) == [patterns |-> x.patterns, fitness |-> Fitness(x, ZeroOnePdbs(t, x.patterns))]

Fitter(best, new) == IF new.fitness > best.fitness THEN new ELSE best

(* the best collection of two generations of a population of one           *)
GeneticCollections(t, cg, maxSize, disjoint, flips) ==
    LET orders == {p \in [Vars(t) -> Vars(t)] : IsInjective(p)}
        judged(bins) == JudgedCollection(t, EvaluateCollection(t, cg, maxSize, disjoint, bins))
    IN  UNION {{Fitter(judged(bins), judged(mutated)).patterns :
                   mutated \in Mutations(t, bins, flips)} :
                       bins \in {BinPacking(t, maxSize, p) : p \in orders}}
=============================================================================
