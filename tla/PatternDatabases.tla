-------------------------- MODULE PatternDatabases --------------------------
(***************************************************************************)
(* Pattern databases: the goal distances of all states of a projection to  *)
(* a pattern, which is an ascending sequence of variables.  An abstract    *)
(* state is a number; facts of abstract operators are <<position in the    *)
(* pattern, value>>.  Tasks have no axioms and no conditional effects.     *)
(***************************************************************************)
EXTENDS PlanningTask, GraphAlgorithms

MaxInt == 2147483647

(* a product beyond limit has no place in an int or in the user's bounds   *)
IsProductWithinLimit(a, b, limit) == a <= limit \div b

(* Projection: 0 states stand for an overflow, which ends the program      *)
PdbSize(t, pattern) ==
    FoldLeft(LAMBDA n, v : IF IsProductWithinLimit(n, t.sizes[v], MaxInt)
                           THEN n * t.sizes[v] ELSE 0,
             1, pattern)

Multipliers(t, pattern) ==
    [i \in DOMAIN pattern |-> PdbSize(t, SubSeq(pattern, 1, i - 1))]

Projection(t, pattern) ==
    [pattern |-> pattern, multipliers |-> Multipliers(t, pattern),
     sizes |-> [i \in DOMAIN pattern |-> t.sizes[pattern[i]]], states |-> PdbSize(t, pattern)]

Rank(pr, s) == SumOver(DOMAIN pr.pattern, LAMBDA i : pr.multipliers[i] * s[pr.pattern[i]])

Unrank(pr, index, i) == (index \div pr.multipliers[i]) % pr.sizes[i]

-----------------------------------------------------------------------------
(* Abstract operators, for regression: preconditions are what holds after  *)
(* the operator, the hash effect leads back to the number of the state     *)
(* before it.  An effect without a precondition is multiplied out over all *)
(* values the variable may have had; one it had already is no effect.      *)

PatternFacts(pr, facts) ==
    UNION {{<<i, f[2]>> : i \in {i \in DOMAIN pr.pattern : pr.pattern[i] = f[1]}} : f \in facts}

(* the functions with one value for each position, as sets of facts        *)
PriorValues(pr, eff, pre) ==
    LET free == {f[1] : f \in eff} \ {f[1] : f \in pre}
    IN  FoldLeft(LAMBDA found, i : UNION {{c \cup {<<i, d>>} : d \in 0..(pr.sizes[i] - 1)} : c \in found},
                 {pre}, Ascending(free))

ValueAt(facts, i) == (CHOOSE f \in facts : f[1] = i)[2]

BuildAbstractOperator(pr, o, cost, prior, eff) ==
    LET kept == {f \in prior : \A e \in eff : e[1] # f[1]}
    IN  [op |-> o, cost |-> cost, regression |-> SortedPrecondition([preconditions |-> kept \cup eff]),
         hashEffect |-> SumOver({e[1] : e \in eff}, LAMBDA i :
             (ValueAt(prior, i) - ValueAt(eff, i)) * pr.multipliers[i])]

(* mutant: the variable is not multiplied out                              *)
IgnoresUnknownValues(pr, op, o, cost) ==
    LET pre == PatternFacts(pr, op.preconditions)
        eff == PatternFacts(pr, {e.fact : e \in ToSet(op.effects)})
    IN  IF eff = {} THEN <<>>
        ELSE <<BuildAbstractOperator(pr, o, cost, pre \cup {e \in eff : \A f \in pre : f[1] # e[1]}, eff)>>

BuildAbstractOperators(pr, op, o, cost) ==
    LET pre == PatternFacts(pr, op.preconditions)
        eff == PatternFacts(pr, {e.fact : e \in ToSet(op.effects)})
        touched(prior) == (eff \ prior) # {} \/ \E e \in eff : \E f \in pre : e[1] = f[1]
        priors == {p \in PriorValues(pr, eff, pre) : touched(p)}
    IN  Listed({BuildAbstractOperator(pr, o, cost, p, eff) : p \in priors})

ComputeAbstractOperators(t, pr, costs) ==
    FlattenSeq([o \in DOMAIN t.operators |->
        BuildAbstractOperators(pr, t.operators[o], o, costs[o])])

-----------------------------------------------------------------------------
(* The match tree: a node tests a position of the pattern (0: none yet),   *)
(* with a child for each value somebody asked for and one, the star, for   *)
(* operators that do not care.  Positions grow on the way down.            *)

NoNode == [var |-> -1]
TreeNode(var) == [var |-> var, ops |-> <<>>, child |-> <<>>, star |-> NoNode]

RECURSIVE InsertOperator(_, _, _)
InsertOperator(node, id, pre) ==
    LET here == IF node = NoNode THEN TreeNode(0) ELSE node
        fact == pre[1]
        above == IF here.var = 0 THEN [here EXCEPT !.var = fact[1]]
                 ELSE IF here.var > fact[1] THEN [TreeNode(fact[1]) EXCEPT !.star = here]
                 ELSE here
        below == IF fact[2] \in DOMAIN above.child THEN above.child[fact[2]] ELSE NoNode
    IN  IF pre = <<>> THEN [here EXCEPT !.ops = Append(@, id)]
        ELSE IF above.var = fact[1]
        THEN [above EXCEPT !.child = (fact[2] :> InsertOperator(below, id, Tail(pre))) @@ @]
        ELSE [above EXCEPT !.star = InsertOperator(@, id, pre)]

MatchTree(ops) ==
    FoldLeft(LAMBDA root, i : InsertOperator(root, i, ops[i].regression),
             NoNode, [i \in DOMAIN ops |-> i])

RECURSIVE ApplicableOperatorIds(_, _, _)
ApplicableOperatorIds(node, pr, index) ==
    IF node = NoNode THEN <<>>
    ELSE IF node.var = 0 THEN node.ops
    ELSE LET d == Unrank(pr, index, node.var)
         IN  node.ops
             \o (IF d \in DOMAIN node.child
                 THEN ApplicableOperatorIds(node.child[d], pr, index) ELSE <<>>)
             \o ApplicableOperatorIds(node.star, pr, index)

-----------------------------------------------------------------------------
(* Dijkstra's algorithm from the goals backwards.  x holds the distances,  *)
(* the queue and for each state the operator its distance came from.       *)

IsAbstractGoal(t, pr, index) ==
    \A f \in PatternFacts(pr, ToSet(t.goals)) : Unrank(pr, index, f[1]) = f[2]

Regress(x, op, index) ==
    LET before == index + op.hashEffect
        cost == x.distances[index] + op.cost
    IN  IF cost < x.distances[before]
        THEN [x EXCEPT !.distances[before] = cost, !.generating[before] = op,
                       !.queue = Push(@, cost, before)]
        ELSE x

DijkstraStep(pr, ops, tree, x) ==
    LET node == Popped(x.queue)
        rest == [x EXCEPT !.queue = AfterPop(@)]
    IN  IF node[1] > x.distances[node[2]] THEN rest
        ELSE FoldLeft(LAMBDA y, id : Regress(y, ops[id], node[2]), rest,
                      ApplicableOperatorIds(tree, pr, node[2]))

DistancesFrom(pr, ops, tree, goals) ==
    While(LAMBDA x : x.queue # <<>>, LAMBDA x : DijkstraStep(pr, ops, tree, x),
          [distances |-> [i \in 0..(pr.states - 1) |-> IF i \in goals THEN 0 ELSE Infinity],
           generating |-> [i \in 0..(pr.states - 1) |-> <<>>],
           queue |-> [i \in 1..Cardinality(goals) |-> <<0, Ascending(goals)[i]>>]])

(* the operators that make one step of the plan, all alike in the          *)
(* projection; without wildcards one of them is taken                      *)
RECURSIVE PlanFrom(_, _, _, _, _, _)
PlanFrom(pr, ops, tree, goals, x, index) ==
    IF index \in goals THEN <<>>
    ELSE LET op == x.generating[index]
             next == index - op.hashEffect
             alike(id) == ops[id].hashEffect = op.hashEffect /\ ops[id].cost = op.cost
         IN  <<{ops[id].op : id \in {id \in ToSet(ApplicableOperatorIds(tree, pr, next)) : alike(id)}}>>
             \o PlanFrom(pr, ops, tree, goals, x, next)

PdbOf(t, pr, ops, tree, goals, x) ==
    LET init == Rank(pr, t.initial)
    IN  [projection |-> pr, distances |-> x.distances,
         plan |-> IF x.distances[init] = Infinity THEN <<>>
                  ELSE PlanFrom(pr, ops, tree, goals, x, init)]

PdbWithTree(t, pr, ops, tree, goals) ==
    PdbOf(t, pr, ops, tree, goals, DistancesFrom(pr, ops, tree, goals))

PdbWithOperators(t, pr, ops) ==
    PdbWithTree(t, pr, ops, MatchTree(ops),
                {i \in 0..(pr.states - 1) : IsAbstractGoal(t, pr, i)})

PdbOfProjection(t, pr, costs) == PdbWithOperators(t, pr, ComputeAbstractOperators(t, pr, costs))

OperatorCosts(t) == [o \in DOMAIN t.operators |-> t.operators[o].cost]

ComputePdb(t, pattern, costs) == PdbOfProjection(t, Projection(t, pattern), costs)

PdbValue(pdb, s) == pdb.distances[Rank(pdb.projection, s)]

-----------------------------------------------------------------------------
(* Collections of patterns                                                 *)

NormalizedPattern(pattern) == Ascending(ToSet(pattern))

TotalSize(t, patterns) == SumOver(DOMAIN patterns, LAMBDA i : PdbSize(t, patterns[i]))

IsOperatorRelevant(pattern, op) == \E e \in ToSet(op.effects) : e.fact[1] \in ToSet(pattern)

(* additive: no operator has effects on variables of both                  *)
AdditiveVars(t) ==
    {uv \in Vars(t) \X Vars(t) : \A op \in ToSet(t.operators) :
        ~({uv[1], uv[2]} \subseteq {e.fact[1] : e \in ToSet(op.effects)})}

ArePatternsAdditive(p, q, additive) == ToSet(p) \X ToSet(q) \subseteq additive

PatternCliques(patterns, additive) ==
    MaxCliques([i \in DOMAIN patterns |->
        {j \in DOMAIN patterns : j # i /\ ArePatternsAdditive(patterns[i], patterns[j], additive)}])

(* what is left of the known cliques beside a new pattern                  *)
CliquesWithPattern(patterns, cliques, pattern, additive) ==
    LET left(clique) == SelectSeq(clique, LAMBDA i : ArePatternsAdditive(pattern, patterns[i], additive))
        some == SelectSeq([c \in DOMAIN cliques |-> left(cliques[c])], LAMBDA c : c # <<>>)
    IN  IF some = <<>> THEN <<(<<>>)>> ELSE some

(* a sum over patterns, Infinity as soon as one of them knows a dead end   *)
CliqueValue(values, clique) == SumOver(DOMAIN clique, LAMBDA c : values[clique[c]])

CanonicalValue(pdbs, cliques, s) ==
    LET values == [i \in DOMAIN pdbs |-> PdbValue(pdbs[i], s)]
    IN  IF Infinity \in ToSet(values) THEN Infinity
        ELSE Max({0} \cup {CliqueValue(values, cliques[c]) : c \in DOMAIN cliques})

(* each operator counts in the first database whose pattern it affects     *)
ZeroOnePdbs(t, patterns) ==
    FoldLeft(LAMBDA x, p :
        [pdbs |-> Append(x.pdbs, ComputePdb(t, p, x.costs)),
         costs |-> [o \in DOMAIN x.costs |->
                       IF IsOperatorRelevant(p, t.operators[o]) THEN 0 ELSE x.costs[o]]],
        [pdbs |-> <<>>, costs |-> OperatorCosts(t)], patterns).pdbs

ZeroOneValue(pdbs, s) ==
    LET values == [i \in DOMAIN pdbs |-> PdbValue(pdbs[i], s)]
    IN  IF Infinity \in ToSet(values) THEN Infinity
        ELSE SumOver(DOMAIN values, LAMBDA i : values[i])

(* the sum of the mean finite estimates, in thousandths; a database  *)
(* without a finite estimate counts as infinite                            *)
MeanFiniteH(pdb) ==
    LET finite == {i \in DOMAIN pdb.distances : pdb.distances[i] # Infinity}
    IN  IF finite = {} THEN Infinity
        ELSE (1000 * SumOver(finite, LAMBDA i : pdb.distances[i])) \div Cardinality(finite)

-----------------------------------------------------------------------------
(* Dominance pruning: a pattern within one of a clique's patterns is       *)
(* dominated by it, and a clique of dominated patterns by the clique.      *)

IsPatternDominated(patterns, pattern, clique) ==
    \E c \in DOMAIN clique : ToSet(pattern) \subseteq ToSet(patterns[clique[c]])

IsCliqueDominated(patterns, other, clique) ==
    \A c \in DOMAIN other : IsPatternDominated(patterns, patterns[other[c]], clique)

PrunedCliques(patterns, cliques) ==
    FoldLeft(LAMBDA pruned, c :
        IF c \in pruned THEN pruned
        ELSE pruned \cup {d \in DOMAIN cliques \ {c} : IsCliqueDominated(patterns, cliques[d], cliques[c])},
        {}, [c \in DOMAIN cliques |-> c])

(* remaining cliques, and the patterns they use, numbered anew             *)
PruneDominatedCliques(patterns, pdbs, cliques) ==
    LET kept == Ascending(DOMAIN cliques \ PrunedCliques(patterns, cliques))
        used == Ascending(UNION {ToSet(cliques[c]) : c \in ToSet(kept)})
        new(i) == CHOOSE j \in DOMAIN used : used[j] = i
    IN  [patterns |-> [j \in DOMAIN used |-> patterns[used[j]]],
         pdbs |-> [j \in DOMAIN used |-> pdbs[used[j]]],
         cliques |-> [c \in DOMAIN kept |->
                         [i \in DOMAIN cliques[kept[c]] |-> new(cliques[kept[c]][i])]]]
=============================================================================
