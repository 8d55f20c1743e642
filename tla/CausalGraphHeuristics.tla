----------------------- MODULE CausalGraphHeuristics ------------------------
(***************************************************************************)
(* The heuristics that follow a variable through its values, at the price  *)
(* of what the labels on the way ask of other variables: the causal graph  *)
(* heuristic, with its cache, and the context-enhanced additive one.       *)
(***************************************************************************)
EXTENDS Relaxation

(* Domain transition graphs.  From every value of a variable there are     *)
(* arcs [to, op, cost, precond, effect], op = 0 for an axiom, whose label  *)
(* asks for facts of other variables: of all of them for the context-      *)
(* enhanced heuristic, of those of lower number for the other.             *)

Numbered(t) ==
    [o \in DOMAIN t.operators |-> [op |-> o] @@ t.operators[o]]
    \o [r \in DOMAIN t.axioms |-> [op |-> 0, cost |-> 0] @@ AsOperator(t.axioms[r])]

Precondition(op, e, contextual) ==
    SelectSeq(SortedFacts(op.preconditions) \o SortedFacts(e.conditions),
              LAMBDA f : IF contextual THEN f[1] # e.fact[1] ELSE f[1] < e.fact[1])

(* the values an effect leads away from: none if its conditions conflict   *)
Origins(t, op, e) ==
    LET own == {f[2] : f \in {f \in op.preconditions \cup e.conditions : f[1] = e.fact[1]}}
    IN  (IF own = {} THEN Values(t, e.fact[1])
         ELSE IF Cardinality(own) = 1 THEN own ELSE {}) \ {e.fact[2]}

ArcsOfEffect(t, op, e, contextual) ==
    [i \in 1..Cardinality(Origins(t, op, e)) |->
        [var |-> e.fact[1], from |-> Ascending(Origins(t, op, e))[i],
         arc |-> [to |-> e.fact[2], op |-> op.op, cost |-> op.cost,
                  precond |-> Precondition(op, e, contextual), effect |-> <<>>]]]

CreateTransitions(t, contextual) ==
    FlattenSeq([n \in DOMAIN Numbered(t) |->
        LET op == Numbered(t)[n]
        IN  FlattenSeq([i \in DOMAIN op.effects |->
                           ArcsOfEffect(t, op, op.effects[i], contextual)])])

(* Of labels with the same condition the last stays, unless what a part of *)
(* the condition allows costs no more (not tried for more than five facts, *)
(* nor for those that a later label has replaced).  The order of the hash  *)
(* map is that of the labels here.                                         *)
BagOf(facts) == FoldLeft(LAMBDA b, f : b (+) SetToBag({f}), EmptyBag, facts)

IsReplaced(arcs, i) ==
    \E j \in DOMAIN arcs : j > i /\ BagOf(arcs[j].precond) = BagOf(arcs[i].precond)

IsCovered(arcs, i) ==
    LET condition == BagOf(arcs[i].precond)
    IN  /\ Len(arcs[i].precond) <= 5
        /\ \E j \in DOMAIN arcs :
             /\ ~IsReplaced(arcs, j)
             /\ BagOf(arcs[j].precond) # condition /\ BagOf(arcs[j].precond) \sqsubseteq condition
             /\ arcs[j].cost <= arcs[i].cost

SimplifyLabels(arcs) ==
    FoldLeft(LAMBDA kept, i : IF IsReplaced(arcs, i) \/ IsCovered(arcs, i) THEN kept
                              ELSE Append(kept, arcs[i]),
             <<>>, [i \in DOMAIN arcs |-> i])

(* What else the operator does to the variables asked for, if its label    *)
(* makes sure of it                                                        *)
SideEffects(op, v, tracked, precond) ==
    LET before(u) == SelectSeq(SortedFacts(op.preconditions), LAMBDA f : f[1] = u)
        sure(e) == BagOf(before(e.fact[1]) \o SortedFacts(e.conditions)) \sqsubseteq BagOf(precond)
        effects == SelectSeq(op.effects, LAMBDA e : e.fact[1] \in tracked \ {v} /\ sure(e))
    IN  [i \in DOMAIN effects |-> effects[i].fact]

WithSideEffects(t, v, tracked, arc) ==
    IF arc.op = 0 THEN arc
    ELSE [arc EXCEPT !.effect = SideEffects(t.operators[arc.op], v, tracked, arc.precond)]

Tracked(created, v) ==
    UNION {{f[1] : f \in ToSet(c.arc.precond)} : c \in {c \in ToSet(created) : c.var = v}}

(* arcs to the same value stand together, in the order of the first        *)
ArcsFrom(t, created, v, from, contextual) ==
    LET mine == SelectSeq(created, LAMBDA c : c.var = v /\ c.from = from)
        targets == FoldLeft(LAMBDA x, c : IF Contains(x, c.arc.to) THEN x ELSE Append(x, c.arc.to),
                            <<>>, mine)
        to(d) == LET some == SelectSeq(mine, LAMBDA c : c.arc.to = d)
                 IN  SimplifyLabels([i \in DOMAIN some |-> some[i].arc])
        arcs == FlattenSeq([i \in DOMAIN targets |-> to(targets[i])])
    IN  IF contextual
        THEN [i \in DOMAIN arcs |-> WithSideEffects(t, v, Tracked(created, v), arcs[i])]
        ELSE arcs

GraphsWith(t, created, contextual) ==
    [v \in Vars(t) |-> [from \in Values(t, v) |-> ArcsFrom(t, created, v, from, contextual)]]

DomainTransitionGraphs(t, contextual) ==
    GraphsWith(t, CreateTransitions(t, contextual), contextual)

-----------------------------------------------------------------------------
(* The cache of the causal graph heuristic.  What a variable costs depends *)
(* on those before it in the causal graph, and its entries are found by an *)
(* index made of their values.                                             *)

DependsOn(t, cg) ==
    LET before == [v \in Vars(t) |-> {u \in cg.effToPre[v] : u < v}]
    IN  [v \in Vars(t) |->
            Ascending(Fixpoint(LAMBDA D : D \cup UNION {before[u] : u \in D}, before[v]))]

(* -1: there is no room, for the variable or for one it depends on         *)
RequiredCacheSize(t, v, depends, sizes, limit) ==
    LET grow(size, u) ==
            IF size = -1 \/ sizes[u] = -1 \/ size * t.sizes[u] > limit THEN -1
            ELSE size * t.sizes[u]
        own == t.sizes[v] * (t.sizes[v] - 1)
    IN  IF own > limit THEN -1 ELSE FoldLeft(grow, own, depends)

CacheSizes(t, depends, limit) ==
    FoldLeft(LAMBDA sizes, v :
                 Append(sizes, IF limit = 0 THEN -1
                               ELSE RequiredCacheSize(t, v, depends[v], sizes, limit)),
             <<>>, [v \in Vars(t) |-> v])

CacheOf(t, depends, limit) == [depends |-> depends, sizes |-> CacheSizes(t, depends, limit)]

IsCached(c, v) == c.sizes[v] # -1

CacheIndex(t, c, v, s, from, to) ==
    LET x == FoldLeft(LAMBDA a, u : [index |-> a.index + s[u] * a.factor,
                                     factor |-> a.factor * t.sizes[u]],
                      [index |-> from, factor |-> t.sizes[v]], c.depends[v])
    IN  x.index + (IF to > from THEN to - 1 ELSE to) * x.factor

-----------------------------------------------------------------------------
(* The causal graph heuristic.  x.known has, for the state s, the costs    *)
(* and the first arcs from a value of a variable to its other values;      *)
(* x.cache has those of all states so far; x.cost is the result.           *)
(* p: [task, graphs, cache, least], least the cost of a cheapest operator  *)

NoArc == [op |-> -1, precond |-> <<>>]

(* every label is tried in turn; what it asks for is charged for from the  *)
(* values it finds, until it is too expensive                              *)
RECURSIVE GetTransitionCost(_, _, _, _, _, _)

Charged(x, y) == [x |-> y, total |-> Plus(x.total, y.cost)]

Charge(p, s, x, values, f, bound) ==
    IF x.total >= bound THEN x
    ELSE Charged(x, GetTransitionCost(p, s, x.x, f[1], values[f[1]], f[2]))

Improve(d, total, from, arc) ==
    IF d.dist[arc.to] <= total THEN d
    ELSE [d EXCEPT !.dist[arc.to] = total, !.from[arc.to] = from, !.by[arc.to] = arc,
                   !.helpful[arc.to] = IF d.helpful[from] = NoArc THEN arc ELSE d.helpful[from],
                   !.queue = Push(@, total, arc.to)]

AfterCharge(p, d, charged, from, arc) ==
    Improve([d EXCEPT !.x = charged.x], Max({charged.total, p.least}), from, arc)

ScanArc(p, s, d, from, arc) ==
    AfterCharge(p, d, FoldLeft(LAMBDA x, f : Charge(p, s, x, d.values[from], f, d.dist[arc.to]),
                               [x |-> d.x, total |-> d.dist[from] + arc.cost], arc.precond),
                from, arc)

(* the values of the other variables when a value is reached: those it was *)
(* reached from, but for what the arc asked for                            *)
ValuesAt(d, at) ==
    FoldLeft(LAMBDA values, f : [values EXCEPT ![f[1]] = f[2]],
             d.values[d.from[at]], d.by[at].precond)

Entered(d, at) == IF d.by[at] = NoArc THEN d ELSE [d EXCEPT !.values[at] = ValuesAt(d, at)]

ScanNext(p, s, v, d) ==
    LET top == Popped(d.queue)
        rest == [d EXCEPT !.queue = AfterPop(@)]
    IN  IF d.dist[top[2]] < top[1] THEN rest
        ELSE FoldLeft(LAMBDA y, arc : ScanArc(p, s, y, top[2], arc), Entered(rest, top[2]),
                      p.graphs[v][top[2]])

StartAt(p, x, s, v, from) ==
    LET values == Values(p.task, v)
    IN  [x |-> x, queue |-> Push(EmptyQueue, 0, from),
         dist |-> [d \in values |-> IF d = from THEN 0 ELSE Infinity],
         helpful |-> [d \in values |-> NoArc], by |-> [d \in values |-> NoArc],
         from |-> [d \in values |-> from], values |-> [d \in values |-> s]]

Known(d, v, from) ==
    [d.x EXCEPT !.known = (<<v, from>> :> [dist |-> d.dist, helpful |-> d.helpful]) @@ @]

Dijkstra(p, s, x, v, from) ==
    IF <<v, from>> \in DOMAIN x.known THEN x
    ELSE Known(While(LAMBDA d : d.queue # EmptyQueue, LAMBDA d : ScanNext(p, s, v, d),
                     StartAt(p, x, s, v, from)), v, from)

IndexOf(p, v, s, from, to) == <<v, CacheIndex(p.task, p.cache, v, s, from, to)>>

Stored(p, x, v, s, from) ==
    LET k == x.known[<<v, from>>]
        index == [to \in Values(p.task, v) \ {from} |-> IndexOf(p, v, s, from, to)]
    IN  [x EXCEPT !.cache = [i \in Range(index) |->
             LET to == CHOOSE d \in DOMAIN index : index[d] = i
             IN  [cost |-> k.dist[to], helpful |-> k.helpful[to]]] @@ @]

CostIn(x, v, from, to) == [x EXCEPT !.cost = x.known[<<v, from>>].dist[to]]

GetTransitionCost(p, s, x, v, from, to) ==
    IF from = to THEN [x EXCEPT !.cost = 0]
    ELSE IF ~IsCached(p.cache, v) THEN CostIn(Dijkstra(p, s, x, v, from), v, from, to)
    ELSE IF IndexOf(p, v, s, from, to) \in DOMAIN x.cache
    THEN [x EXCEPT !.cost = x.cache[IndexOf(p, v, s, from, to)].cost]
    ELSE CostIn(Stored(p, Dijkstra(p, s, x, v, from), v, s, from), v, from, to)

(* Preferred operators: the first arc to the value asked for, if it can be *)
(* taken as it is, or what its label asks for; once for each variable.     *)
HelpfulArc(p, s, x, v, to) ==
    IF IsCached(p.cache, v) THEN x.cache[IndexOf(p, v, s, s[v], to)]
    ELSE [cost |-> x.known[<<v, s[v]>>].dist[to], helpful |-> x.known[<<v, s[v]>>].helpful[to]]

RECURSIVE MarkTransitions(_, _, _, _, _)
MarkTransitions(p, s, x, v, to) ==
    LET h == HelpfulArc(p, s, x, v, to)
        arc == h.helpful
        marked == [x EXCEPT !.marked = @ \cup {v}]
    IN  IF s[v] = to \/ v \in x.marked THEN x
        ELSE IF arc.op # 0 /\ h.cost = arc.cost /\ IsApplicable(p.task.operators[arc.op], s)
        THEN [marked EXCEPT !.preferred = @ \cup {arc.op}]
        ELSE FoldLeft(LAMBDA y, f : MarkTransitions(p, s, y, f[1], f[2]), marked, arc.precond)

AfterGoal(p, s, y, g) ==
    IF y.cost = Infinity THEN [y EXCEPT !.h = Infinity]
    ELSE MarkTransitions(p, s, [y EXCEPT !.h = @ + y.cost], g[1], g[2])

AddGoal(p, s, x, g) ==
    IF x.h = Infinity THEN x
    ELSE AfterGoal(p, s, GetTransitionCost(p, s, x, g[1], s[g[1]], g[2]), g)

NewCGHeuristic(t, graphs, depends, limit) ==
    [task |-> t, graphs |-> graphs, cache |-> CacheOf(t, depends, limit),
     least |-> MinOperatorCost(t)]

(* the estimate of a state, given what is in the cache                     *)
HCausalGraph(p, s, cache) ==
    FoldLeft(LAMBDA x, g : AddGoal(p, s, x, g),
             [known |-> <<>>, cache |-> cache, cost |-> 0, h |-> 0, marked |-> {},
              preferred |-> {}],
             p.task.goals)

-----------------------------------------------------------------------------
(* The context-enhanced additive heuristic.  A local problem <<v, d>> is a *)
(* copy of the graph of v to start from d; the goal problem has the goals  *)
(* on its one arc.  A node is <<problem, value>>, a transition <<node, i>> *)
(* is its i-th arc.  Problems are made and set up when they are needed,    *)
(* with the priority of the node that needs them; all share one queue.     *)
(* p: [task, graphs, least]                                                *)

GoalProblem == <<0, 0>>
GoalNode == <<GoalProblem, 1>>

NoTransition == <<>>

ArcsAt(p, node) ==
    IF node[1] # GoalProblem THEN p.graphs[node[1][1]][node[2]]
    ELSE IF node = GoalNode THEN <<>>
    ELSE <<[to |-> 1, op |-> 0, cost |-> 0, precond |-> p.task.goals, effect |-> <<>>]>>

ArcOf(p, transition) == ArcsAt(p, transition[1])[transition[2]]
TargetOf(p, transition) == <<transition[1][1], ArcOf(p, transition).to>>

NodesOf(p, problem) ==
    {problem} \X (IF problem = GoalProblem THEN {0, 1} ELSE Values(p.task, problem[1]))

Priority(x, node) == x.base[node[1]] + x.node[node].cost

(* nodes are [cost, expanded, context, by, waiting]: by is the best        *)
(* transition to the node, and the first on the way to it once the node is *)
(* expanded; waiting are transitions that ask for what it stands for       *)
SetUpLocalProblem(p, x, problem, base, s) ==
    LET start == <<problem, problem[2]>>
        nodes == [n \in NodesOf(p, problem) |->
                     [cost |-> IF n = start THEN 0 ELSE Infinity, expanded |-> FALSE,
                      context |-> s, by |-> NoTransition, waiting |-> <<>>]]
    IN  [x EXCEPT !.base = (problem :> base) @@ @, !.node = nodes @@ @,
                  !.queue = Push(@, base, start)]

(* x.asked: of a transition what its target costs by it as far as known,   *)
(* and the number of conditions that are not                               *)
TryToFire(p, x, transition) ==
    LET target == TargetOf(p, transition)
        asked == x.asked[transition]
    IN  IF asked.unreached # 0 \/ asked.cost >= x.node[target].cost THEN x
        ELSE [x EXCEPT !.node[target].cost = asked.cost, !.node[target].by = transition,
                       !.queue = Push(@, x.base[target[1]] + asked.cost, target)]

ConditionMet(p, x, transition, cost) ==
    TryToFire(p, [x EXCEPT !.asked[transition].cost = @ + cost,
                           !.asked[transition].unreached = @ - 1], transition)

Updated(context, facts) ==
    FoldLeft(LAMBDA values, f : [values EXCEPT ![f[1]] = f[2]], context, facts)

(* the context of a node is that of its parent after the arc's condition   *)
(* and side effects                                                        *)
ExpandNode(p, x, node) ==
    LET n == x.node[node]
        parent == x.node[n.by[1]]
        arc == ArcOf(p, n.by)
        entered == IF n.by = NoTransition THEN n
                   ELSE [n EXCEPT !.context = Updated(parent.context, arc.precond \o arc.effect),
                                  !.by = IF parent.by = NoTransition THEN @ ELSE parent.by]
    IN  FoldLeft(LAMBDA y, transition : ConditionMet(p, y, transition, n.cost),
                 [x EXCEPT !.node[node] = [entered EXCEPT !.expanded = TRUE, !.waiting = <<>>]],
                 n.waiting)

(* a condition that does not hold in the context is looked up, or waited   *)
(* for, in the problem that starts from the value there; y.live: it may    *)
(* still be the best way to its target                                     *)
AskFor(p, s, y, transition, f) ==
    LET source == transition[1]
        problem == <<f[1], y.x.node[source].context[f[1]]>>
        node == <<problem, f[2]>>
        x == IF problem \in DOMAIN y.x.base THEN y.x
             ELSE SetUpLocalProblem(p, y.x, problem, Priority(y.x, source), s)
        cost == x.asked[transition].cost + x.node[node].cost
    IN  IF ~y.live \/ problem[2] = f[2] THEN y
        ELSE IF x.node[node].expanded
        THEN [x |-> [x EXCEPT !.asked[transition].cost = cost],
              live |-> cost < x.node[TargetOf(p, transition)].cost]
        ELSE [x |-> [x EXCEPT !.node[node].waiting = Append(@, transition),
                              !.asked[transition].unreached = @ + 1],
              live |-> TRUE]

ExpandTransition(p, s, x, transition) ==
    LET arc == ArcOf(p, transition)
        cost == x.node[transition[1]].cost + arc.cost
        begun == [x EXCEPT !.asked = (transition :> [cost |-> cost, unreached |-> 0]) @@ @]
        y == FoldLeft(LAMBDA z, f : AskFor(p, s, z, transition, f),
                      [x |-> begun, live |-> cost < x.node[TargetOf(p, transition)].cost],
                      arc.precond)
    IN  IF y.live THEN TryToFire(p, y.x, transition) ELSE y.x

ExpandNext(p, s, x) ==
    LET node == Popped(x.queue)[2]
        rest == [x EXCEPT !.queue = AfterPop(@)]
    IN  IF Priority(x, node) < Popped(x.queue)[1] THEN rest
        ELSE FoldLeft(LAMBDA y, i : ExpandTransition(p, s, y, <<node, i>>),
                      ExpandNode(p, rest, node), [i \in DOMAIN ArcsAt(p, node) |-> i])

GoalPopped(x) == Popped(x.queue)[2] = GoalNode /\ x.node[GoalNode].cost >= Popped(x.queue)[1]

(* the queue runs empty, or the goal node is its first                     *)
ComputeCosts(p, s) ==
    While(LAMBDA x : x.queue # EmptyQueue /\ ~GoalPopped(x), LAMBDA x : ExpandNext(p, s, x),
          SetUpLocalProblem(p, [base |-> <<>>, node |-> <<>>, asked |-> <<>>,
                                queue |-> EmptyQueue], GoalProblem, 0, s))

(* Preferred operators: a first transition whose conditions cost nothing   *)
(* is taken to be applicable, unless there are operators without cost.  A  *)
(* node is visited once.                                                   *)
RECURSIVE MarkNode(_, _, _, _)
MarkNode(p, s, x, node) ==
    LET first == x.node[node].by
        arc == ArcOf(p, first)
        marked == [x EXCEPT !.node[node].by = NoTransition]
        below == SelectSeq(arc.precond, LAMBDA f : s[f[1]] # f[2])
    IN  IF first = NoTransition THEN x
        ELSE IF x.asked[first].cost = arc.cost
        THEN IF p.least # 0 \/ (arc.op # 0 /\ IsApplicable(p.task.operators[arc.op], s))
             THEN [marked EXCEPT !.preferred = @ \cup {arc.op}] ELSE marked
        ELSE FoldLeft(LAMBDA y, f : MarkNode(p, s, y, <<<<f[1], s[f[1]]>>, f[2]>>), marked, below)

NewCEAHeuristic(t, graphs) == [task |-> t, graphs |-> graphs, least |-> MinOperatorCost(t)]

HContextEnhanced(p, s) ==
    LET x == ComputeCosts(p, s)
        h == x.node[GoalNode].cost
    IN  IF x.queue = EmptyQueue THEN [h |-> Infinity, preferred |-> {}]
        ELSE [h |-> h,
              preferred |-> IF h = 0 THEN {}
                            ELSE MarkNode(p, s, [preferred |-> {}] @@ x, GoalNode).preferred]

-----------------------------------------------------------------------------
(* what is reported of a state: of a dead end no operators                 *)
Reported(x) ==
    [h |-> x.h, preferred |-> IF x.h = Infinity THEN {} ELSE x.preferred]
=============================================================================
