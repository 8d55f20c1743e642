---------------------------- MODULE PlanningTask ----------------------------
(***************************************************************************)
(* What Fast Downward's search component works on: a task in finite-domain *)
(* representation as it is read from the translator's output, its axioms,  *)
(* and its state transitions.  A fact is <<variable, value>>, a state the  *)
(* sequence of the values of the variables.                                *)
(***************************************************************************)
EXTENDS GraphAlgorithms

CONSTANT Infinity       \* numeric_limits<int>::max()

Vars(t) == DOMAIN t.sizes
Values(t, v) == 0..(t.sizes[v] - 1)
Facts(t) == UNION {{v} \X Values(t, v) : v \in Vars(t)}

IsDerived(t, v) == t.layers[v] # -1
HasAxioms(t) == t.axioms # <<>>
HasConditionalEffects(t) ==
    \E o \in DOMAIN t.operators : \E e \in ToSet(t.operators[o].effects) : e.conditions # {}

GoalVars(t) == {t.goals[g][1] : g \in DOMAIN t.goals}

(* what many heuristics require                                            *)
IsSimple(t) == ~HasAxioms(t) /\ ~HasConditionalEffects(t)
IsUnitCost(t) == \A o \in DOMAIN t.operators : t.operators[o].cost = 1
MinOperatorCost(t) == Min({t.operators[o].cost : o \in DOMAIN t.operators} \cup {Infinity})

Holds(s, facts) == \A f \in facts : s[f[1]] = f[2]
FactsOf(s) == {<<v, s[v]>> : v \in DOMAIN s}

(* facts of one variable, or of one mutex group of the translator *)
AreMutex(t, f, g) ==
    IF f[1] = g[1] THEN f[2] # g[2] ELSE <<f, g>> \in t.mutexes

-----------------------------------------------------------------------------
(* Axioms are evaluated layer by layer: Horn rules until nothing changes,  *)
(* then what still has its default value in this layer is false for the    *)
(* layers above.                                                           *)

LastLayer(t) == Max(ToSet(t.layers) \cup {-1})

(* one round of the queue: the rules all of whose conditions were queued   *)
ApplyHornRules(t, at) ==
    LET firing == {r \in ToSet(t.axioms) :
                       r.conditions \subseteq at.queued /\ at.values[r.fact[1]] # r.fact[2]}
    IN  [values |-> [v \in Vars(t) |->
                        IF \E r \in firing : r.fact[1] = v
                        THEN (CHOOSE r \in firing : r.fact[1] = v).fact[2]
                        ELSE at.values[v]],
         queued |-> at.queued \cup {r.fact : r \in firing}]

NegateByFailure(t, at, layer) ==
    [at EXCEPT !.queued = @ \cup {<<v, t.defaults[v]>> :
        v \in {u \in Vars(t) : t.layers[u] = layer /\ at.values[u] = t.defaults[u]}}]

EvaluateLayer(t, at, layer) ==
    LET horn == FoldLeft(LAMBDA a, i : ApplyHornRules(t, a), at, t.axioms)
    IN  IF layer = LastLayer(t) THEN horn ELSE NegateByFailure(t, horn, layer)

EvaluateAxioms(t, values) ==
    LET reset == [v \in Vars(t) |-> IF IsDerived(t, v) THEN t.defaults[v] ELSE values[v]]
        start == [values |-> reset,
                  queued |-> {<<v, reset[v]>> : v \in {u \in Vars(t) : ~IsDerived(t, u)}}]
    IN  IF HasAxioms(t)
        THEN FoldLeft(LAMBDA a, i : EvaluateLayer(t, a, i - 1), start,
                      [i \in 1..(LastLayer(t) + 1) |-> i]).values
        ELSE values

-----------------------------------------------------------------------------
(* Operators                                                               *)

IsApplicable(op, s) == Holds(s, op.preconditions)

Applicable(t, s) == {o \in DOMAIN t.operators : IsApplicable(t.operators[o], s)}

DoesFire(effect, s) == Holds(s, effect.conditions)

(* effects are applied in order: of two on one variable the later one wins *)
Successor(t, s, op) ==
    EvaluateAxioms(t, FoldLeft(LAMBDA values, e :
        IF DoesFire(e, s) THEN [values EXCEPT ![e.fact[1]] = e.fact[2]] ELSE values,
        s, op.effects))

IsGoal(t, s) == Holds(s, ToSet(t.goals))

-----------------------------------------------------------------------------
(* Reading the translator's output: sas is its parsed form, in which a     *)
(* changed variable has its condition, value before (-1: any) and after.   *)

CheckFacts(sas, facts) ==
    \A f \in facts : f[1] \in DOMAIN sas.variables /\ f[2] \in 0..(sas.variables[f[1]].size - 1)

ReadMutexes(sas) ==
    {fg \in UNION {g \X g : g \in sas.mutexGroups} : fg[1][1] # fg[2][1]}

ReadPrePost(change) ==
    [precondition |-> IF change.before = -1 THEN {} ELSE {<<change.var, change.before>>},
     effect |-> [fact |-> <<change.var, change.after>>, conditions |-> change.conditions]]

ReadOperator(action, useMetric) ==
    [preconditions |-> action.prevail \cup
        UNION {ReadPrePost(c).precondition : c \in ToSet(action.changes)},
     effects |-> [i \in DOMAIN action.changes |-> ReadPrePost(action.changes[i]).effect],
     cost |-> IF useMetric THEN action.cost ELSE 1]

(* the value a rule names before is a precondition, which its evaluation   *)
(* does not look at                                                        *)
ReadAxiom(rule) ==
    ReadPrePost(rule).effect @@ [preconditions |-> ReadPrePost(rule).precondition]

InputOk(sas) ==
    /\ sas.goals # <<>>
    /\ CheckFacts(sas, ToSet(sas.goals))
    /\ \A a \in ToSet(sas.actions) :
         CheckFacts(sas, ReadOperator(a, FALSE).preconditions \cup
             UNION {{e.fact} \cup e.conditions : e \in ToSet(ReadOperator(a, FALSE).effects)})
    /\ \A r \in {ReadAxiom(r) : r \in ToSet(sas.rules)} :
         CheckFacts(sas, {r.fact} \cup r.conditions \cup r.preconditions)

(* the initial value of a derived variable is its default value *)
RootTask(sas) ==
    LET read == [sizes |-> [v \in DOMAIN sas.variables |-> sas.variables[v].size],
                 layers |-> [v \in DOMAIN sas.variables |-> sas.variables[v].layer],
                 defaults |-> sas.initial,
                 mutexes |-> ReadMutexes(sas),
                 operators |-> [a \in DOMAIN sas.actions |->
                                   ReadOperator(sas.actions[a], sas.metric)],
                 axioms |-> [r \in DOMAIN sas.rules |-> ReadAxiom(sas.rules[r])],
                 goals |-> sas.goals]
    IN  read @@ [initial |-> EvaluateAxioms(read, sas.initial)]

-----------------------------------------------------------------------------
(* The reference the algorithms are held against: the states of a task and *)
(* the cost of a cheapest plan from each of them.                          *)

States(t) ==
    {EvaluateAxioms(t, s) : s \in {s \in [Vars(t) -> UNION {Values(t, v) : v \in Vars(t)}] :
        \A v \in Vars(t) : s[v] \in Values(t, v)}}

Plus(a, b) == IF a = Infinity \/ b = Infinity THEN Infinity ELSE a + b

(* Bellman's equations, solved by iteration *)
PlanCosts(t) ==
    LET all == States(t)
        edges == [s \in all |-> {<<t.operators[o].cost, Successor(t, s, t.operators[o])>> :
                                    o \in Applicable(t, s)}]
        better(d) == [s \in all |-> Min({d[s]} \cup {Plus(e[1], d[e[2]]) : e \in edges[s]})]
    IN  Fixpoint(better, [s \in all |-> IF IsGoal(t, s) THEN 0 ELSE Infinity])

-----------------------------------------------------------------------------
(* The decision tree that finds the applicable operators of a state: the   *)
(* operators sorted by their preconditions, grouped by variable and then   *)
(* by value, one level of the tree per precondition.                       *)

FactLess(f, g) == f[1] < g[1] \/ (f[1] = g[1] /\ f[2] < g[2])

(* lexicographic order of sorted preconditions; a prefix comes first       *)
PreconditionLess(p, q) ==
    \/ IsStrictPrefix(p, q)
    \/ \E i \in DOMAIN p \cap DOMAIN q :
         FactLess(p[i], q[i]) /\ \A j \in 1..(i - 1) : p[j] = q[j]

SortedPrecondition(op) ==
    FoldSet(LAMBDA f, p : SelectSeq(p, LAMBDA g : FactLess(g, f)) \o <<f>> \o
                          SelectSeq(p, LAMBDA g : FactLess(f, g)),
            <<>>, op.preconditions)

(* stable: an operator goes behind those with the same precondition        *)
OperatorInfos(t) ==
    FoldLeft(LAMBDA infos, o :
        LET new == [op |-> o, precondition |-> SortedPrecondition(t.operators[o])]
        IN  SelectSeq(infos, LAMBDA i : ~PreconditionLess(new.precondition, i.precondition))
            \o <<new>> \o
            SelectSeq(infos, LAMBDA i : PreconditionLess(new.precondition, i.precondition)),
        <<>>, [o \in DOMAIN t.operators |-> o])

(* the groups of neighbours that agree on a key, each [key, infos]         *)
Grouped(infos, Key(_)) ==
    FoldLeft(LAMBDA groups, i :
        IF groups # <<>> /\ Last(groups).key = Key(i)
        THEN Front(groups) \o <<[key |-> Key(i), infos |-> Append(Last(groups).infos, i)]>>
        ELSE Append(groups, [key |-> Key(i), infos |-> <<i>>]),
        <<>>, infos)

Leaf(infos) == [kind |-> "leaf", ops |-> [i \in DOMAIN infos |-> infos[i].op]]

Fork(nodes) == IF Len(nodes) = 1 THEN nodes[1] ELSE [kind |-> "fork", nodes |-> nodes]

Switch(var, groups, children) ==
    [kind |-> "switch", var |-> var,
     child |-> [value \in {groups[i].key : i \in DOMAIN groups} |->
                   children[CHOOSE i \in DOMAIN groups : groups[i].key = value]]]

VarAt(info, depth) ==
    IF depth > Len(info.precondition) THEN -1 ELSE info.precondition[depth][1]

RECURSIVE ConstructRecursive(_, _)
ConstructRecursive(depth, infos) ==
    LET byVar == Grouped(infos, LAMBDA i : VarAt(i, depth))
        node(group) ==
            IF group.key = -1 THEN Leaf(group.infos)
            ELSE LET byValue == Grouped(group.infos, LAMBDA i : i.precondition[depth][2])
                 IN  Switch(group.key, byValue,
                            [v \in DOMAIN byValue |->
                                ConstructRecursive(depth + 1, byValue[v].infos)])
    IN  Fork([g \in DOMAIN byVar |-> node(byVar[g])])

Generator(t) == ConstructRecursive(1, OperatorInfos(t))

RECURSIVE GenerateApplicableOps(_, _)
GenerateApplicableOps(node, s) ==
    CASE node.kind = "leaf" -> node.ops
      [] node.kind = "fork" ->
           FlattenSeq([i \in DOMAIN node.nodes |-> GenerateApplicableOps(node.nodes[i], s)])
      [] node.kind = "switch" ->
           IF s[node.var] \in DOMAIN node.child
           THEN GenerateApplicableOps(node.child[s[node.var]], s) ELSE <<>>

-----------------------------------------------------------------------------
(* The causal graph: which variables influence which, by arcs from         *)
(* preconditions to effects and edges between the effects of one operator  *)
(* or axiom                                                                *)

EffectVars(op) == {e.fact[1] : e \in ToSet(op.effects)}

(* an axiom is an operator with one effect                                 *)
AsOperator(axiom) == [preconditions |-> axiom.preconditions, effects |-> <<axiom>>]

PreEffArcs(op) ==
    {uv \in {f[1] : f \in op.preconditions} \X EffectVars(op) : uv[1] # uv[2]} \cup
    UNION {{<<f[1], e.fact[1]>> : f \in {f \in e.conditions : f[1] # e.fact[1]}} :
               e \in ToSet(op.effects)}

EffEffEdges(op) == {uv \in EffectVars(op) \X EffectVars(op) : uv[1] # uv[2]}

CausalGraphOf(t, ops) ==
    LET preEff == UNION {PreEffArcs(op) : op \in ops}
        effEff == UNION {EffEffEdges(op) : op \in ops}
        below(arcs) == [v \in Vars(t) |-> {a[2] : a \in {a \in arcs : a[1] = v}}]
        above(arcs) == [v \in Vars(t) |-> {a[1] : a \in {a \in arcs : a[2] = v}}]
    IN  [preToEff |-> below(preEff), effToPre |-> above(preEff), effToEff |-> below(effEff),
         successors |-> below(preEff \cup effEff), predecessors |-> above(preEff \cup effEff)]

CausalGraph(t) ==
    CausalGraphOf(t, ToSet(t.operators) \cup {AsOperator(a) : a \in ToSet(t.axioms)})

-----------------------------------------------------------------------------
(* Variable orders.  remaining lists the variables not yet taken; the      *)
(* kinds differ in that list (a shuffled one is given) and in what they    *)
(* look for in it.                                                         *)

RemainingVars(t, kind, shuffled) ==
    CASE kind \in {"cg_goal_random", "random"} -> shuffled
      [] kind = "reverse_level" -> [v \in Vars(t) |-> v]
      [] OTHER -> Reverse([v \in Vars(t) |-> v])

FirstIn(remaining, S) == SelectSeq(remaining, LAMBDA v : v \in S)

(* what next() looks through; <<>> is its error exit                       *)
Eligible(t, cg, kind, x) ==
    LET near == FirstIn(x.remaining, UNION {cg.effToPre[v] : v \in ToSet(x.selected)})
        goals == FirstIn(x.remaining, GoalVars(t))
    IN  CASE kind \in {"cg_goal_level", "cg_goal_random"} -> near \o goals
          [] kind = "goal_cg_level" -> goals \o near
          [] OTHER -> x.remaining

SelectNext(t, cg, kind, x) ==
    LET v == Eligible(t, cg, kind, x)[1]
    IN  [selected |-> Append(x.selected, v),
         remaining |-> SelectSeq(x.remaining, LAMBDA u : u # v)]

(* the whole order, as far as it gets                                      *)
VariableOrder(t, cg, kind, shuffled) ==
    While(LAMBDA x : Eligible(t, cg, kind, x) # <<>>,
          LAMBDA x : SelectNext(t, cg, kind, x),
          [selected |-> <<>>, remaining |-> RemainingVars(t, kind, shuffled)]).selected
=============================================================================
