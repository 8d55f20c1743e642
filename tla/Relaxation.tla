----------------------------- MODULE Relaxation -----------------------------
(***************************************************************************)
(* The heuristics that ignore delete effects: h^max, h^add and h^FF, with  *)
(* the preferred operators of the last two.  The task is split into unary  *)
(* operators [preconditions, effect, cost, op], op = 0 for an axiom.       *)
(* Before them those that only look at the state, and h^m, of which h^max  *)
(* is the case of single facts.                                            *)
(***************************************************************************)
EXTENDS PlanningTask, GraphAlgorithms

HBlind(t, s) == IF IsGoal(t, s) THEN 0 ELSE MinOperatorCost(t)

HGoalCount(t, s) == Cardinality({g \in DOMAIN t.goals : ~Holds(s, {t.goals[g]})})

-----------------------------------------------------------------------------
(* h^m: the cost of reaching the dearest m facts of a set together.  The   *)
(* table has an entry for every set of at most m facts of different        *)
(* variables; entries are lowered until nothing changes.                   *)

VarsOf(facts) == {f[1] : f \in facts}
IsTuple(facts) == Cardinality(VarsOf(facts)) = Cardinality(facts)

AllTuples(t, m) ==
    {x \in UNION {kSubset(k, Facts(t)) : k \in 1..m} : IsTuple(x)}

PartialTuples(facts, m) == UNION {kSubset(k, facts) : k \in 1..Min({m, Cardinality(facts)})}

EvalTuple(table, facts, m) == Max({table[x] : x \in PartialTuples(facts, m)} \cup {0})

EffectsOf(op) == {e.fact : e \in ToSet(op.effects)}

ContradictsEffect(op, f) == \E e \in EffectsOf(op) : e[1] = f[1] /\ e[2] # f[2]

Lowered(table, x, value) == IF table[x] > value THEN [table EXCEPT ![x] = value] ELSE table

(* a tuple that adds to the effects x facts the operator leaves alone      *)
ExtendTuple(t, table, m, op, x) ==
    LET extensions == {y \in DOMAIN table : x \subseteq y /\ y # x
                          /\ \A f \in y : ~ContradictsEffect(op, f)}
        needs(y) == op.preconditions \cup (y \ x)
        extend(y, tab) ==
            IF ~IsTuple(needs(y)) THEN tab
            ELSE LET c == EvalTuple(tab, needs(y), m)
                 IN  IF c = Infinity THEN tab ELSE Lowered(tab, y, c + op.cost)
    IN  FoldSet(extend, table, extensions)

UpdateOperator(t, table, m, op) ==
    LET c1 == EvalTuple(table, op.preconditions, m)
        update(x, tab) ==
            LET lower == Lowered(tab, x, c1 + op.cost)
            IN  IF Cardinality(x) < m THEN ExtendTuple(t, lower, m, op, x) ELSE lower
    IN  IF c1 = Infinity THEN table
        ELSE FoldSet(update, table, PartialTuples(EffectsOf(op), m))

UpdateTable(t, m, table) ==
    Fixpoint(LAMBDA tab : FoldLeft(LAMBDA x, op : UpdateOperator(t, x, m, op), tab, t.operators),
             table)

HM(t, m, s) ==
    LET table == [x \in AllTuples(t, m) |-> IF x \subseteq FactsOf(s) THEN 0 ELSE Infinity]
    IN  IF IsGoal(t, s) THEN 0 ELSE EvalTuple(UpdateTable(t, m, table), ToSet(t.goals), m)

-----------------------------------------------------------------------------
MaxCostValue == 100000000

SortedFacts(facts) == SortedPrecondition([preconditions |-> facts])

UnaryOf(preconditions, effects, cost, o) ==
    [i \in DOMAIN effects |->
        [preconditions |-> SortedFacts(preconditions \cup effects[i].conditions),
         effect |-> effects[i].fact, cost |-> cost, op |-> o]]

(* an axiom is an operator without cost whose one effect has a condition   *)
UnaryOperators(t) ==
    FlattenSeq([o \in DOMAIN t.operators |->
        UnaryOf(t.operators[o].preconditions, t.operators[o].effects, t.operators[o].cost, o)])
    \o FlattenSeq([r \in DOMAIN t.axioms |-> UnaryOf(t.axioms[r].preconditions, <<t.axioms[r]>>, 0, 0)])

(* one with the same effect, fewer preconditions and no higher cost; among *)
(* equals the first.  Subsets are not tried beyond five preconditions.     *)
IsDominated(ops, i) ==
    \E j \in DOMAIN ops \ {i} :
        LET a == ops[i]
            b == ops[j]
        IN  /\ a.effect = b.effect
            /\ \/ /\ a.preconditions = b.preconditions
                  /\ b.cost < a.cost \/ (b.cost = a.cost /\ j < i)
               \/ /\ Len(a.preconditions) <= 5
                  /\ ToSet(b.preconditions) \subseteq ToSet(a.preconditions)
                  /\ b.preconditions # a.preconditions
                  /\ b.cost <= a.cost

Simplified(ops) ==
    FoldLeft(LAMBDA kept, i : IF IsDominated(ops, i) THEN kept ELSE Append(kept, ops[i]),
             <<>>, [i \in DOMAIN ops |-> i])

-----------------------------------------------------------------------------
(* The exploration: costs of facts (-1: not reached) and the unary         *)
(* operator that reached each first at that cost (0: the state itself).    *)

Enqueued(e, fact, cost, i) ==
    IF e.cost[fact] = -1 \/ e.cost[fact] > cost
    THEN [e EXCEPT !.cost[fact] = cost, !.by[fact] = i, !.queue = Push(@, cost, fact)]
    ELSE e

SetupExploration(t, ops, s) ==
    LET empty == [cost |-> [f \in Facts(t) |-> -1], by |-> [f \in Facts(t) |-> 0],
                  queue |-> EmptyQueue, goalsLeft |-> Cardinality(ToSet(t.goals)),
                  missing |-> [i \in DOMAIN ops |-> Len(ops[i].preconditions)],
                  opCost |-> [i \in DOMAIN ops |-> ops[i].cost]]
        free == FoldLeft(LAMBDA e, i : IF ops[i].preconditions = <<>>
                                       THEN Enqueued(e, ops[i].effect, ops[i].cost, i) ELSE e,
                         empty, [i \in DOMAIN ops |-> i])
    IN  FoldLeft(LAMBDA e, v : Enqueued(e, <<v, s[v]>>, 0, 0), free, [v \in DOMAIN s |-> v])

Increased(cost, amount) ==
    IF cost + amount > MaxCostValue THEN MaxCostValue ELSE cost + amount

(* mutant: h^max adds up as h^add does                                     *)
CombinedBySum(kind, op, cost, fact) == Increased(cost, fact)

(* kind: how the costs of an operator's preconditions are combined         *)
Combined(kind, op, cost, fact) ==
    IF kind = "max" THEN Max({cost, op.cost + fact}) ELSE Increased(cost, fact)

Trigger(kind, ops, e, i, cost) ==
    LET total == Combined(kind, ops[i], e.opCost[i], cost)
        met == [e EXCEPT !.missing[i] = @ - 1, !.opCost[i] = total]
    IN  IF met.missing[i] = 0 THEN Enqueued(met, ops[i].effect, total, i) ELSE met

Explore(kind, t, ops, e) ==
    LET fact == Popped(e.queue)[2]
        rest == [e EXCEPT !.queue = AfterPop(@)]
        stale == e.cost[fact] < Popped(e.queue)[1]
        left == IF fact \in ToSet(t.goals) THEN rest.goalsLeft - 1 ELSE rest.goalsLeft
        triggered == SelectSeq([i \in DOMAIN ops |-> i],
                               LAMBDA i : Contains(ops[i].preconditions, fact))
    IN  IF stale THEN rest
        ELSE IF left = 0 THEN [rest EXCEPT !.goalsLeft = 0]
        ELSE FoldLeft(LAMBDA x, i : Trigger(kind, ops, x, i, e.cost[fact]),
                      [rest EXCEPT !.goalsLeft = left], triggered)

RelaxedExploration(kind, t, ops, s) ==
    While(LAMBDA e : e.queue # EmptyQueue /\ e.goalsLeft # 0,
          LAMBDA e : Explore(kind, t, ops, e), SetupExploration(t, ops, s))

RelaxedCost(kind, t, e) ==
    IF \E g \in ToSet(t.goals) : e.cost[g] = -1 THEN Infinity
    ELSE IF kind = "max" THEN Max({e.cost[g] : g \in ToSet(t.goals)})
    ELSE FoldLeft(LAMBDA total, g : Increased(total, e.cost[g]), 0, t.goals)

-----------------------------------------------------------------------------
(* Back from the goals: the operators of the relaxed plan, and those among *)
(* them that need nothing but the state (preferred).                       *)

RECURSIVE Mark(_, _, _, _)
Mark(ops, e, marks, fact) ==
    LET i == e.by[fact]
        below == FoldLeft(LAMBDA m, p : Mark(ops, e, m, p),
                          [marks EXCEPT !.marked = @ \cup {fact}], ops[i].preconditions)
        o == ops[i].op
    IN  IF fact \in marks.marked THEN marks
        ELSE IF i = 0 THEN [marks EXCEPT !.marked = @ \cup {fact}]
        ELSE IF o = 0 THEN below
        ELSE [below EXCEPT
                !.plan = @ \cup {o},
                !.preferred = IF (\A p \in ToSet(ops[i].preconditions) : e.by[p] = 0)
                                   /\ ~Contains(@, o)
                              THEN Append(@, o) ELSE @]

Marks(t, ops, e) ==
    FoldLeft(LAMBDA m, g : Mark(ops, e, m, g),
             [marked |-> {}, plan |-> {}, preferred |-> <<>>], t.goals)

-----------------------------------------------------------------------------
(* The estimates of a state; ops is Simplified(UnaryOperators(t))          *)

HMax(t, ops, s) == RelaxedCost("max", t, RelaxedExploration("max", t, ops, s))
HAdd(t, ops, s) == RelaxedCost("add", t, RelaxedExploration("add", t, ops, s))

HFF(t, ops, s) ==
    LET e == RelaxedExploration("add", t, ops, s)
        marks == Marks(t, ops, e)
    IN  IF RelaxedCost("add", t, e) = Infinity
        THEN [h |-> Infinity, preferred |-> <<>>, plan |-> {}]
        ELSE [h |-> SumOver(marks.plan, LAMBDA o : t.operators[o].cost),
              preferred |-> marks.preferred, plan |-> marks.plan]

DeadEndsReliable(t) == ~HasAxioms(t)

-----------------------------------------------------------------------------
(* Reference: h^+, the cost of a cheapest relaxed plan                     *)

RelaxedReach(t, operators, s) ==
    Fixpoint(LAMBDA facts : facts \cup {e.fact : e \in {e \in UNION {
                 {[fact |-> x.fact, needs |-> t.operators[o].preconditions \cup x.conditions] :
                    x \in ToSet(t.operators[o].effects)} : o \in operators} :
                 e.needs \subseteq facts}}
               \cup {r.fact : r \in {r \in ToSet(t.axioms) : r.conditions \subseteq facts}},
             FactsOf(s))

HPlus(t, s) ==
    Min({SumOver(os, LAMBDA o : t.operators[o].cost) :
            os \in {os \in SUBSET DOMAIN t.operators :
                       ToSet(t.goals) \subseteq RelaxedReach(t, os, s)}} \cup {Infinity})
=============================================================================
