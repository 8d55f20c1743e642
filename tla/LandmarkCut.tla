---------------------------- MODULE LandmarkCut -----------------------------
(***************************************************************************)
(* The LM-cut heuristic, with which the service searches: h^max along one  *)
(* supporter per operator, a cut between the state and the goal zone, its  *)
(* operators made cheaper by the cheapest of them, and again until the     *)
(* goal costs nothing.  Relaxed operators are [op, pre, eff], op = 0 for   *)
(* the artificial one that reaches the artificial goal.                    *)
(***************************************************************************)
EXTENDS Relaxation

ArtificialGoal == <<0, 0>>
ArtificialPrecondition == <<0, 1>>
Propositions(t) == Facts(t) \cup {ArtificialGoal, ArtificialPrecondition}
NoProposition == <<0, 2>>

(* preconditions keep the task's order, which breaks ties                  *)
RelaxedOperator(o, pre, eff, cost) ==
    [op |-> o, pre |-> IF pre = <<>> THEN <<ArtificialPrecondition>> ELSE pre, eff |-> eff,
     cost |-> cost]

RelaxedOperators(t) ==
    [o \in DOMAIN t.operators |->
        RelaxedOperator(o, SortedFacts(t.operators[o].preconditions),
                        [i \in DOMAIN t.operators[o].effects |-> t.operators[o].effects[i].fact],
                        t.operators[o].cost)]
    \o <<RelaxedOperator(0, t.goals, <<ArtificialGoal>>, 0)>>

TriggeredBy(ops, prop) ==
    SelectSeq([i \in DOMAIN ops |-> i], LAMBDA i : Contains(ops[i].pre, prop))

-----------------------------------------------------------------------------
EnqueueIfNecessary(x, prop, cost) ==
    IF x.status[prop] = "unreached" \/ x.hmax[prop] > cost
    THEN [x EXCEPT !.status[prop] = "reached", !.hmax[prop] = cost, !.queue = Push(@, cost, prop)]
    ELSE x

EnqueueEffects(x, ops, i, cost) ==
    FoldLeft(LAMBDA y, eff : EnqueueIfNecessary(y, eff, cost), x, ops[i].eff)

SetupCut(t, ops, s) ==
    LET props == Propositions(t)
        start == [status |-> [p \in props |-> "unreached"], hmax |-> [p \in props |-> 0],
                  queue |-> EmptyQueue, missing |-> [i \in DOMAIN ops |-> Len(ops[i].pre)],
                  supporter |-> [i \in DOMAIN ops |-> NoProposition],
                  supporterCost |-> [i \in DOMAIN ops |-> Infinity],
                  cost |-> [i \in DOMAIN ops |-> ops[i].cost], total |-> 0, landmarks |-> <<>>]
        state == FoldLeft(LAMBDA x, v : EnqueueIfNecessary(x, <<v, s[v]>>, 0), start,
                          [v \in DOMAIN s |-> v])
    IN  EnqueueIfNecessary(state, ArtificialPrecondition, 0)

(* the last precondition to be reached is the supporter                    *)
FirstTrigger(x, ops, i, prop) ==
    LET met == [x EXCEPT !.missing[i] = @ - 1]
        ready == [met EXCEPT !.supporter[i] = prop, !.supporterCost[i] = x.hmax[prop]]
    IN  IF met.missing[i] = 0
        THEN EnqueueEffects(ready, ops, i, x.hmax[prop] + x.cost[i]) ELSE met

(* mutant: the supporter stays the one it was                              *)
KeepsSupporter(x, ops, i) == x.supporter[i]

(* a supporter has become cheaper: the dearest precondition takes over     *)
UpdatedSupporter(x, ops, i) ==
    FoldLeft(LAMBDA best, p : IF x.hmax[p] > x.hmax[best] THEN p ELSE best,
             x.supporter[i], ops[i].pre)

IncrementalTrigger(x, ops, i, prop) ==
    LET supporter == UpdatedSupporter(x, ops, i)
        cost == x.hmax[supporter]
        updated == [x EXCEPT !.supporter[i] = supporter, !.supporterCost[i] = cost]
    IN  IF x.supporter[i] # prop \/ x.supporterCost[i] <= x.hmax[prop] THEN x
        ELSE IF cost = x.supporterCost[i] THEN updated
        ELSE EnqueueEffects(updated, ops, i, cost + x.cost[i])

ExplorationStep(x, ops, first) ==
    LET prop == Popped(x.queue)[2]
        rest == [x EXCEPT !.queue = AfterPop(@)]
    IN  IF x.hmax[prop] < Popped(x.queue)[1] THEN rest
        ELSE FoldLeft(LAMBDA y, i : IF first THEN FirstTrigger(y, ops, i, prop)
                                    ELSE IncrementalTrigger(y, ops, i, prop),
                      rest, TriggeredBy(ops, prop))

Explored(x, ops, first) ==
    While(LAMBDA y : y.queue # EmptyQueue, LAMBDA y : ExplorationStep(y, ops, first), x)

FirstExploration(t, ops, s) == Explored(SetupCut(t, ops, s), ops, TRUE)

FirstExplorationIncremental(x, ops, cut) ==
    Explored(FoldLeft(LAMBDA y, i : EnqueueEffects(y, ops, i, y.supporterCost[i] + y.cost[i]),
                      x, cut), ops, FALSE)

-----------------------------------------------------------------------------
(* The goal zone: what reaches the goal at no cost along the supporters.   *)
(* An operator that is not reached has no supporter.                       *)
MarkGoalPlateau(x, ops) ==
    LET grow(zone) == zone \cup ({x.supporter[i] : i \in {j \in DOMAIN ops :
                          x.cost[j] = 0 /\ ToSet(ops[j].eff) \cap zone # {}}} \ {NoProposition})
        zone == Fixpoint(grow, {ArtificialGoal})
    IN  [x EXCEPT !.status = [p \in DOMAIN @ |-> IF p \in zone THEN "goal zone" ELSE @[p]]]

CutStep(y, ops) ==
    LET prop == Last(y.stack)
        visit(z, i) ==
            IF z.x.supporter[i] # prop THEN z
            ELSE IF \E e \in ToSet(ops[i].eff) : z.x.status[e] = "goal zone"
            THEN [z EXCEPT !.cut = Append(@, i)]
            ELSE LET new == SelectSeq(ops[i].eff, LAMBDA e : z.x.status[e] # "before goal zone")
                 IN  [z EXCEPT !.stack = @ \o new,
                               !.x.status = [p \in DOMAIN @ |-> IF Contains(new, p)
                                                 THEN "before goal zone" ELSE @[p]]]
    IN  FoldLeft(visit, [y EXCEPT !.stack = Front(@)], TriggeredBy(ops, prop))

SecondExploration(x, ops, s) ==
    LET stack == <<ArtificialPrecondition>> \o [v \in DOMAIN s |-> <<v, s[v]>>]
        start == [x EXCEPT !.status = [p \in DOMAIN @ |-> IF Contains(stack, p)
                                           THEN "before goal zone" ELSE @[p]]]
    IN  While(LAMBDA y : y.stack # <<>>, LAMBDA y : CutStep(y, ops),
              [x |-> start, stack |-> stack, cut |-> <<>>])

ResetZones(x) ==
    [x EXCEPT !.status = [p \in DOMAIN @ |-> IF @[p] = "unreached"
                              /\ p \notin {ArtificialGoal, ArtificialPrecondition}
                              THEN "unreached" ELSE "reached"]]

(* one landmark: the operators of the cut and its cost                     *)
CutRound(t, ops, s, x) ==
    LET found == SecondExploration(MarkGoalPlateau(x, ops), ops, s)
        cut == found.cut
        cutCost == Min({x.cost[i] : i \in ToSet(cut)})
        cheaper == [found.x EXCEPT
                      !.cost = [i \in DOMAIN @ |-> IF Contains(cut, i) THEN @[i] - cutCost ELSE @[i]],
                      !.total = @ + cutCost,
                      !.landmarks = Append(@, [ops |-> {ops[i].op : i \in ToSet(cut)},
                                               cost |-> cutCost])]
    IN  ResetZones(FirstExplorationIncremental(cheaper, ops, cut))

(* what is known of the state before the first round and after each        *)
CutRounds(t, ops, s) ==
    While(LAMBDA xs : Last(xs).status[ArtificialGoal] # "unreached" /\ Last(xs).hmax[ArtificialGoal] # 0,
          LAMBDA xs : Append(xs, CutRound(t, ops, s, Last(xs))),
          <<FirstExploration(t, ops, s)>>)

ComputeLandmarks(t, ops, s) ==
    LET x == Last(CutRounds(t, ops, s))
    IN  IF x.status[ArtificialGoal] = "unreached" THEN [x EXCEPT !.total = Infinity] ELSE x

HLmCut(t, ops, s) == ComputeLandmarks(t, ops, s).total
=============================================================================
