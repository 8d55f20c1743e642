----------------------------- MODULE Landmarks ------------------------------
(***************************************************************************)
(* Landmark graphs and the factories that make them.  A landmark is a set  *)
(* of facts, a simple one of one fact; a state has a disjunctive landmark  *)
(* if it has one of its facts, a conjunctive one if it has all of them.  A *)
(* graph g gives for each landmark [facts, kind] its info [goal, derived,  *)
(* first, possible] (whether it holds in the goal, and its achievers), and *)
(* for each ordered pair of landmarks the type of the order between them.  *)
(***************************************************************************)
EXTENDS TaskTransformations

Simple(fact) == [facts |-> {fact}, kind |-> "simple"]
Disjunctive(facts) == [facts |-> facts, kind |-> "disjunctive"]
Conjunctive(facts) == [facts |-> facts, kind |-> "conjunctive"]

IsTrueIn(lm, s) ==
    IF lm.kind = "disjunctive" THEN \E f \in lm.facts : s[f[1]] = f[2] ELSE Holds(s, lm.facts)

(* types of orders, a stronger one being larger *)
Reasonable == 0
Natural == 1
GreedyNecessary == 2
Necessary == 3

EmptyGraph == [info |-> <<>>, edges |-> <<>>]

Lms(g) == DOMAIN g.info

Info(goal) == [goal |-> goal, derived |-> FALSE, first |-> {}, possible |-> {}]

AddLandmark(g, lm, info) == [g EXCEPT !.info = (lm :> info) @@ @]

(* the stronger of two orders stays                                        *)
EdgeAdd(g, from, to, type) ==
    IF <<from, to>> \in DOMAIN g.edges /\ g.edges[<<from, to>>] >= type THEN g
    ELSE [g EXCEPT !.edges = (<<from, to>> :> type) @@ @]

Parents(g, lm) == {e[1] : e \in {e \in DOMAIN g.edges : e[2] = lm}}
Children(g, lm) == {e[2] : e \in {e \in DOMAIN g.edges : e[1] = lm}}

RemoveNodes(g, removed) ==
    [info |-> Restrict(g.info, Lms(g) \ removed),
     edges |-> Restrict(g.edges, {e \in DOMAIN g.edges : {e[1], e[2]} \cap removed = {}})]

DiscardAllOrderings(g) == [g EXCEPT !.edges = <<>>]

ContainsSimple(g, fact) == Simple(fact) \in Lms(g)
DisjunctivesWith(g, fact) == {lm \in Lms(g) : lm.kind = "disjunctive" /\ fact \in lm.facts}
ContainsFact(g, fact) == ContainsSimple(g, fact) \/ DisjunctivesWith(g, fact) # {}

OperatorsIncludingEffect(t, fact) ==
    {o \in DOMAIN t.operators : fact \in {e.fact : e \in ToSet(t.operators[o].effects)}}

-----------------------------------------------------------------------------
(* The landmarks of h^m: sets of at most m facts that can hold together    *)
(* are the facts of a task P^m, whose operators also keep, in addition to  *)
(* their effects, a smaller set of facts they do not touch.                *)

AreInteresting(t, facts) == \A f, g \in facts : ~AreMutex(t, f, g)

MSets(t, m, facts) ==
    {S \in SUBSET facts : S # {} /\ Cardinality(S) <= m /\ AreInteresting(t, S)}

(* with something of both                                                  *)
SplitMSets(t, m, A, B) ==
    {S \in MSets(t, m, A \cup B) : (A = {} \/ S \cap A # {}) /\ (B = {} \/ S \cap B # {})}

OperatorPostcondition(op) ==
    {e.fact : e \in ToSet(op.effects)} \cup {f \in op.preconditions : f[1] \notin EffectVars(op)}

PossibleNoopSet(t, facts, kept) ==
    \A f \in facts, g \in kept : f[1] # g[1] /\ ~AreMutex(t, f, g)

PmOp(t, m, msets, op) ==
    LET post == OperatorPostcondition(op)
    IN  [pc |-> MSets(t, m, op.preconditions), eff |-> MSets(t, m, post),
         noops |-> {[pc |-> SplitMSets(t, m, op.preconditions, kept),
                     eff |-> SplitMSets(t, m, post, kept)] :
                       kept \in {K \in msets : Cardinality(K) < m /\ PossibleNoopSet(t, post, K)}}]

HmTable(t, m, msets) ==
    [S \in msets |-> [reached |-> S \subseteq FactsOf(t.initial), landmarks |-> {},
                      necessary |-> {}, achievers |-> {}]]

AreReached(h, pc) == \A S \in pc : h[S].reached

(* what operator o adds, given the landmarks for it: those of a fact       *)
(* reached before are what all its achievers have in common                *)
AchieveSet(x, o, landmarks, necessary, S) ==
    LET old == x.h[S]
        new == IF ~old.reached
               THEN [reached |-> TRUE, landmarks |-> landmarks, necessary |-> necessary,
                     achievers |-> {o}]
               ELSE IF S \in landmarks THEN [old EXCEPT !.landmarks = @ \cap landmarks]
               ELSE [old EXCEPT !.landmarks = @ \cap landmarks,
                                !.necessary = @ \cap necessary, !.achievers = @ \cup {o}]
    IN  [x EXCEPT !.h[S] = new,
                  !.changed = IF ~old.reached \/ new.landmarks # old.landmarks
                              THEN @ \cup {S} ELSE @]

LandmarksOf(h, pc) == pc \cup UNION {h[S].landmarks : S \in pc}

Achieve(x, o, pc, eff, landmarks) ==
    FoldSet(LAMBDA S, y : AchieveSet(y, o, landmarks, pc, S), x, eff)

AchieveNoop(x, o, op, noop, landmarks) ==
    IF AreReached(x.h, noop.pc)
    THEN Achieve(x, o, op.pc \cup noop.pc, noop.eff, landmarks \cup LandmarksOf(x.h, noop.pc))
    ELSE x

(* a change of an operator's preconditions triggers the operator, a change *)
(* of what it keeps that part of it only                                   *)
TriggeredNoops(op, changed) ==
    IF op.pc \cap changed # {} THEN op.noops
    ELSE {noop \in op.noops : noop.pc \cap changed # {}}

ProcessOp(x, o, op, noops, landmarks) ==
    FoldSet(LAMBDA noop, y : AchieveNoop(y, o, op, noop, landmarks),
            Achieve(x, o, op.pc, op.eff, landmarks), noops)

Processed(x, o, op, changed, all) ==
    LET noops == IF all THEN op.noops ELSE TriggeredNoops(op, changed)
    IN  IF AreReached(x.h, op.pc) /\ (all \/ op.pc \cap changed # {} \/ noops # {})
        THEN ProcessOp(x, o, op, noops, LandmarksOf(x.h, op.pc))
        ELSE x

HmLevel(ops, x, all) ==
    FoldLeft(LAMBDA y, o : Processed(y, o, ops[o], x.changed, all),
             [x EXCEPT !.changed = {}], [o \in DOMAIN ops |-> o])

(* first every operator that applies, then what has changed                *)
ComputeHmLandmarks(ops, table) ==
    While(LAMBDA x : x.changed # {}, LAMBDA x : HmLevel(ops, x, FALSE),
          HmLevel(ops, [h |-> table, changed |-> {S \in DOMAIN table : table[S].reached}], TRUE)).h

-----------------------------------------------------------------------------
(* m-sets are numbered as they are enumerated                              *)
FactBefore(f, g) == f[1] < g[1] \/ (f[1] = g[1] /\ f[2] < g[2])
FirstFact(facts) == CHOOSE f \in facts : \A g \in facts \ {f} : FactBefore(f, g)
NumberedBefore(A, B) == A # B /\ FirstFact((A \ B) \cup (B \ A)) \in A

(* transitive orders go, in place; then those that are necessary           *)
ReduceLandmarks(h, S) ==
    [h EXCEPT ![S].landmarks = (@ \ UNION {h[L].landmarks : L \in @}) \ h[S].necessary]

LmOfSet(S) == IF Cardinality(S) > 1 THEN Conjunctive(S) ELSE [facts |-> S, kind |-> "simple"]

AddOrders(g, h, S) ==
    LET natural == FoldSet(LAMBDA L, x : EdgeAdd(x, LmOfSet(L), LmOfSet(S), Natural), g,
                           h[S].landmarks)
    IN  FoldSet(LAMBDA L, x : EdgeAdd(x, LmOfSet(L), LmOfSet(S), GreedyNecessary), natural,
                h[S].necessary)

HmNodes(h, goals, all) ==
    FoldSet(LAMBDA S, g : AddLandmark(g, LmOfSet(S),
                              [Info(S \in goals) EXCEPT !.first = h[S].achievers]),
            EmptyGraph, all)

OrderedHmGraph(h, goals, order) ==
    FoldLeft(LAMBDA g, S : AddOrders(g, h, S), HmNodes(h, goals, ToSet(order)), order)

ReducedHm(h, order) == FoldLeft(ReduceLandmarks, h, order)

HmGraphIn(h, goals, order) == OrderedHmGraph(ReducedHm(h, order), goals, order)

HmGraphOf(h, goals) ==
    HmGraphIn(h, goals, SortSeq(Listed(LandmarksOf(h, goals)), NumberedBefore))

(* an operator with a fact of the landmark among its effects, unless it    *)
(* deletes another or none of its preconditions can hold together with it  *)
IsPossibleAchiever(t, op, lm) ==
    LET post == OperatorPostcondition(op)
    IN  \A f \in lm.facts : f \in post \/ \A g \in post \cup op.preconditions : ~AreMutex(t, f, g)

HmAchievers(t, g) ==
    [g EXCEPT !.info = [lm \in Lms(g) |-> [g.info[lm] EXCEPT !.possible =
        {o \in UNION {OperatorsIncludingEffect(t, f) : f \in lm.facts} :
            IsPossibleAchiever(t, t.operators[o], lm)}]]]

PostprocessHm(t, g, conjunctive, useOrders) ==
    LET kept == IF conjunctive THEN g
                ELSE RemoveNodes(g, {lm \in Lms(g) : lm.kind = "conjunctive"})
    IN  HmAchievers(t, IF useOrders THEN kept ELSE DiscardAllOrderings(kept))

LandmarkFactoryHMWith(t, m, msets, conjunctive, useOrders) ==
    PostprocessHm(t, HmGraphOf(ComputeHmLandmarks(
                         [o \in DOMAIN t.operators |-> PmOp(t, m, msets, t.operators[o])],
                         HmTable(t, m, msets)),
                     MSets(t, m, ToSet(t.goals))), conjunctive, useOrders)

LandmarkFactoryHM(t, m, conjunctive, useOrders) ==
    LandmarkFactoryHMWith(t, m, MSets(t, m, Facts(t)), conjunctive, useOrders)

-----------------------------------------------------------------------------
(* Delete relaxation.  Axioms are numbered behind the operators.           *)

OpsAndAxioms(t) ==
    t.operators \o [r \in DOMAIN t.axioms |-> AsOperator(t.axioms[r])]

(* what can be reached without the excluded facts: without the operators   *)
(* that are sure to make one true, unless each effect is on its own        *)
RelaxedReachability(t, excluded, unary) ==
    LET usable == {op \in ToSet(OpsAndAxioms(t)) :
                      unary \/ \A e \in ToSet(op.effects) : e.conditions # {} \/ e.fact \notin excluded}
        effects == UNION {{[fact |-> e.fact, needs |-> op.preconditions \cup e.conditions] :
                              e \in ToSet(op.effects)} : op \in usable}
    IN  Fixpoint(LAMBDA F : F \cup ({e.fact : e \in {e \in effects : e.needs \subseteq F}} \ excluded),
                 FactsOf(t.initial) \ excluded)

RelaxedTaskSolvable(t, facts, unary) ==
    ToSet(t.goals) \subseteq RelaxedReachability(t, facts, unary)

PossiblyReachesLm(op, reached, facts) ==
    /\ op.preconditions \subseteq reached
    /\ \E e \in ToSet(op.effects) : e.fact \in facts /\ e.conditions \subseteq reached

AchieversOf(ops, facts) ==
    {o \in DOMAIN ops : \E e \in ToSet(ops[o].effects) : e.fact \in facts}

RelaxedInfo(t, ops, lm, info) ==
    LET reached == RelaxedReachability(t, lm.facts, FALSE)
        possible == AchieversOf(ops, lm.facts)
    IN  [info EXCEPT !.derived = \E f \in lm.facts : IsDerived(t, f[1]), !.possible = possible,
                     !.first = {o \in possible : PossiblyReachesLm(ops[o], reached, lm.facts)}]

CalcAchievers(t, g) ==
    [g EXCEPT !.info = [lm \in Lms(g) |-> RelaxedInfo(t, OpsAndAxioms(t), lm, g.info[lm])]]

WithGoals(g, goals) == FoldLeft(LAMBDA x, f : AddLandmark(x, Simple(f), Info(TRUE)), g, goals)

(* every fact is tried                                                     *)
LandmarkFactoryRpgExhaust(t, unary) ==
    CalcAchievers(t, FoldSet(LAMBDA f, g : AddLandmark(g, Simple(f), Info(FALSE)),
        WithGoals(EmptyGraph, t.goals),
        {f \in Facts(t) \ ToSet(t.goals) : ~RelaxedTaskSolvable(t, {f}, unary)}))

-----------------------------------------------------------------------------
(* Zhu and Givan: labels are propagated through the relaxed plan graph;    *)
(* those of a fact are facts that come before it however it is reached.    *)

Triggers(op) == op.preconditions \cup UNION {e.conditions : e \in ToSet(op.effects)}

IsLabelled(labels, facts) == \A f \in facts : labels[f] # {}

LabelsOf(labels, facts) == UNION {labels[f] : f \in facts}

Propagate(old, new, fact) == {fact} \cup (IF old = {} THEN new ELSE old \cap new)

ApplyAndPropagate(op, current, next) ==
    LET given == LabelsOf(current, op.preconditions)
        propagate(l, e) ==
            IF Cardinality(l[e.fact]) = 1 \/ ~IsLabelled(current, e.conditions) THEN l
            ELSE [l EXCEPT ![e.fact] =
                     Propagate(@, given \cup LabelsOf(current, e.conditions), e.fact)]
    IN  FoldLeft(propagate, next, op.effects)

NextLabels(ops, current, changed) ==
    FoldLeft(LAMBDA next, op :
        IF IsLabelled(current, op.preconditions) /\ Triggers(op) \cap changed # {}
        THEN ApplyAndPropagate(op, current, next) ELSE next, current, ops)

Differing(old, new) == {f \in DOMAIN old : old[f] # new[f]}

PropagateLayer(ops, x) ==
    LET next == NextLabels(ops, x.labels, x.changed)
    IN  [labels |-> next, changed |-> Differing(x.labels, next)]

(* the first layer also has the operators without preconditions            *)
FirstLayer(ops, labels, initial) ==
    LET next == FoldLeft(LAMBDA l, op :
            IF IsLabelled(labels, op.preconditions)
               /\ (op.preconditions = {} \/ Triggers(op) \cap initial # {})
            THEN ApplyAndPropagate(op, labels, l) ELSE l, labels, ops)
    IN  [labels |-> next, changed |-> Differing(labels, next)]

RelaxedPlanGraph(t, ops) ==
    While(LAMBDA x : x.changed # {}, LAMBDA x : PropagateLayer(ops, x),
          FirstLayer(ops, [f \in Facts(t) |-> IF Holds(t.initial, {f}) THEN {f} ELSE {}],
                     FactsOf(t.initial))).labels

WithLabels(g, labels, goal) ==
    FoldSet(LAMBDA f, x : EdgeAdd(IF ContainsSimple(x, f) THEN x ELSE AddLandmark(x, Simple(f), Info(FALSE)),
                                  Simple(f), Simple(goal), Natural),
            AddLandmark(g, Simple(goal), Info(TRUE)), labels \ {goal})

(* if the relaxed task has no solution, the first goal that is the reason  *)
ExtractLandmarks(t, labels) ==
    LET failing == {i \in DOMAIN t.goals : labels[t.goals[i]] = {}}
    IN  IF failing # {} THEN AddLandmark(EmptyGraph, Simple(t.goals[Min(failing)]), Info(TRUE))
        ELSE FoldLeft(LAMBDA g, f : WithLabels(g, labels[f], f), EmptyGraph, t.goals)

LandmarkFactoryZhuGivan(t, useOrders) ==
    LET g == ExtractLandmarks(t, RelaxedPlanGraph(t, OpsAndAxioms(t)))
    IN  CalcAchievers(t, IF useOrders THEN g ELSE DiscardAllOrderings(g))

-----------------------------------------------------------------------------
(* Merging graphs without conjunctive landmarks: simple ones first, then   *)
(* disjunctive ones none of whose facts is in a landmark.                  *)

CopySimple(g, other) ==
    FoldSet(LAMBDA lm, x :
                IF lm.kind # "simple" \/ \E f \in lm.facts : ContainsFact(x, f) THEN x
                ELSE AddLandmark(x, lm, other.info[lm]), g, Lms(other))

CopyDisjunctive(g, other) ==
    FoldSet(LAMBDA lm, x :
                IF lm.kind # "disjunctive" \/ \E f \in lm.facts : ContainsFact(x, f) THEN x
                ELSE AddLandmark(x, lm, other.info[lm]), g, Lms(other))

(* a disjunctive landmark also matches a larger one                        *)
MatchingLandmarks(g, lm) ==
    IF lm.kind = "simple" THEN {lm} \cap Lms(g)
    ELSE {d \in Lms(g) : d.kind = "disjunctive" /\ lm.facts \subseteq d.facts}

CopyOrders(g, other) ==
    FoldSet(LAMBDA e, x :
                FoldSet(LAMBDA p, y : EdgeAdd(y, p[1], p[2], other.edges[e]), x,
                        MatchingLandmarks(g, e[1]) \X MatchingLandmarks(g, e[2])),
            g, DOMAIN other.edges)

LandmarkFactoryMerged(graphs) ==
    FoldLeft(CopyOrders,
             FoldLeft(CopyDisjunctive, FoldLeft(CopySimple, EmptyGraph, graphs), graphs), graphs)

-----------------------------------------------------------------------------
(* RPG/SAS+: back from the goals, what every operator that may make a      *)
(* landmark true first has in common.  x: the graph, the landmarks still   *)
(* to look at, and for each the facts that come after it.                  *)

DtgSuccessors(t, op, e) ==
    LET v == e.fact[1]
        before(facts) == {f[2] : f \in {f \in facts : f[1] = v}}
        needed == before(op.preconditions)
        conditions == before(e.conditions)
        from == IF needed = {} /\ conditions = {} THEN Values(t, v)
                ELSE IF needed # {} /\ conditions # {} THEN needed \cap conditions
                ELSE needed \cup conditions
    IN  {<<v, pre, e.fact[2]>> : pre \in from \ {e.fact[2]}}

BuildDtgSuccessors(t) ==
    UNION {UNION {DtgSuccessors(t, op, e) : e \in ToSet(op.effects)} : op \in ToSet(t.operators)}

(* a variable of two values has the other one until the landmark holds     *)
StillInitial(t, facts, op) ==
    {<<v, t.initial[v]>> : v \in {v \in EffectVars(op) :
        /\ \A f \in op.preconditions : f[1] # v
        /\ t.sizes[v] = 2
        /\ \E f \in facts : f[1] = v /\ f[2] # t.initial[v]}}

(* over the effects on one fact after another; an effect without           *)
(* conditions clears what is shared, and a later fact may start anew       *)
SharedOfFact(op, fact, x) ==
    FoldLeft(LAMBDA y, e :
                IF y.over \/ e.fact # fact THEN y
                ELSE IF ~y.init /\ y.shared = {} THEN [y EXCEPT !.over = TRUE]
                ELSE IF e.conditions = {} THEN [y EXCEPT !.shared = {}, !.over = TRUE]
                ELSE [y EXCEPT !.init = FALSE,
                               !.shared = IF y.init THEN e.conditions ELSE @ \cap e.conditions],
             [x EXCEPT !.over = FALSE], op.effects)

SharedConditions(op, facts) ==
    FoldLeft(LAMBDA x, f : SharedOfFact(op, f, x), [init |-> TRUE, shared |-> {}, over |-> FALSE],
             SortSeq(Listed(facts), FactBefore)).shared

(* of two values for a variable the first one found stays                  *)
AddingFirst(found, more) == found \cup {f \in more : \A g \in found : g[1] # f[1]}

GreedyPreconditions(t, facts, op) ==
    AddingFirst(op.preconditions \cup StillInitial(t, facts, op), SharedConditions(op, facts))

AchievingFirst(t, ops, lm, reached) ==
    {o \in AchieversOf(ops, lm.facts) : PossiblyReachesLm(ops[o], reached, lm.facts)}

SharedPreconditions(t, ops, first, lm) ==
    {f \in UNION {GreedyPreconditions(t, lm.facts, ops[o]) : o \in first} :
        \A o \in first : f \in GreedyPreconditions(t, lm.facts, ops[o])}

(* class gives the predicate of each fact, 0 if it has none                *)
DisjunctivePreconditions(t, ops, first, lm, g, class) ==
    LET given == [o \in first |-> {f \in GreedyPreconditions(t, lm.facts, ops[o]) :
                                      class[f] # 0 /\ ~ContainsSimple(g, f)}]
        ofClass(c) == {f \in UNION {given[o] : o \in first} : class[f] = c}
    IN  {ofClass(c) : c \in {c \in {class[f] : f \in Facts(t)} :
            /\ \A o \in first : \E f \in given[o] : class[f] = c
            /\ Cardinality(ofClass(c)) > 1}}

(* a simple landmark takes the place of a disjunctive one with its fact    *)
Replaced(x, lm, old, b, type) ==
    [open |-> Append(SelectSeq(x.open, LAMBDA y : y # old), lm),
     forward |-> Restrict(x.forward, DOMAIN x.forward \ {old}),
     graph |-> FoldSet(LAMBDA p, g : EdgeAdd(g, p, lm, Natural),
                   EdgeAdd(AddLandmark(RemoveNodes(x.graph, {old}), lm, Info(FALSE)), lm, b, type),
                   Parents(x.graph, old))]

FoundNew(x, lm, b, type) ==
    [x EXCEPT !.open = Append(@, lm),
              !.graph = EdgeAdd(AddLandmark(@, lm, Info(FALSE)), lm, b, type)]

FoundSimple(x, fact, b, type) ==
    LET lm == Simple(fact)
    IN  IF ContainsSimple(x.graph, fact) THEN [x EXCEPT !.graph = EdgeAdd(@, lm, b, type)]
        ELSE IF DisjunctivesWith(x.graph, fact) # {}
        THEN Replaced(x, lm, CHOOSE d \in DisjunctivesWith(x.graph, fact) : TRUE, b, type)
        ELSE FoundNew(x, lm, b, type)

FoundDisjunctive(t, x, facts, b, type) ==
    LET lm == Disjunctive(facts)
    IN  IF \E f \in facts : t.initial[f[1]] = f[2] \/ ContainsSimple(x.graph, f) THEN x
        ELSE IF lm \in Lms(x.graph) THEN [x EXCEPT !.graph = EdgeAdd(@, lm, b, type)]
        ELSE IF \E f \in facts : DisjunctivesWith(x.graph, f) # {} THEN x
        ELSE FoundNew(x, lm, b, type)

DomainConnectivity(dtg, v, from, to, exclude) ==
    /\ from \notin exclude
    /\ to \in Fixpoint(LAMBDA D : D \cup {a[3] : a \in {a \in dtg : a[1] = v /\ a[2] \in D /\ a[3] \notin exclude}},
                       {from})

(* facts that need the landmark and are not made true together with it     *)
ForwardOrders(t, ops, lm, reached) ==
    {f \in Facts(t) \ (reached \cup lm.facts) :
        AchieversOf(ops, {f}) \cap AchieversOf(ops, lm.facts) = {}}

(* values of the landmark's variable without which it is out of reach      *)
CrucialValues(t, dtg, fact, reached) ==
    LET v == fact[1]
        others == Values(t, v) \ {fact[2]}
        unreached == {d \in others : <<v, d>> \notin reached}
    IN  {d \in others \ unreached :
            ~DomainConnectivity(dtg, v, t.initial[v], fact[2], unreached \cup {d})}

LookaheadOrders(t, ops, dtg, x, lm, reached) ==
    LET found == [x EXCEPT !.forward = (lm :> ForwardOrders(t, ops, lm, reached)) @@ @]
        fact == CHOOSE f \in lm.facts : TRUE
    IN  IF lm.kind = "disjunctive" THEN found
        ELSE FoldLeft(LAMBDA y, d : FoundSimple(y, <<fact[1], d>>, lm, Natural), found,
                      Ascending(CrucialValues(t, dtg, fact, reached)))

WithDisjunctive(t, ops, x, lm, first, class) ==
    FoldSet(LAMBDA D, y : IF Cardinality(D) < 5
                          THEN FoundDisjunctive(t, y, D, lm, GreedyNecessary) ELSE y,
            x, DisjunctivePreconditions(t, ops, first, lm, x.graph, class))

WithShared(t, ops, x, lm, first) ==
    FoldLeft(LAMBDA y, f : FoundSimple(y, f, lm, GreedyNecessary), x,
             SortSeq(Listed(SharedPreconditions(t, ops, first, lm)), FactBefore))

BackchainFrom(t, ops, dtg, class, x, lm, first, reached) ==
    WithDisjunctive(t, ops, LookaheadOrders(t, ops, dtg, WithShared(t, ops, x, lm, first), lm, reached),
                    lm, first, class)

ReachedBefore(t, ops, dtg, class, x, lm, reached) ==
    BackchainFrom(t, ops, dtg, class, x, lm, AchievingFirst(t, ops, lm, reached), reached)

NextOpen(t, ops, dtg, class, x) ==
    LET lm == Head(x.open)
        rest == [x EXCEPT !.open = Tail(@)]
    IN  IF IsTrueIn(lm, t.initial) THEN rest
        ELSE ReachedBefore(t, ops, dtg, class, rest, lm, RelaxedReachability(t, lm.facts, FALSE))

AddForwardOrders(x) ==
    FoldSet(LAMBDA lm, g :
                FoldSet(LAMBDA f, h : EdgeAdd(h, lm, Simple(f), Natural), g,
                        {f \in x.forward[lm] : ContainsSimple(g, f)}),
            x.graph, DOMAIN x.forward)

RpgSaspGraph(t, ops, dtg, class) ==
    AddForwardOrders(While(LAMBDA x : x.open # <<>>, LAMBDA x : NextOpen(t, ops, dtg, class, x),
        [graph |-> WithGoals(EmptyGraph, t.goals), forward |-> <<>>,
         open |-> [g \in DOMAIN t.goals |-> Simple(t.goals[g])]]))

WithoutDisjunctive(g) == RemoveNodes(g, {lm \in Lms(g) : lm.kind = "disjunctive"})

LandmarkFactoryRpgSasp(t, class, disjunctive, useOrders) ==
    LET all == RpgSaspGraph(t, OpsAndAxioms(t), BuildDtgSuccessors(t), class)
        g == IF disjunctive THEN all ELSE WithoutDisjunctive(all)
    IN  CalcAchievers(t, IF useOrders THEN g ELSE DiscardAllOrderings(g))

-----------------------------------------------------------------------------
(* Reasonable orders: what interferes with a landmark comes before it.     *)

(* conditional effects one of whose conditions always holds                *)
EffectAlwaysHappens(t, op) ==
    LET conditional == {e \in ToSet(op.effects) : e.conditions # {}}
        onVar(v) == {e \in conditional : e.fact[1] = v}
        conditionsOn(v) == UNION {e.conditions : e \in onVar(v)}
        surely(v, d, u) ==
            Values(t, u) = {c[2] : c \in {c \in conditionsOn(v) : c[1] = u}}
                           \cup (IF u = v THEN {d} ELSE {})
    IN  {f \in {e.fact : e \in conditional} :
            /\ \A e \in onVar(f[1]) : e.fact = f
            /\ \A u \in {c[1] : c \in conditionsOn(f[1])} : surely(f[1], f[2], u)}

(* (what the code takes for "some are found" is that none are)             *)
EffectsBeside(t, op, fact) ==
    LET always == EffectAlwaysHappens(t, op)
        found == always = {}
    IN  {e.fact : e \in {e \in ToSet(op.effects) :
            \/ e.conditions = {} /\ e.fact[1] # fact[1]
            \/ found /\ e.fact \in always}}

SharedEffects(t, ops, fact) ==
    LET adding == AchieversOf(ops, {fact})
    IN  {f \in UNION {EffectsBeside(t, ops[o], fact) : o \in adding} :
            \A o \in adding : f \in EffectsBeside(t, ops[o], fact)}

FactsInterfere(t, ops, a, b, conjunctive) ==
    \/ AreMutex(t, a, b)
    \/ ~conjunctive /\ \E e \in SharedEffects(t, ops, a) : e \notin {a, b} /\ AreMutex(t, e, b)

(* pairs of facts are looked at in order, up to the first that decides     *)
LandmarksInterfere(t, ops, lmA, lmB) ==
    LET both == lmA.kind = "conjunctive" /\ lmB.kind = "conjunctive"
        before(p, q) == FactBefore(p[2], q[2]) \/ (p[2] = q[2] /\ FactBefore(p[1], q[1]))
    IN  \E p \in lmA.facts \X lmB.facts :
            /\ p[1] # p[2] /\ FactsInterfere(t, ops, p[1], p[2], lmA.kind = "conjunctive")
            /\ both \/ \A q \in lmA.facts \X lmB.facts : before(q, p) => q[1] # q[2]

ParentsOver(g, lm, type) == {p \in Parents(g, lm) : g.edges[<<p, lm>>] >= type}

CollectAncestors(g, lm) ==
    Fixpoint(LAMBDA A : A \cup UNION {ParentsOver(g, a, Natural) : a \in A},
             ParentsOver(g, lm, Natural))

InterestingNodes(g, lm) ==
    LET after == {c \in Children(g, lm) : g.edges[<<lm, c>>] >= GreedyNecessary}
        beside == {p \in UNION {ParentsOver(g, c, Natural) : c \in after} :
                      p # lm /\ p.kind # "disjunctive"}
    IN  beside \cup UNION {CollectAncestors(g, p) : p \in beside}

ReasonablyBefore(t, ops, g, lm) ==
    {other \in (IF g.info[lm].goal THEN Lms(g) ELSE InterestingNodes(g, lm)) :
        other # lm /\ other.kind # "disjunctive" /\ LandmarksInterfere(t, ops, other, lm)}

LandmarkFactoryReasonableOrdersHPS(t, g) ==
    FoldSet(LAMBDA lm, x :
                FoldSet(LAMBDA other, y : EdgeAdd(y, other, lm, Reasonable), x,
                        ReasonablyBefore(t, OpsAndAxioms(t), g, lm)),
            g, {lm \in Lms(g) : lm.kind # "disjunctive"})
=============================================================================
