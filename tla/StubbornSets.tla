---------------------------- MODULE StubbornSets ----------------------------
(***************************************************************************)
(* Pruning by strong stubborn sets: of the applicable operators only those *)
(* in a set are kept that contains the first step of some cheapest plan.   *)
(* Three ways to compute one; what is chosen in the last two depends on    *)
(* the order in which their queues are emptied.                            *)
(***************************************************************************)
EXTENDS PlanningTask

(* facts of different variables, by variable                               *)
FactsByVar(facts) ==
    LET vars == Ascending({f[1] : f \in facts})
    IN  [i \in DOMAIN vars |-> CHOOSE f \in facts : f[1] = vars[i]]

EffectFacts(op) == {e.fact : e \in ToSet(op.effects)}

OperatorsWith(t, test(_)) == Ascending({o \in DOMAIN t.operators : test(o)})

(* d: what all methods know of a task                                      *)
SortedTask(t) ==
    [sizes |-> t.sizes,
     goals |-> FactsByVar(ToSet(t.goals)),
     preconditions |-> [o \in DOMAIN t.operators |-> FactsByVar(t.operators[o].preconditions)],
     effects |-> [o \in DOMAIN t.operators |-> FactsByVar(EffectFacts(t.operators[o]))],
     achievers |-> [f \in Facts(t) |->
                       OperatorsWith(t, LAMBDA o : f \in EffectFacts(t.operators[o]))],
     consumers |-> [f \in Facts(t) |->
                       OperatorsWith(t, LAMBDA o : f \in t.operators[o].preconditions)]]

IsSatisfied(s, f) == s[f[1]] = f[2]

Unsatisfied(facts, s) == {i \in DOMAIN facts : ~IsSatisfied(s, facts[i])}

FindUnsatisfiedCondition(facts, s) == facts[Min(Unsatisfied(facts, s))]

IsApplicableIn(d, o, s) == Unsatisfied(d.preconditions[o], s) = {}

StubbornOperators(ops, stubborn) == SelectSeq(ops, LAMBDA o : o \in stubborn)

-----------------------------------------------------------------------------
(* Relations between operators                                             *)

ConflictingVars(facts, others) ==
    {f[1] : f \in {f \in ToSet(facts) : \E g \in ToSet(others) : g[1] = f[1] /\ g[2] # f[2]}}

CanDisable(d, o, p) == ConflictingVars(d.effects[o], d.preconditions[p]) # {}
CanConflict(d, o, p) == ConflictingVars(d.effects[o], d.effects[p]) # {}

Interferes(d, o, p) == o # p /\ (CanDisable(d, o, p) \/ CanConflict(d, o, p) \/ CanDisable(d, p, o))

InterferingOperators(d, o) == {p \in DOMAIN d.effects : Interferes(d, o, p)}

-----------------------------------------------------------------------------
(* The simple method: the order of its queue makes no difference           *)

NecessaryEnablingSet(d, f) == ToSet(d.achievers[f])

AddedBy(d, s, o) ==
    IF IsApplicableIn(d, o, s) THEN InterferingOperators(d, o)
    ELSE NecessaryEnablingSet(d, FindUnsatisfiedCondition(d.preconditions[o], s))

SimpleStubbornSet(d, s) ==
    Fixpoint(LAMBDA S : S \cup UNION {AddedBy(d, s, o) : o \in S},
             NecessaryEnablingSet(d, FindUnsatisfiedCondition(d.goals, s)))

-----------------------------------------------------------------------------
(* Expansion core: only active operators count, those whose preconditions  *)
(* can each be reached in the graph of their variable.                     *)
(* x: [stubborn, queue, written, computed]: the operators, those not yet   *)
(* handled, the variables the applicable ones write, and the facts whose   *)
(* enabling set was added                                                  *)

IsVApplicable(d, o, v, a) == \A f \in ToSet(d.preconditions[o]) : f[1] = v => f[2] = a

ReachableValues(d, v, start) ==
    Fixpoint(LAMBDA R : R \cup {b \in 0..(d.sizes[v] - 1) :
                                  \E a \in R, o \in ToSet(d.achievers[<<v, b>>]) :
                                      IsVApplicable(d, o, v, a)},
             {start})

ReachabilityMap(d) ==
    [v \in DOMAIN d.sizes |-> [a \in 0..(d.sizes[v] - 1) |-> ReachableValues(d, v, a)]]

ActiveOperators(d, reach, s) ==
    {o \in DOMAIN d.effects : \A f \in ToSet(d.preconditions[o]) : f[2] \in reach[f[1]][s[f[1]]]}

VarsWritten(d, o) == {f[1] : f \in ToSet(d.effects[o])}

EnqueueAndRemember(d, s, x, o) ==
    IF o \in x.stubborn THEN x
    ELSE [x EXCEPT !.stubborn = @ \cup {o}, !.queue = Append(@, o),
                   !.written = @ \cup IF IsApplicableIn(d, o, s) THEN VarsWritten(d, o) ELSE {}]

EnqueueActive(d, s, active, x, ops) ==
    FoldLeft(LAMBDA y, o : IF o \in active THEN EnqueueAndRemember(d, s, y, o) ELSE y, x, ops)

AddNesForFact(d, s, active, x, f) ==
    IF f \in x.computed THEN x
    ELSE [EnqueueActive(d, s, active, x, d.achievers[f]) EXCEPT !.computed = @ \cup {f}]

ConflictingAndDisabling(d, o) ==
    Ascending({p \in DOMAIN d.effects \ {o} : CanConflict(d, o, p) \/ CanDisable(d, p, o)})

Disabled(d, o) == Ascending({p \in DOMAIN d.effects \ {o} : CanDisable(d, o, p)})

(* the unsatisfied precondition on a variable that is written, if any      *)
ApplyS5(d, s, active, x, o) ==
    LET unsatisfied == Unsatisfied(d.preconditions[o], s)
        written == {i \in unsatisfied : d.preconditions[o][i][1] \in x.written}
    IN  AddNesForFact(d, s, active, x,
                      d.preconditions[o][Min(IF written = {} THEN unsatisfied ELSE written)])

(* rule S4': what o disables                                               *)
AddDisabled(d, s, active, x, o, p) ==
    IF p \notin active THEN x
    ELSE IF \E v \in ConflictingVars(d.effects[o], d.preconditions[p]) : IsVApplicable(d, p, v, s[v])
    THEN EnqueueAndRemember(d, s, x, p)
    ELSE ApplyS5(d, s, active, x, p)

HandleActive(d, s, active, x, o) ==
    IF ~IsApplicableIn(d, o, s) THEN ApplyS5(d, s, active, x, o)
    ELSE FoldLeft(LAMBDA y, p : AddDisabled(d, s, active, y, o, p),
                  EnqueueActive(d, s, active, x, ConflictingAndDisabling(d, o)), Disabled(d, o))

HandleLast(d, s, active, x) ==
    HandleActive(d, s, active, [x EXCEPT !.queue = Front(@)], Last(x.queue))

CoreFrom(d, s, active) ==
    While(LAMBDA x : x.queue # <<>>, LAMBDA x : HandleLast(d, s, active, x),
          AddNesForFact(d, s, active,
                        [stubborn |-> {}, queue |-> <<>>, written |-> {}, computed |-> {}],
                        FindUnsatisfiedCondition(d.goals, s))).stubborn

ExpansionCoreSet(d, reach, s) == CoreFrom(d, s, ActiveOperators(d, reach, s))

-----------------------------------------------------------------------------
(* The atom-centric method: facts are marked whose producers (operators    *)
(* that make them true) or consumers (that need them) are stubborn.        *)
(* x: [stubborn, producers, consumers]; either of them: the facts marked,  *)
(* those not yet handled, and of each variable the value all of whose      *)
(* siblings are marked, or a sign for all or none                          *)

AllMarked == -1
NoneMarked == -2

NothingMarked(d) ==
    [marked |-> {}, queue |-> <<>>, siblings |-> [v \in DOMAIN d.sizes |-> NoneMarked]]

MarkFact(side, f) ==
    IF f \in side.marked THEN side
    ELSE [side EXCEPT !.marked = @ \cup {f}, !.queue = Append(@, f)]

MarkSiblings(d, shortcut, side, f) ==
    LET v == f[1]
        mark == side.siblings[v]
        siblings == SelectSeq([i \in 1..d.sizes[v] |-> <<v, i - 1>>], LAMBDA g : g # f)
        remembered(x, m) == IF shortcut THEN [x EXCEPT !.siblings[v] = m] ELSE x
    IN  IF mark = NoneMarked THEN remembered(FoldLeft(MarkFact, side, siblings), f[2])
        ELSE IF mark \notin {AllMarked, f[2]} THEN remembered(MarkFact(side, <<v, mark>>), AllMarked)
        ELSE side

(* the first of the facts that are best in the eyes of the strategy        *)
Weight(d, strategy, x, f) ==
    CASE strategy = "fast_downward" -> 0
      [] strategy = "quick_skip" -> IF f \in x.producers.marked THEN 0 ELSE 1
      [] strategy = "static_small" -> Len(d.achievers[f])
      [] strategy = "dynamic_small" -> Cardinality(ToSet(d.achievers[f]) \ x.stubborn)

SelectFact(d, strategy, x, facts, s) ==
    LET weight(i) == Weight(d, strategy, x, facts[i])
        unsatisfied == Unsatisfied(facts, s)
        best == {i \in unsatisfied : \A j \in unsatisfied : weight(i) <= weight(j)}
    IN  facts[Min(best)]

EnqueueProducers(x, f) == [x EXCEPT !.producers = MarkFact(@, f)]

EnqueueSiblingProducers(d, m, x, f) ==
    [x EXCEPT !.producers = MarkSiblings(d, m.shortcut, @, f)]

EnqueueSiblingConsumers(d, m, x, f) ==
    [x EXCEPT !.consumers = MarkSiblings(d, m.shortcut, @, f)]

EnqueueInterferers(d, m, x, o) ==
    FoldLeft(LAMBDA y, f : EnqueueSiblingConsumers(d, m, EnqueueSiblingProducers(d, m, y, f), f),
             FoldLeft(LAMBDA y, f : EnqueueSiblingProducers(d, m, y, f), x, d.preconditions[o]),
             d.effects[o])

HandleStubbornOperator(d, m, s, x, o) ==
    LET added == [x EXCEPT !.stubborn = @ \cup {o}]
    IN  IF o \in x.stubborn THEN x
        ELSE IF IsApplicableIn(d, o, s) THEN EnqueueInterferers(d, m, added, o)
        ELSE EnqueueProducers(added, SelectFact(d, m.strategy, added, d.preconditions[o], s))

HandleOperators(d, m, s, x, ops) ==
    FoldLeft(LAMBDA y, o : HandleStubbornOperator(d, m, s, y, o), x, ops)

HandleFact(d, m, s, x) ==
    IF x.producers.queue # <<>>
    THEN HandleOperators(d, m, s, [x EXCEPT !.producers.queue = Front(@)],
                         d.achievers[Last(x.producers.queue)])
    ELSE HandleOperators(d, m, s, [x EXCEPT !.consumers.queue = Front(@)],
                         d.consumers[Last(x.consumers.queue)])

AtomCentricFrom(d, m, s, x) ==
    While(LAMBDA y : y.producers.queue # <<>> \/ y.consumers.queue # <<>>,
          LAMBDA y : HandleFact(d, m, s, y),
          EnqueueProducers(x, SelectFact(d, m.strategy, x, d.goals, s))).stubborn

AtomCentricSet(d, m, s) ==
    AtomCentricFrom(d, m, s, [stubborn |-> {}, producers |-> NothingMarked(d),
                              consumers |-> NothingMarked(d)])

-----------------------------------------------------------------------------
(* What each method leaves of the operators of each state; m: its options  *)

StubbornSet(d, reach, m, s) ==
    CASE m.kind = "simple" -> SimpleStubbornSet(d, s)
      [] m.kind = "ec" -> ExpansionCoreSet(d, reach, s)
      [] m.kind = "atom" -> AtomCentricSet(d, m, s)

RemainingOf(t, d, reach, m, successors) ==
    [s \in DOMAIN successors |->
        IF IsGoal(t, s) THEN successors[s]
        ELSE StubbornOperators(successors[s], StubbornSet(d, reach, m, s))]
=============================================================================
