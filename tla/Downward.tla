------------------------------ MODULE Downward ------------------------------
(***************************************************************************)
(* The planner: its searches, each with the estimates it is given, and a   *)
(* walk through the states of a task on which what the other components    *)
(* compute is held against the truth.  What they compute are data here,    *)
(* by task: MCDownward takes them from DownwardTables.                     *)
(***************************************************************************)
EXTENDS IteratedSearch, LandmarkHeuristics

CONSTANTS
    Tasks,          \* a sequence of tasks
    TrueCosts,      \* for each, the cost of a cheapest plan from each state
    Estimates,      \* for each, the tables of the heuristics
    Successors,     \* for each, the operators generated for each state
    Arcs,           \* for each, where the applicable operators of each lead
    Prunings,       \* for each, what each pruning method leaves of them
    Images,         \* for each, what transformations make of it
    Patterns,       \* for each, what pattern databases make of it
    Abstractions,   \* for each, the estimates of other abstractions
    Landmarks,      \* for each, a sequence of landmark heuristics
    Cuts,           \* for each, the rounds of LM-cut in each state
    Searches        \* the searches: [task, configs, flags, bound]

VARIABLE walk       \* the task at hand, the state of a walk, the round of LM-cut in
                    \* it, and what the walk shows a landmark heuristic (0: none):
                    \* its status of the state

vars == <<iteratedVars, walk>>

Walking == walk.state # <<>>

(* a walk on which the tables are looked at, and one with landmarks        *)
Touring == Walking /\ walk.heuristic = 0
Progressing == Walking /\ walk.heuristic # 0

(* the landmark heuristic of a walk                                        *)
Observer == Landmarks[walk.task][walk.heuristic]

Running == outer.status = "IN_PROGRESS"

NoConfig == [algorithm |-> "none"]
NoSearch == [space |-> <<>>, open |-> <<>>, lowest |-> NoValue, current |-> NoState,
             status |-> "NONE", plan |-> NoPlan]

(* the configurations of a search with the tables they name                *)
Resolved(configs, estimates, successors, prunings) ==
    [i \in DOMAIN configs |->
        [configs[i] EXCEPT !.h = estimates[@], !.again = estimates[@]]
        @@ [preferred |-> estimates.preferred, successors |-> successors,
            remaining |-> prunings[configs[i].pruning]]]

SearchInit ==
    \E x \in Searches :
        /\ walk = [task |-> x.task, state |-> <<>>, round |-> 1, heuristic |-> 0, status |-> <<>>]
        /\ IteratedInit(Tasks[x.task],
                        Resolved(x.configs, Estimates[x.task], Successors[x.task],
                                 Prunings[x.task]),
                        x.flags, x.bound)

WalkFrom(i, k) ==
    [task |-> i, state |-> Tasks[i].initial, round |-> 1, heuristic |-> k,
     status |-> IF k = 0 THEN <<>>
                ELSE ProgressInitialState(Landmarks[i][k].graph, Tasks[i].initial)]

WalkInit ==
    /\ walk \in UNION {{WalkFrom(i, k) : k \in 0..Len(Landmarks[i])} : i \in DOMAIN Tasks}
    /\ Begin(Tasks[walk.task], NoConfig, NoSearch)
    /\ outer = [status |-> "NONE"]

Init == SearchInit \/ WalkInit

Search == ~Walking /\ IteratedNext /\ UNCHANGED walk

(* the status of a state reached on this path only                         *)
Progressed(to) ==
    IF walk.heuristic = 0 \/ to = walk.state THEN walk.status
    ELSE Progress(Observer.graph, Observer.flags, walk.status, walk.state, to,
                  NoStatus(Observer.graph))

Walk ==
    /\ Walking
    /\ \E o \in ToSet(Successors[walk.task][walk.state]) :
          LET to == Successor(task, walk.state, task.operators[o])
          IN  walk' = [walk EXCEPT !.state = to, !.round = 1, !.status = Progressed(to)]
    /\ UNCHANGED iteratedVars

(* the cuts of a state are looked at one by one                            *)
Cutting == Touring /\ IsSimple(task)

CutHere == Cuts[walk.task][walk.state]

NextCut ==
    /\ Cutting /\ walk.round < Len(CutHere.rounds)
    /\ walk' = [walk EXCEPT !.round = @ + 1]
    /\ UNCHANGED iteratedVars

(* a search that is over, and a state without successors                   *)
Done ==
    /\ ~Running
    /\ Walking => Successors[walk.task][walk.state] = <<>>
    /\ UNCHANGED vars

Next == Search \/ Walk \/ NextCut \/ Done

(* One thread searches until it is done: weak fairness of Search, which is *)
(* enabled exactly while Running holds (a deadlock if it were not).        *)
Fairness == []<>~Running \/ []<><<TRUE>>_vars

Spec == Init /\ [][Next]_vars /\ Fairness

-----------------------------------------------------------------------------
(* Searches                                                                *)

TrueCost == TrueCosts[walk.task][IF Walking THEN walk.state ELSE task.initial]

CountsCosts(c) == c.costType = "normal"

LooksEverywhere(c) ==
    c.algorithm # "ehc" /\ (c.bound = Infinity \/ (c.reopen /\ CountsCosts(c)))

PlanSound ==
    plan # NoPlan => LET e == Executed(plan)
                     IN  /\ e.legal /\ IsGoal(task, e.state)
                         /\ CountsCosts(config) => e.cost < config.bound
                         /\ config.algorithm = "eager" /\ config.open.kind = "tie-breaking"
                              => e.cost = TrueCost

Improves ==
    \A j \in DOMAIN outer.saved : j > 1 =>
        Executed(outer.saved[j]).cost < Executed(outer.saved[j - 1]).cost

(* A plan leads from the initial state to the goal over applicable         *)
(* operators, however often its states were reopened and their parents     *)
(* replaced, and costs less than the bound if the search counts what       *)
(* operators cost (otherwise the cut-offs by what a path really costs are  *)
(* blind to parents replaced later).  A search only gives up while there   *)
(* is a plan within the bound if it climbs hills or if, under a bound, it  *)
(* does not reopen states or counts something else.  A* answers with a     *)
(* cheapest plan, also when the estimates are inconsistent and states are  *)
(* evaluated twice (TracePath, Reached, EagerStep).  And every plan an     *)
(* iterated search saves is cheaper than the one before, whichever phase   *)
(* found it with whatever costs (AfterPhase, PhaseConfig).                 *)
SearchSound ==
    ~Walking =>
    /\ PlanSound
    /\ status = "FAILED" /\ LooksEverywhere(config) => TrueCost >= config.bound
    /\ Improves

(* Every search comes to an end: no configuration reopens, reevaluates or  *)
(* repeats its last phase for ever.                                        *)
Terminates == Running ~> ~Running

(* What the searches have in common, and what A* adds to it                *)

(* A* as the service runs it, without pruning                              *)
IsAstar(c) ==
    /\ c.algorithm = "eager" /\ c.open.kind = "tie-breaking" /\ c.reopen
    /\ c.costType = "normal" /\ c.pruning = "null"

(* no bound keeps it from a state that a cheaper path leads to later       *)
IsThorough(c) ==
    /\ c.algorithm # "ehc" /\ c.pruning = "null"
    /\ c.bound = Infinity \/ (c.reopen /\ c.costType = "normal")

SearchProblem ==
    LET arcs == Arcs[walk.task]
    IN  IF Walking
        THEN [initial |-> walk.task, goals |-> {}, arcs |-> walk.task :> {}, price |-> <<>>,
              estimates |-> walk.task :> {}, infinity |-> 0, bound |-> 0, exact |-> FALSE,
              reopens |-> FALSE, thorough |-> FALSE, astar |-> FALSE]
        ELSE [initial |-> task.initial, goals |-> {s \in DOMAIN arcs : IsGoal(task, s)},
              arcs |-> arcs,
              price |-> [o \in DOMAIN task.operators |-> AdjustedCost(task.operators[o])],
              estimates |-> [s \in DOMAIN arcs |-> {config.h[s], config.again[s]}],
              infinity |-> Infinity, bound |-> config.bound,
              exact |-> config.costType = "normal", reopens |-> config.reopen,
              thorough |-> IsThorough(config), astar |-> IsAstar(config)]

(* by state, the nodes that have been reached                              *)
SearchNodes ==
    LET ids == IF Walking THEN {} ELSE {i \in DOMAIN space.nodes : space.nodes[i].g # -1}
    IN  [s \in {space.states[i] : i \in ids} |->
            LET node == space.nodes[IdOf(space, s)]
            IN  [status |-> node.status, g |-> node.g, op |-> node.creator,
                 parent |-> IF node.parent = NoState THEN s ELSE space.states[node.parent]]]

(* the edges in the open list of a lazy algorithm and the one at hand      *)
PendingEdges ==
    IF Walking \/ status # "IN_PROGRESS" \/ config.algorithm # "lazy" THEN {}
    ELSE {<<space.states[e[1]], e[2]>> : e \in Entries(open)}
         \cup {<<IF current.parent = NoState THEN task.initial ELSE space.states[current.parent],
                 current.op>>}

(* the plan with the states it leads through and what it costs up to each  *)
Stations(ops) ==
    LET to(s, o) == CHOOSE arc \in Arcs[walk.task][s] : arc[1] = o
    IN  FoldLeft(LAMBDA q, o :
                     Append(q, [op |-> o, at |-> to(Last(q).at, o)[2],
                                cost |-> Last(q).cost + AdjustedCost(task.operators[o])]),
                 <<[op |-> NoOperator, at |-> task.initial, cost |-> 0]>>, ops)

Space == INSTANCE SearchSpace
    WITH problem <- SearchProblem, nodes <- SearchNodes, pending <- PendingEdges, status <- status,
         answers <- IF Walking \/ plan = NoPlan THEN {} ELSE {Stations(plan)}

(* Every search reaches a state once and replaces its parent for a cheaper *)
(* path only; and A* closes a state when its successors are covered, and   *)
(* answers in order, also when it evaluates states twice and reopens them: *)
(* what SearchSpace asks of them (Generate, Reevaluate, LazyEvaluate).     *)
ImplementsSearchSpace == Space!Spec

-----------------------------------------------------------------------------
(* LM-cut                                                                  *)

NoFact == <<0, 0>>
NothingRelaxed ==
    [facts |-> {NoFact}, needs |-> <<>>, adds |-> <<>>, base |-> <<>>, goal |-> NoFact,
     state |-> {NoFact}]
NoCut ==
    [price |-> <<>>, total |-> 0,
     labels |-> [reached |-> {NoFact}, hmax |-> NoFact :> 0, supporter |-> <<>>]]

CutAtHand == IF Cutting THEN CutHere.rounds[walk.round] ELSE NoCut

CutRules == INSTANCE LandmarkCuts
    WITH relaxed <- IF Cutting THEN CutHere.relaxed ELSE NothingRelaxed,
         price <- CutAtHand.price, labels <- CutAtHand.labels, total <- CutAtHand.total

(* In every state LM-cut starts with the h^max of all facts, and a round   *)
(* gives the next estimate: the goal zone, what comes before it and the    *)
(* cut between them, each as its definition says, and h^max repaired as if *)
(* it were computed anew (FirstExplorationIncremental, MarkGoalPlateau,    *)
(* SecondExploration).                                                     *)
ImplementsLandmarkCuts == CutRules!CutSpec

-----------------------------------------------------------------------------
(* What the components compute, in every state of a walk                   *)

(* of estimates that come with preferred operators                         *)
GuidesIn(h) ==
    /\ h.cached = {h.causal}
    /\ \A x \in {h.causal, h.context} :
         /\ x.preferred \subseteq Applicable(task, walk.state)
         /\ MinOperatorCost(task) > 0 => (x.h = 0 <=> IsGoal(task, walk.state))

OrderedIn(h) ==
    /\ GuidesIn(h)
    /\ h.blind <= TrueCost
    /\ h.max <= h.plus /\ h.plus <= h.ff /\ h.plus <= TrueCost
    /\ h.max <= h.cut /\ h.cut <= h.plus
    /\ h.pairs <= TrueCost

InState(estimates, s) == [k \in DOMAIN estimates |-> estimates[k][s]]

(* a step of the task, and the goal, are steps of the task LM-cut relaxes  *)
StepsAreRelaxed(r) ==
    /\ \A o \in Applicable(task, walk.state) :
         LET to == Successor(task, walk.state, task.operators[o])
         IN  /\ r.needs[o] \subseteq r.state /\ r.base[o] = task.operators[o].cost
             /\ Cuts[walk.task][to].relaxed.state \subseteq r.state \cup r.adds[o]
    /\ IsGoal(task, walk.state) =>
         \E o \in DOMAIN r.base : r.base[o] = 0 /\ r.goal \in r.adds[o] /\ r.needs[o] \subseteq r.state

(* No admissible estimate exceeds the cost of a cheapest plan, and they    *)
(* are ordered as their definitions promise: h^max under LM-cut under the  *)
(* cost of a cheapest relaxed plan, which h^FF's plan does not undercut.   *)
(* What other states left in its cache does not change what the causal     *)
(* graph heuristic says of a state; what it or the context-enhanced one    *)
(* prefers can be applied, and if every operator has a cost they are 0 in  *)
(* goal states only.  And LM-cut relaxes the task: its operators add all   *)
(* that a step makes true.                                                 *)
Ordered ==
    /\ Touring => OrderedIn(InState(Estimates[walk.task], walk.state))
    /\ Cutting => StepsAreRelaxed(CutHere.relaxed)

(* an operator that a cheapest plan from s can start with                  *)
StartsPlan(o, s) ==
    LET op == task.operators[o]
    IN  TrueCosts[walk.task][s] = Plus(op.cost, TrueCosts[walk.task][Successor(task, s, op)])

FaithfulIn(ops, image, s) ==
    /\ ToSet(ops) = Applicable(task, s) /\ IsInjective(ops)
    /\ IsGoal(task, s) => IsGoal(image.task, image.of[s])
    /\ \A o \in ToSet(ops) :
         /\ IsApplicable(image.task.operators[o], image.of[s])
         /\ Successor(image.task, image.of[s], image.task.operators[o])
              = image.of[Successor(task, s, task.operators[o])]
    /\ \A x \in image.defaults :
         s[x.var] = task.defaults[x.var] <=> \E c \in x.conditions : Holds(s, c)

(* What is derived from a task agrees with it: the successor generator     *)
(* yields each applicable operator once; a step of the task is a step of   *)
(* its domain abstraction; the axioms made for a default value hold        *)
(* wherever the variable has it; and a pruning method leaves the first     *)
(* operator of some cheapest plan.                                         *)
Faithful ==
    Touring =>
    /\ FaithfulIn(Successors[walk.task][walk.state], Images[walk.task], walk.state)
    /\ TrueCost # Infinity /\ ~IsGoal(task, walk.state) =>
         \A m \in DOMAIN Prunings[walk.task] :
             \E o \in ToSet(Prunings[walk.task][m][walk.state]) : StartsPlan(o, walk.state)

AdmissibleIn(e, s, ops) ==
    /\ \A h \in e.perfect : h[s] = TrueCost
    /\ \A h \in e.admissible :
         /\ h[s] <= TrueCost
         /\ \A o \in ops :
              h[s] <= Plus(task.operators[o].cost, h[Successor(task, s, task.operators[o])])
    /\ \A p \in e.equal : p[1][s] = p[2][s]

(* Every heuristic that is a distance in an abstraction, or a sum or a     *)
(* maximum of several, is admissible and consistent; the abstraction to    *)
(* all variables is perfect; and what dominance pruning drops does not     *)
(* change an estimate.  Merge-and-shrink keeps to this whatever it shrinks *)
(* and whenever the time is up, and is perfect too if all it combines is   *)
(* bisimilar states and labels that can be combined exactly.  A Cartesian  *)
(* abstraction, rewired at each split, has the transitions its sets        *)
(* induce, and what the refinement calls a solution has the plan's cost.   *)
AbstractionsAdmissible ==
    Touring =>
    /\ IsSimple(task) =>
         AdmissibleIn(Patterns[walk.task].estimates, walk.state,
                      ToSet(Successors[walk.task][walk.state]))
    /\ ~HasAxioms(task) =>
         AdmissibleIn(Abstractions[walk.task], walk.state,
                      ToSet(Successors[walk.task][walk.state]))

(* x: an iteration of a run within limits                                  *)
IsGoalPattern(p) == Len(p) = 1 /\ p[1] \in GoalVars(task)

Total(P, sizes) == MapThenSumSet(LAMBDA p : sizes[p], P)

WithinLimits(x, sizes) ==
    /\ \A p \in x.patterns : IsGoalPattern(p) \/ sizes[p] <= x.pdb
    /\ (\A p \in x.patterns : IsGoalPattern(p)) \/ Total(x.patterns, sizes) <= x.collection
    /\ \A p, q \in x.patterns : p = q \/ ToSet(p) \cap ToSet(q) = {}

SoundIn(r, cheapest) ==
    /\ \A x \in r.refinements :
         /\ WithinLimits(x, r.sizes)
         /\ \A f \in x.flaws : ~Contains(f[1], f[2])
         /\ \A p \in x.solutions : r.initial[p] = cheapest
    /\ \A P \in r.generated.random :
         \/ Total(P, r.sizes) <= r.limits.collection
         \/ \E p \in P : IsGoalPattern(p) /\ Total(P \ {p}, r.sizes) < r.limits.collection
    /\ ToSet(r.generated.systematic) = r.generated.interesting
    /\ \A c \in r.generated.genetic : \A i, j \in DOMAIN c :
         i # j => ToSet(c[i]) \cap ToSet(c[j]) = {}

(* Whatever is drawn at random and whenever the time is up: a collection   *)
(* keeps to its limits, counterexamples only ask for variables a pattern   *)
(* lacks, and a plan said to solve the task is a cheapest one; systematic  *)
(* patterns are exactly the interesting ones; genetic ones are disjoint.   *)
CollectionsSound ==
    Touring /\ IsSimple(task) =>
        SoundIn(Patterns[walk.task], TrueCosts[walk.task][task.initial])

-----------------------------------------------------------------------------
(* Landmarks, in every state of a walk and after every path to it          *)

(* An order is not violated on any path: what is past has its natural      *)
(* predecessors behind it, and a greedy-necessary one holds just before;   *)
(* if axioms make the landmark true, it may also come true with it.        *)
HoldsBefore(g, lm, head, s, to) ==
    IsTrueIn(lm, s) \/ (g.info[head].derived /\ IsTrueIn(lm, to))

OrdersKept(g, past) ==
    \A e \in {e \in DOMAIN g.edges : g.edges[e] >= Natural} :
        /\ e[2] \in past => e[1] \in past
        /\ g.edges[e] >= GreedyNecessary /\ e[2] \notin past =>
             \A o \in ToSet(Successors[walk.task][walk.state]) :
                LET to == Successor(task, walk.state, task.operators[o])
                IN  IsTrueIn(e[2], to) => HoldsBefore(g, e[1], e[2], walk.state, to)

(* dodges[A]: the states from which the goal is reached without A          *)
StatusSound(h, marks) ==
    /\ \A lm \in marks.future :
         walk.state \notin h.dodges[AchieversNow(h.task, h.graph, marks, lm)]
    /\ LET value == LandmarkHeuristicValue(h, marks)
       IN  IF h.kind = "sum" THEN value = Infinity => TrueCost = Infinity ELSE value <= TrueCost
    /\ OrdersKept(h.graph, marks.past)

(* Whatever path led to a state, and whatever the paths to it add up to:   *)
(* the goal is not reached from it without one of the achievers of each    *)
(* landmark still to come; a dead end is one, and sharing costs among the  *)
(* landmarks does not exceed the cost of a cheapest plan.                  *)
LandmarksSound ==
    Progressing => \A marks \in {walk.status, Observer.merged[walk.state]} :
                       StatusSound(Observer, marks)
=============================================================================
