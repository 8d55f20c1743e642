---------------------------- MODULE SearchSpace ----------------------------
(***************************************************************************)
(* What every search algorithm of Fast Downward does to the search space,  *)
(* whatever its open list, its heuristic and the order in which it looks   *)
(* at operators: a state is reached once, and from then on on cheaper and  *)
(* cheaper paths only; and what A* adds: it takes open states in order,    *)
(* closes one when all its successors are covered, and answers when no     *)
(* open state could be part of a cheaper plan.  A path is kept as one      *)
(* parent and one operator for each state, and parents are replaced while  *)
(* others descend from them.  A thorough search looks at every successor   *)
(* of a state it closes, now or when the edge to it leaves the open list.  *)
(*                                                                         *)
(* problem is what is searched: arcs gives the <<operator, successor>> of  *)
(* each state, price the cost a search adds for an operator, estimates     *)
(* what the evaluator may say of a state, infinity that there is no plan.  *)
(* exact: prices are what operators cost, so the bound is one of prices;   *)
(* reopens: closed states are opened again; astar: the search is A*.  A    *)
(* plan is a sequence of stations: the operator that leads to a state, the *)
(* state, and the cost so far.                                             *)
(***************************************************************************)
EXTENDS Integers, Sequences

VARIABLES
    problem,    \* [initial, goals, arcs, price, estimates, infinity, bound,
                \* exact, reopens, thorough, astar]
    nodes,      \* for each state reached: [status, g, parent, op]
    pending,    \* <<state, operator>>: edges a lazy algorithm has yet to follow
    status,     \* of the search algorithm
    answers     \* the plan found, if any: a set

spaceVars == <<problem, nodes, pending, status, answers>>

NoOperator == 0

States(p) == DOMAIN p.arcs
Operators(p) == DOMAIN p.price

Node(p) == [status : {"open", "closed", "dead end"}, g : Nat, parent : States(p),
            op : Operators(p) \cup {NoOperator}]
Station(p) == [op : Operators(p) \cup {NoOperator}, at : States(p), cost : Nat]

IsProblem(p) ==
    /\ p.initial \in States(p) /\ p.goals \subseteq States(p)
    /\ p.arcs \in [States(p) -> SUBSET (Operators(p) \X States(p))]
    /\ p.price \in [Operators(p) -> Nat] /\ NoOperator \notin Operators(p)
    /\ p.estimates \in [States(p) -> SUBSET Nat]
    /\ p.infinity \in Nat /\ p.bound \in Nat /\ p.bound <= p.infinity
    /\ p.exact \in BOOLEAN /\ p.reopens \in BOOLEAN
    /\ p.thorough \in BOOLEAN /\ p.astar \in BOOLEAN
    /\ p.astar => p.thorough /\ p.reopens

(* the evaluator says that no plan starts here                             *)
Lost(p, s) == p.infinity \in p.estimates[s]

Nothing == [s \in {} |-> s]

Root(p, state) == [s \in {p.initial} |->
                      [status |-> state, g |-> 0, parent |-> p.initial, op |-> NoOperator]]

-----------------------------------------------------------------------------
(* A step takes the nodes from now to next.                                *)

(* the path on which a state is known                                      *)
SamePath(now, next, s) ==
    /\ s \in DOMAIN now
    /\ next[s].g = now[s].g /\ next[s].parent = now[s].parent /\ next[s].op = now[s].op

(* update_parent: a first path or a cheaper one, by an arc from a state,   *)
(* and below the bound                                                     *)
NewPath(p, now, next, from, s) ==
    /\ <<next[s].op, s>> \in p.arcs[from]
    /\ next[s].parent = from
    /\ next[s].g = now[from].g + p.price[next[s].op]
    /\ s \in DOMAIN now => next[s].g < now[s].g
    /\ p.exact => next[s].g < p.bound

(* states are reached on an arc from one state, or their status changes    *)
StepFrom(p, now, next, from) ==
    /\ from \in DOMAIN now
    /\ \A s \in DOMAIN next : SamePath(now, next, s) \/ NewPath(p, now, next, from, s)

(* a state that need not be looked for at this cost                        *)
Covered(p, space, s, cost) ==
    (s \in DOMAIN space /\ (p.reopens => space[s].g <= cost)) \/ Lost(p, s)

(* all successors are covered or left for later; one that opens states     *)
(* again does without those beyond the bound                               *)
Expanded(p, space, edges, s) ==
    \A arc \in p.arcs[s] :
        LET cost == space[s].g + p.price[arc[1]]
        IN  \/ Covered(p, space, arc[2], cost) \/ <<s, arc[1]>> \in edges
            \/ p.reopens /\ cost >= p.bound

Expands(p, now, next) ==
    /\ DOMAIN now \subseteq DOMAIN next /\ DOMAIN next \subseteq States(p)
    /\ next \in [DOMAIN next -> Node(p)]
    /\ \E from \in DOMAIN now : StepFrom(p, now, next, from)

(* trace_path: from a state back to one that no operator has created       *)
Traced(p, q, space) ==
    /\ q \in Seq(Station(p)) /\ q # <<>>
    /\ q[1].op = NoOperator /\ q[1].cost = 0
    /\ \A i \in DOMAIN q : q[i].at \in DOMAIN space /\ q[i].op = space[q[i].at].op
    /\ \A i \in 2..Len(q) :
         /\ q[i].op # NoOperator
         /\ q[i - 1].at = space[q[i].at].parent
         /\ q[i].cost = q[i - 1].cost + p.price[q[i].op]

End(q) == q[Len(q)]

(* A* takes an open state, by what it has cost and the evaluator says; the *)
(* evaluator may be asked again and say something else (Reevaluate)        *)
TakenInOrder(p, now, s) ==
    /\ s \in DOMAIN now /\ now[s].status = "open"
    /\ \E y \in p.estimates[s] : \A o \in DOMAIN now : now[o].status = "open" =>
         \E x \in p.estimates[o] : now[s].g + y <= now[o].g + x

(* what a step of a thorough search leaves of a state                      *)
Treated(p, next, edges, s) ==
    \/ next[s].status = "open"
    \/ next[s].status = "dead end" /\ Lost(p, s)
    \/ next[s].status = "closed" /\ s \notin p.goals /\ Expanded(p, next, edges, s)

(* an edge that is no longer pending leads to a state that is covered      *)
Followed(p, next, edge) ==
    \A arc \in p.arcs[edge[1]] :
        arc[1] = edge[2] => Covered(p, next, arc[2], next[edge[1]].g + p.price[arc[1]])

ThoroughStep(p, now, next, before, after) ==
    /\ \A s \in DOMAIN next : (s \in DOMAIN now /\ next[s] = now[s]) \/ Treated(p, next, after, s)
    /\ \A edge \in before \ after : Followed(p, next, edge)

(* nothing is left to be looked at                                         *)
Exhausted(p, next, edges) ==
    /\ edges = {} /\ \A s \in DOMAIN next : next[s].status = "open" => Lost(p, s)
    /\ next = Nothing => Lost(p, p.initial)

(* what a step of A* does to each node: the state taken is closed, and     *)
(* what it reaches on a new path is open                                   *)
AStarStep(p, now, next) ==
    \E from \in DOMAIN now : \A s \in DOMAIN next :
        \/ s \in DOMAIN now /\ next[s] = now[s]
        \/ SamePath(now, next, s) /\ now[s].status = "open" /\ next[s].status = "dead end"
        \/ /\ TakenInOrder(p, now, from)
           /\ \/ NewPath(p, now, next, from, s) /\ next[s].status = "open"
              \/ s = from /\ SamePath(now, next, s) /\ next[s].status = "closed"

(* the plan found at a goal                                                *)
Finds(p, now, next, q) ==
    /\ Traced(p, q, next) /\ End(q).at \in p.goals
    /\ p.astar => TakenInOrder(p, now, End(q).at) /\ SamePath(now, next, End(q).at)

-----------------------------------------------------------------------------
(* A search starts, alone or as a phase of an iterated search: the initial *)
(* state is open, or a dead end, or still to be evaluated.                 *)
Started(p, n, edges, found) ==
    /\ n = Nothing \/ n = Root(p, "open")
    /\ p.thorough /\ n = Nothing => Lost(p, p.initial) \/ edges # {}
    /\ p.astar => edges = {}
    /\ found = {}
    /\ IsProblem(p)

FirstStatus == {"NONE", "IN_PROGRESS", "UNSOLVABLE", "UNSOLVED_INCOMPLETE"}

Init == Started(problem, nodes, pending, answers) /\ status \in FirstStatus

Start ==
    /\ status # "IN_PROGRESS"
    /\ Started(problem', nodes', pending', answers') /\ status' \in FirstStatus

(* a thorough search gives up when nothing is left                         *)
GoesOn(p, next, edges) ==
    \/ status' = "IN_PROGRESS"
    \/ status' = "FAILED" /\ (p.thorough => Exhausted(p, next, edges))

(* a lazy algorithm opens the initial state when it evaluates it           *)
OpenInitial ==
    /\ status = "IN_PROGRESS" /\ nodes = Nothing /\ ~problem.astar
    /\ \E state \in {"open", "closed", "dead end"} : nodes' = Root(problem, state)
    /\ \E p \in {problem}, next \in {nodes'}, before \in {pending}, after \in {pending'} :
         \/ /\ answers' = {}
            /\ p.thorough => ThoroughStep(p, Nothing, next, before, after)
            /\ GoesOn(p, next, after)
         \/ \E q \in answers' : answers' = {q} /\ Finds(p, Nothing, next, q) /\ status' = "SOLVED"
    /\ UNCHANGED problem

(* states are reached, opened, reopened and closed, edges are followed     *)
Advance ==
    /\ status = "IN_PROGRESS"
    /\ UNCHANGED <<problem, answers>>
    /\ \E p \in {problem}, now \in {nodes}, next \in {nodes'},
          before \in {pending}, after \in {pending'} :
         /\ Expands(p, now, next)
         /\ p.thorough => ThoroughStep(p, now, next, before, after)
         /\ p.astar => AStarStep(p, now, next) /\ after = {}
         /\ GoesOn(p, next, after)

(* a goal is found, by a lazy algorithm in the step that reaches it        *)
Solve ==
    /\ status = "IN_PROGRESS"
    /\ status' = "SOLVED"
    /\ UNCHANGED problem
    /\ answers' # {}
    /\ \E p \in {problem}, now \in {nodes}, next \in {nodes'} :
         /\ Expands(p, now, next)
         /\ \A q \in answers' : Finds(p, now, next, q)

GiveUp ==
    /\ status = "IN_PROGRESS" /\ status' = "FAILED"
    /\ pending' = {}
    /\ problem.thorough =>
         /\ Exhausted(problem, nodes, {})
         /\ \A edge \in pending : Followed(problem, nodes, edge)
    /\ UNCHANGED <<problem, nodes, answers>>

TimeOut ==
    /\ status' = "TIMEOUT"
    /\ UNCHANGED <<problem, nodes, answers>>

Next == OpenInitial \/ Advance \/ Solve \/ GiveUp \/ TimeOut \/ Start

Spec == Init /\ [][Next]_spaceVars
=============================================================================
