-------------------------- MODULE SearchAlgorithm ---------------------------
(***************************************************************************)
(* What the search algorithms of Fast Downward share: the registry of the  *)
(* states reached, the node of each (how it was reached and at what cost), *)
(* the evaluation of a state, and the plan that is traced back.  A state's *)
(* id is its place in the registry.                                        *)
(*                                                                         *)
(* config is one configuration: the open list, reopening, the bound, the   *)
(* treatment of costs, and the tables of its evaluator and of what it is   *)
(* asked: h (an estimate per state), again (the estimate when a state is   *)
(* evaluated once more, by an evaluator that learns), preferred (the       *)
(* preferred operators of a state, in order), successors (what the         *)
(* successor generator yields, in order) and remaining (what the pruning   *)
(* method leaves of it).                                                   *)
(***************************************************************************)
EXTENDS OpenLists

VARIABLES
    task, config,
    space,      \* [states, nodes, pruning]: the registry and the nodes, by
                \* id, and what the pruning method has counted
    open,       \* the open list
    lowest,     \* the lowest estimate so far, or -1 (SearchProgress)
    current,    \* what a lazy algorithm is about to evaluate
    status,     \* IN_PROGRESS, SOLVED, FAILED or TIMEOUT
    plan        \* the operators of the plan found, or NoPlan

searchVars == <<task, config, space, open, lowest, current, status, plan>>

NoPlan == <<0>>
NoState == 0
NoOperator == 0
NoValue == -1

AdjustedCost(op) ==
    CASE config.costType = "normal" -> op.cost
      [] config.costType = "one" -> 1
      [] config.costType = "plusone" -> IF IsUnitCost(task) THEN 1 ELSE op.cost + 1

-----------------------------------------------------------------------------
(* Registry and search nodes                                               *)

(* h is the evaluator's cached estimate of the state                       *)
NewNode == [status |-> "new", g |-> -1, realG |-> -1, parent |-> NoState,
            creator |-> NoOperator, h |-> NoValue]

IdOf(sp, s) == IF \E i \in DOMAIN sp.states : sp.states[i] = s
               THEN CHOOSE i \in DOMAIN sp.states : sp.states[i] = s
               ELSE Len(sp.states) + 1

Registered(sp, s) ==
    IF IdOf(sp, s) \in DOMAIN sp.states THEN sp
    ELSE [sp EXCEPT !.states = Append(@, s), !.nodes = Append(@, NewNode)]

OpenInitial(sp, id) ==
    [sp EXCEPT !.nodes[id] = [@ EXCEPT !.status = "open", !.g = 0, !.realG = 0]]

Reached(sp, id, parent, o, state) ==
    LET op == task.operators[o]
    IN  [sp EXCEPT !.nodes[id] =
            [@ EXCEPT !.status = state, !.parent = parent, !.creator = o,
                      !.g = sp.nodes[parent].g + AdjustedCost(op),
                      !.realG = sp.nodes[parent].realG + op.cost]]

OpenNewNode(sp, id, parent, o) == Reached(sp, id, parent, o, "open")
ReopenClosedNode(sp, id, parent, o) == Reached(sp, id, parent, o, "open")
UpdateOpenNodeParent(sp, id, parent, o) == Reached(sp, id, parent, o, "open")
UpdateClosedNodeParent(sp, id, parent, o) == Reached(sp, id, parent, o, "closed")

Close(sp, id) == [sp EXCEPT !.nodes[id].status = "closed"]
MarkAsDeadEnd(sp, id) == [sp EXCEPT !.nodes[id].status = "dead end"]

(* from a state back along the parents to one that has no creator          *)
TracePath(sp, id) ==
    LET back == FoldLeft(LAMBDA p, i : IF sp.nodes[p.at].creator = NoOperator THEN p
                             ELSE [at |-> sp.nodes[p.at].parent,
                                   plan |-> <<sp.nodes[p.at].creator>> \o p.plan],
                         [at |-> id, plan |-> <<>>], sp.states)
    IN  back.plan

-----------------------------------------------------------------------------
(* Evaluation                                                              *)

Estimate(sp, id) ==
    IF sp.nodes[id].h = NoValue THEN config.h[sp.states[id]] ELSE config.again[sp.states[id]]

Evaluated(sp, id) == [sp EXCEPT !.nodes[id].h = Estimate(sp, id)]

IsPreferred(s, o) == Contains(config.preferred[s], o)

Context(g, h, preferred) ==
    [g |-> g, h |-> h, preferred |-> preferred, reliable |-> config.reliable]

(* a first value and a lower one are progress, and boost                   *)
IsProgress(low, h) == low = -1 \/ h < low

-----------------------------------------------------------------------------
(* The state a search algorithm is in after initialize(): start is what    *)
(* differs from one algorithm to the other.                                *)
FreshStart(t) ==
    [space |-> [states |-> <<t.initial>>, nodes |-> <<NewNode>>,
                pruning |-> [calls |-> 0, before |-> 0, after |-> 0, off |-> FALSE]],
     open |-> NoBuckets, lowest |-> NoValue, current |-> NoState,
     status |-> "IN_PROGRESS", plan |-> NoPlan]

Begin(t, c, start) ==
    /\ task = t /\ config = c
    /\ space = start.space /\ open = start.open /\ lowest = start.lowest
    /\ current = start.current /\ status = start.status /\ plan = start.plan

BeginNext(c, start) ==
    /\ UNCHANGED task /\ config' = c
    /\ space' = start.space /\ open' = start.open /\ lowest' = start.lowest
    /\ current' = start.current /\ status' = start.status /\ plan' = start.plan

SetPlan(sp, id) == status' = "SOLVED" /\ plan' = TracePath(sp, id)

CheckGoalAndSetPlan(sp, id) ==
    IF IsGoal(task, sp.states[id])
    THEN SetPlan(sp, id)
    ELSE status' = "IN_PROGRESS" /\ UNCHANGED plan

GiveUp == status' = "FAILED" /\ UNCHANGED <<task, config, space, open, lowest, current, plan>>

(* search() looks at the clock after every step, the last one included:    *)
(* a plan that has been found stays found                                  *)
Timeout ==
    /\ status \in {"IN_PROGRESS", "SOLVED", "FAILED"}
    /\ config.maxTime
    /\ status' = "TIMEOUT"
    /\ UNCHANGED <<task, config, space, open, lowest, current, plan>>

-----------------------------------------------------------------------------
(* References: what executing a plan leads to and costs                    *)

Executed(ops) ==
    FoldLeft(LAMBDA e, o :
                 [state |-> Successor(task, e.state, task.operators[o]),
                  cost |-> e.cost + task.operators[o].cost,
                  legal |-> e.legal /\ IsApplicable(task.operators[o], e.state)],
             [state |-> task.initial, cost |-> 0, legal |-> TRUE], ops)
=============================================================================
