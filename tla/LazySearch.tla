----------------------------- MODULE LazySearch -----------------------------
(***************************************************************************)
(* Lazy best-first search: the open list holds edges, and a state is       *)
(* evaluated when its edge leaves the list.  current is the edge at hand,  *)
(* with the cost of reaching its end.                                      *)
(***************************************************************************)
EXTENDS SearchAlgorithm

Edge(sp, from, o) ==
    LET op == task.operators[o]
    IN  [parent |-> from, op |-> o, state |-> Successor(task, sp.states[from], op),
         g |-> sp.nodes[from].g + AdjustedCost(op),
         realG |-> sp.nodes[from].realG + op.cost]

LazyStart(t, c) ==
    [FreshStart(t) EXCEPT
        !.open = c.open,
        !.current = [parent |-> NoState, op |-> NoOperator, state |-> t.initial,
                     g |-> 0, realG |-> 0]]

Shuffles(ops) == IF config.randomize THEN SetToSeqs(ToSet(ops)) ELSE {ops}

(* the orders in which the successors of a state may enter the list        *)
OperatorOrders(s) ==
    LET others(x) == SelectSeq(x, LAMBDA o : ~IsPreferred(s, o))
    IN  IF config.preferredFirst
        THEN {p \o others(x) : p \in Shuffles(config.preferred[s]),
                               x \in Shuffles(config.successors[s])}
        ELSE Shuffles(config.successors[s])

GenerateEdges(sp, id, list, ops) ==
    LET node == sp.nodes[id]
        s == sp.states[id]
        enter(l, o) ==
            LET op == task.operators[o]
            IN  IF node.realG + op.cost < config.bound
                THEN Insert(l, Context(node.g + AdjustedCost(op), config.h[s],
                                       IsPreferred(s, o)), <<id, o>>)
                ELSE l
    IN  FoldLeft(enter, list, ops)

(* fetch_next_state: the next edge; its end gets an id but no node yet     *)
FetchNext(sp, list) ==
    IF IsEmpty(list)
    THEN status' = "FAILED" /\ space' = sp /\ open' = list /\ UNCHANGED <<current, plan>>
    ELSE \E r \in Removals(list) :
            LET edge == Edge(sp, r.entry[1], r.entry[2])
            IN  /\ current' = edge
                /\ space' = Registered(sp, edge.state)
                /\ open' = r.rest
                /\ UNCHANGED <<status, plan>>

Reopens(node) ==
    config.reopen /\ node.status \notin {"new", "dead end"} /\ current.g < node.g

LazySkip ==
    LET node == space.nodes[IdOf(space, current.state)]
    IN  /\ node.status # "new" /\ ~Reopens(node)
        /\ FetchNext(space, open)
        /\ UNCHANGED lowest

(* The value of the initial state is never rewarded: when progress is      *)
(* checked to boost the lists, it has been recorded already.               *)
LazyEvaluate ==
    LET id == IdOf(space, current.state)
        node == space.nodes[id]
        ctx == Context(current.g, config.h[current.state], TRUE)
        opened == IF current.parent = NoState THEN OpenInitial(space, id)
                  ELSE IF Reopens(node) THEN ReopenClosedNode(space, id, current.parent, current.op)
                  ELSE OpenNewNode(space, id, current.parent, current.op)
        closed == Close(opened, id)
        progress == IsProgress(lowest, ctx.h)
        list == IF progress /\ current.parent # NoState THEN BoostPreferred(open) ELSE open
    IN  /\ node.status = "new" \/ Reopens(node)
        /\ IF IsDeadEnd(open, ctx)
           THEN FetchNext(MarkAsDeadEnd(space, id), open) /\ UNCHANGED lowest
           ELSE IF IsGoal(task, current.state)
           THEN /\ space' = closed
                /\ SetPlan(closed, id)
                /\ UNCHANGED <<open, current, lowest>>
           ELSE /\ lowest' = IF progress THEN ctx.h ELSE lowest
                /\ \E ops \in OperatorOrders(current.state) :
                      FetchNext(closed, GenerateEdges(closed, id, list, ops))

LazyStep ==
    /\ status = "IN_PROGRESS"
    /\ LazySkip \/ LazyEvaluate
    /\ UNCHANGED <<task, config>>

LazyNext == LazyStep \/ Timeout

-----------------------------------------------------------------------------
(* Enforced hill-climbing: from the current state a breadth-first search   *)
(* for a state with a lower estimate, which becomes the current one; what  *)
(* has been opened before is never looked at again.  current is            *)
(* [id, phase]: the state, and whether it is still to be expanded ("step") *)
(* or the search below it goes on ("ehc").                                 *)

EhcOpenList(c) ==
    IF ~c.usePreferred \/ c.prune THEN NewList("best first", <<"g">>, FALSE)
    ELSE NewList("tie-breaking", <<"g", "pref">>, TRUE)

DeadEndExit(c) == IF c.reliable THEN "UNSOLVABLE" ELSE "UNSOLVED_INCOMPLETE"

EhcStart(t, c) ==
    LET fresh == [FreshStart(t) EXCEPT !.open = EhcOpenList(c),
                                       !.current = [id |-> 1, phase |-> "step"]]
    IN  IF c.h[t.initial] = Infinity THEN [fresh EXCEPT !.status = DeadEndExit(c)]
        ELSE [fresh EXCEPT !.space = OpenInitial(@, 1)]

InsertSuccessor(sp, id, list, o) ==
    Insert(list, Context(sp.nodes[id].g + AdjustedCost(task.operators[o]),
                         config.h[sp.states[id]],
                         config.usePreferred /\ IsPreferred(sp.states[id], o)), <<id, o>>)

EhcExpanded(sp, id, list) ==
    LET s == sp.states[id]
        ops == IF config.usePreferred /\ config.prune THEN config.preferred[s]
               ELSE config.successors[s]
    IN  FoldLeft(LAMBDA l, o : InsertSuccessor(sp, id, l, o), list, ops)

(* a new current state: the goal test, and its expansion                   *)
EhcStep ==
    LET id == current.id
    IN  /\ current.phase = "step"
        /\ lowest' = IF IsProgress(lowest, config.h[space.states[id]])
                     THEN config.h[space.states[id]] ELSE lowest
        /\ CheckGoalAndSetPlan(space, id)
        /\ IF status' = "SOLVED" THEN UNCHANGED <<space, open, current>>
           ELSE /\ open' = EhcExpanded(space, id, open)
                /\ space' = Close(space, id)
                /\ current' = [current EXCEPT !.phase = "ehc"]

(* one edge of the breadth-first search                                    *)
EhcEdge(from, o, rest) ==
    LET op == task.operators[o]
        succ == Successor(task, space.states[from], op)
        id == IdOf(space, succ)
        sp == Registered(space, succ)
        opened == OpenNewNode(sp, id, from, o)
        h == config.h[succ]
    IN  IF space.nodes[from].realG + op.cost >= config.bound
        THEN open' = rest /\ UNCHANGED <<space, current>>
        ELSE IF sp.nodes[id].status # "new"
        THEN open' = rest /\ space' = sp /\ UNCHANGED current
        ELSE IF h = Infinity
        THEN open' = rest /\ space' = MarkAsDeadEnd(sp, id) /\ UNCHANGED current
        ELSE IF h < config.h[space.states[current.id]]
        THEN /\ open' = Clear(rest) /\ space' = opened
             /\ current' = [id |-> id, phase |-> "step"]
        ELSE /\ open' = EhcExpanded(opened, id, rest) /\ space' = Close(opened, id)
             /\ UNCHANGED current

EhcBelow ==
    /\ current.phase = "ehc"
    /\ IF IsEmpty(open)
       THEN status' = "FAILED" /\ UNCHANGED <<space, open, current>>
       ELSE /\ \E r \in Removals(open) : EhcEdge(r.entry[1], r.entry[2], r.rest)
            /\ UNCHANGED status
    /\ UNCHANGED <<lowest, plan>>

EhcNext ==
    \/ status = "IN_PROGRESS" /\ (EhcStep \/ EhcBelow) /\ UNCHANGED <<task, config>>
    \/ (status # "IN_PROGRESS" \/ current.phase = "step") /\ Timeout
=============================================================================
