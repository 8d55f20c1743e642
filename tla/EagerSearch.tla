---------------------------- MODULE EagerSearch -----------------------------
(***************************************************************************)
(* Eager best-first search, A* among its instances: a state is evaluated   *)
(* when it is generated and goes to the open list; whoever leaves the list *)
(* first is closed and expanded.                                           *)
(***************************************************************************)
EXTENDS SearchAlgorithm

EagerStart(t, c) ==
    LET fresh == FreshStart(t)
        h == c.h[t.initial]
        new == [fresh.space EXCEPT !.nodes[1].h = h]
        ctx == [g |-> 0, h |-> h, preferred |-> TRUE, reliable |-> c.reliable]
    IN  IF IsDeadEnd(c.open, ctx)
        THEN [fresh EXCEPT !.space = new, !.open = c.open]
        ELSE [fresh EXCEPT !.space = OpenInitial(new, 1), !.lowest = h,
                           !.open = Insert(c.open, ctx, 1)]

(* a state not seen before                                                 *)
GenerateNew(acc, sp, ctx, parent, o, id) ==
    IF IsDeadEnd(acc.open, ctx)
    THEN [acc EXCEPT !.space = MarkAsDeadEnd(sp, id)]
    ELSE LET inserted == Insert(acc.open, ctx, id)
             progress == IsProgress(acc.lowest, ctx.h)
         IN  [space |-> OpenNewNode(sp, id, parent, o),
              open |-> IF progress THEN BoostPreferred(inserted) ELSE inserted,
              lowest |-> IF progress THEN ctx.h ELSE acc.lowest]

(* mutant: a state keeps the path it was first reached on                  *)
KeepsFirstPath(acc, sp, ctx, parent, o, id) == acc

(* a cheaper path to an open or a closed state                             *)
GenerateCheaper(acc, sp, ctx, parent, o, id) ==
    IF sp.nodes[id].status = "open"
    THEN [acc EXCEPT !.space = UpdateOpenNodeParent(sp, id, parent, o),
                     !.open = Insert(@, ctx, id)]
    ELSE IF config.reopen
    THEN [acc EXCEPT !.space = ReopenClosedNode(sp, id, parent, o),
                     !.open = Insert(@, ctx, id)]
    ELSE [acc EXCEPT !.space = UpdateClosedNodeParent(acc.space, id, parent, o)]

(* mutant: a path that costs as much as the bound is followed              *)
GenerateAtBound(acc, parent, o) ==
    LET op == task.operators[o]
        succ == Successor(task, acc.space.states[parent], op)
        id == IdOf(acc.space, succ)
        sp == Registered(acc.space, succ)
        ctx == Context(acc.space.nodes[parent].g + AdjustedCost(op), Estimate(sp, id), FALSE)
    IN  IF acc.space.nodes[parent].realG + op.cost > config.bound \/ sp.nodes[id].status # "new"
        THEN acc ELSE GenerateNew(acc, Evaluated(sp, id), ctx, parent, o, id)

(* what the expansion of parent does with its successor by operator o      *)
Generate(acc, parent, o) ==
    LET op == task.operators[o]
        node == acc.space.nodes[parent]
        succ == Successor(task, acc.space.states[parent], op)
        id == IdOf(acc.space, succ)
        sp == Registered(acc.space, succ)
        g == node.g + AdjustedCost(op)
        ctx == Context(g, Estimate(sp, id), IsPreferred(acc.space.states[parent], o))
    IN  IF node.realG + op.cost >= config.bound THEN acc
        ELSE IF sp.nodes[id].status = "new"
        THEN GenerateNew(acc, Evaluated(sp, id), ctx, parent, o, id)
        ELSE IF sp.nodes[id].status # "dead end" /\ sp.nodes[id].g > g
        THEN GenerateCheaper(acc, Evaluated(sp, id), ctx, parent, o, id)
        ELSE acc

(* Pruning; limited pruning is switched off for good if, at its call of a  *)
(* given number, less than a percentage of the operators have been pruned. *)
(* p: the calls, the operators before and after them, and whether it is off *)

Unlimited == [calls |-> 0, percent |-> 0]

TooFewPruned(p) == p.before > 0 /\ 100 * (p.before - p.after) < config.limit.percent * p.before

Remaining(p, s) == IF p.off THEN config.successors[s] ELSE config.remaining[s]

AfterPruningIn(p, s) ==
    IF config.limit = Unlimited THEN p
    ELSE [calls |-> IF p.off THEN p.calls ELSE p.calls + 1,
          before |-> p.before + Len(config.successors[s]),
          after |-> p.after + Len(Remaining(p, s)),
          off |-> p.off \/ (p.calls = config.limit.calls /\ TooFewPruned(p))]

(* an entry of the open list that has been closed since, or is a dead end  *)
SkipStale ==
    \E r \in Removals(open) :
        /\ \/ space.nodes[r.entry].status = "closed"
           \/ config.lazy /\ space.nodes[r.entry].status = "dead end"
        /\ open' = r.rest
        /\ UNCHANGED <<task, config, space, lowest, current, status, plan>>

(* the lazy evaluator has changed its mind about the state: back to the    *)
(* list with the new estimate, or out of the search                        *)
Reevaluate ==
    \E r \in Removals(open) :
        LET id == r.entry
            ctx == Context(space.nodes[id].g, Estimate(space, id), FALSE)
            sp == Evaluated(space, id)
        IN  /\ config.lazy
            /\ space.nodes[id].status = "open"
            /\ ctx.h # space.nodes[id].h
            /\ IF IsDeadEnd(open, ctx)
               THEN space' = MarkAsDeadEnd(sp, id) /\ open' = r.rest
               ELSE space' = sp /\ open' = Insert(r.rest, ctx, id)
            /\ UNCHANGED <<task, config, lowest, current, status, plan>>

Expand ==
    \E r \in Removals(open) :
        LET id == r.entry
            closed == Close(space, id)
            s == space.states[id]
            start == [space |-> [closed EXCEPT !.pruning = AfterPruningIn(@, s)],
                      open |-> r.rest, lowest |-> lowest]
            done == FoldLeft(LAMBDA acc, o : Generate(acc, id, o), start,
                             Remaining(space.pruning, s))
        IN  /\ space.nodes[id].status = "open"
            /\ config.lazy => Estimate(space, id) = space.nodes[id].h
            /\ CheckGoalAndSetPlan(space, id)
            /\ IF status' = "SOLVED"
               THEN space' = closed /\ open' = r.rest /\ UNCHANGED lowest
               ELSE space' = done.space /\ open' = done.open /\ lowest' = done.lowest
            /\ UNCHANGED <<task, config, current>>

EagerStep ==
    /\ status = "IN_PROGRESS"
    /\ \/ IsEmpty(open) /\ GiveUp
       \/ ~IsEmpty(open) /\ (SkipStale \/ Reevaluate \/ Expand)

EagerNext == EagerStep \/ Timeout
=============================================================================
