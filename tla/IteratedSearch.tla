--------------------------- MODULE IteratedSearch ---------------------------
(***************************************************************************)
(* Iterated search runs one search algorithm after the other, each with    *)
(* the cost of the best plan so far as its bound.  outer is its own state; *)
(* a single search is an outer search with one phase.                      *)
(***************************************************************************)
EXTENDS EagerSearch, LazySearch

VARIABLE outer

iteratedVars == <<searchVars, outer>>

Start(t, c) == CASE c.algorithm = "eager" -> EagerStart(t, c)
                 [] c.algorithm = "lazy" -> LazyStart(t, c)
                 [] c.algorithm = "ehc" -> EhcStart(t, c)

(* flags: repeatLast, passBound, continueOnFail, continueOnSolve           *)
IteratedInit(t, configs, flags, bound) ==
    /\ outer = [configs |-> configs, flags |-> flags, phase |-> 1, best |-> bound,
                found |-> FALSE, lastFound |-> FALSE, plan |-> NoPlan, saved |-> <<>>,
                status |-> "IN_PROGRESS"]
    /\ LET first == [configs[1] EXCEPT
                        !.bound = IF flags.passBound THEN Min({@, bound}) ELSE @]
       IN  Begin(t, first, Start(t, first))

InnerStep ==
    /\ outer.status = "IN_PROGRESS"
    /\ \/ config.algorithm = "eager" /\ EagerNext
       \/ config.algorithm = "lazy" /\ LazyNext
       \/ config.algorithm = "ehc" /\ EhcNext
    /\ UNCHANGED outer

(* the phases are counted up to the one after the last                     *)
NextPhase(o) == Min({o.phase + 1, Len(o.configs) + 1})

(* the phase that is over: what it has found is saved if it is better      *)
AfterPhase ==
    LET found == plan # NoPlan
        cost == Executed(plan).cost
        better == found /\ cost < outer.best
        note == [outer EXCEPT !.lastFound = found, !.found = @ \/ found, !.phase = NextPhase(outer)]
    IN  IF better
        THEN [note EXCEPT !.plan = plan, !.best = cost, !.saved = Append(@, plan)]
        ELSE note

StepReturnValue(o) ==
    IF o.lastFound
    THEN IF o.flags.continueOnSolve THEN "IN_PROGRESS" ELSE "SOLVED"
    ELSE IF o.flags.continueOnFail THEN "IN_PROGRESS"
    ELSE IF o.found THEN "SOLVED" ELSE "FAILED"

(* mutant: the last phase is repeated although it found nothing            *)
HasPhaseForEver(o) == o.phase <= Len(o.configs) \/ o.flags.repeatLast

HasPhase(o) == o.phase <= Len(o.configs) \/ (o.flags.repeatLast /\ o.lastFound)

PhaseConfig(o) ==
    LET c == o.configs[Min({o.phase, Len(o.configs)})]
    IN  IF o.flags.passBound /\ o.best < c.bound THEN [c EXCEPT !.bound = o.best] ELSE c

(* without another phase the answer is SOLVED if any plan was kept         *)
PhaseOver ==
    LET after == AfterPhase
        next == StepReturnValue(after)
        c == PhaseConfig(after)
    IN  /\ outer.status = "IN_PROGRESS"
        /\ status \in {"SOLVED", "FAILED", "TIMEOUT"}
        /\ IF next = "IN_PROGRESS" /\ HasPhase(after)
           THEN outer' = after /\ BeginNext(c, Start(task, c))
           ELSE /\ outer' = [after EXCEPT !.status =
                      IF next # "IN_PROGRESS" THEN next
                      ELSE IF after.plan # NoPlan THEN "SOLVED" ELSE "FAILED"]
                /\ UNCHANGED searchVars

IteratedNext == InnerStep \/ PhaseOver
=============================================================================
