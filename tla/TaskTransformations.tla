------------------------ MODULE TaskTransformations -------------------------
(***************************************************************************)
(* Tasks derived from a task: with other costs, other goals, fewer values  *)
(* per variable, and with axioms that say how a derived variable gets its  *)
(* default value, which heuristics need that ignore negation.              *)
(***************************************************************************)
EXTENDS PlanningTask, GraphAlgorithms

AdjustedActionCost(op, costType, unitCost) ==
    CASE costType = "normal" -> op.cost
      [] costType = "one" -> 1
      [] costType = "plusone" -> IF unitCost THEN 1 ELSE op.cost + 1

CostAdapted(t, costType) ==
    [t EXCEPT !.operators = [o \in DOMAIN @ |->
        [@[o] EXCEPT !.cost = AdjustedActionCost(t.operators[o], costType, IsUnitCost(t))]]]

ModifiedOperatorCosts(t, costs) ==
    [t EXCEPT !.operators = [o \in DOMAIN @ |-> [@[o] EXCEPT !.cost = costs[o]]]]

ModifiedGoals(t, goals) == [t EXCEPT !.goals = goals]

-----------------------------------------------------------------------------
(* Domain abstraction: the values of each group of a variable become one,  *)
(* behind those that stay single; groups is a sequence of sets.            *)

ValueMap(t, v, groups) ==
    LET single == Values(t, v) \ UNION ToSet(groups)
    IN  [value \in Values(t, v) |->
            IF value \in single THEN Cardinality({u \in single : u < value})
            ELSE Cardinality(single) + (CHOOSE i \in DOMAIN groups : value \in groups[i]) - 1]

AbstractFact(maps, f) == <<f[1], maps[f[1]][f[2]]>>

(* mutant: preconditions keep their values                                 *)
AbstractsEffectsOnly(t, groups) ==
    LET maps == [v \in Vars(t) |-> ValueMap(t, v, groups[v])]
    IN  [t EXCEPT
            !.sizes = [v \in Vars(t) |-> Cardinality({maps[v][d] : d \in Values(t, v)})],
            !.initial = [v \in Vars(t) |-> maps[v][t.initial[v]]],
            !.goals = [g \in DOMAIN t.goals |-> AbstractFact(maps, t.goals[g])],
            !.operators = [o \in DOMAIN t.operators |->
                [t.operators[o] EXCEPT
                    !.effects = [e \in DOMAIN @ |->
                        [fact |-> AbstractFact(maps, @[e].fact), conditions |-> {}]]]]]

Abstracted(t, groups) ==
    LET maps == [v \in Vars(t) |-> ValueMap(t, v, groups[v])]
        facts(F) == {AbstractFact(maps, f) : f \in F}
    IN  [t EXCEPT
            !.sizes = [v \in Vars(t) |-> Cardinality({maps[v][d] : d \in Values(t, v)})],
            !.initial = [v \in Vars(t) |-> maps[v][t.initial[v]]],
            !.goals = [g \in DOMAIN t.goals |-> AbstractFact(maps, t.goals[g])],
            !.mutexes = {},
            !.operators = [o \in DOMAIN t.operators |->
                [t.operators[o] EXCEPT
                    !.preconditions = facts(@),
                    !.effects = [e \in DOMAIN @ |->
                        [fact |-> AbstractFact(maps, @[e].fact), conditions |-> {}]]]]]

ConvertState(t, groups, s) == [v \in Vars(t) |-> ValueMap(t, v, groups[v])[s[v]]]

-----------------------------------------------------------------------------
(* Default value axioms.  A literal <<v, TRUE>> stands for the default     *)
(* value of the derived variable v, <<v, FALSE>> for the other one.        *)

HasDefault(t, f) == f[2] = t.defaults[f[1]]

(* derived variables in the bodies of the axioms for v                     *)
Dependencies(t, v, default) ==
    {f[1] : f \in {f \in UNION {r.conditions : r \in {r \in ToSet(t.axioms) : r.fact[1] = v}} :
                       IsDerived(t, f[1]) /\ HasDefault(t, f) = default}}

OnCycle(t, v) ==
    LET graph == [u \in Vars(t) |-> Ascending(Dependencies(t, u, FALSE))]
    IN  \E c \in ToSet(MaximalSccs(graph)) : v \in ToSet(c) /\ Len(c) > 1

(* no body worth having: the default value is taken to be free             *)
Approximated(t, handling, v) == handling = "approximate_negative" \/ OnCycle(t, v)

NeededLiterals(t, handling) ==
    LET asked == ToSet(t.goals) \cup UNION {op.preconditions \cup
                     UNION {e.conditions : e \in ToSet(op.effects)} : op \in ToSet(t.operators)}
        start == {<<f[1], HasDefault(t, f)>> : f \in {f \in asked : IsDerived(t, f[1])}}
        below(n) ==
            IF n[2] /\ Approximated(t, handling, n[1]) THEN {}
            ELSE {<<u, n[2]>> : u \in Dependencies(t, n[1], FALSE)} \cup
                 {<<u, ~n[2]>> : u \in Dependencies(t, n[1], TRUE)}
    IN  Fixpoint(LAMBDA N : N \cup UNION {below(n) : n \in N}, start)

VarsWithRelevantDefaultValue(t, handling) ==
    {n[1] : n \in {n \in NeededLiterals(t, handling) : n[2]}}

(* a fact out of every set, of different variables, none of them for       *)
(* nothing                                                                 *)
RECURSIVE HittingSets(_, _, _)
HittingSets(sets, i, chosen) ==
    IF i > Len(sets)
    THEN {c \in {chosen} : \A f \in c : \E j \in DOMAIN sets : sets[j] \cap c = {f}}
    ELSE IF sets[i] \cap chosen # {} THEN HittingSets(sets, i + 1, chosen)
    ELSE UNION {HittingSets(sets, i + 1, chosen \cup {f}) :
                    f \in {f \in sets[i] : \A c \in chosen : c[1] # f[1]}}

DefaultAxiom(t, v, body) ==
    [fact |-> <<v, t.defaults[v]>>, conditions |-> body, preconditions |-> {<<v, 1 - t.defaults[v]>>}]

(* how all the axioms of v can fail at once                                *)
DefaultValueAxioms(t, v) ==
    LET bodies == SelectSeq(t.axioms, LAMBDA r : r.fact[1] = v)
        fails(r) == UNION {{<<f[1], d>> : d \in Values(t, f[1]) \ {f[2]}} : f \in r.conditions}
    IN  {DefaultAxiom(t, v, c) :
            c \in HittingSets([i \in DOMAIN bodies |-> fails(bodies[i])], 1, {})}

DefaultValueAxiomsTask(t, handling) ==
    LET new(v) == IF Approximated(t, handling, v)
                  THEN {DefaultAxiom(t, v, {})}
                  ELSE DefaultValueAxioms(t, v)
    IN  IF HasAxioms(t)
        THEN [t EXCEPT !.axioms = @ \o Listed(UNION {new(v) :
                 v \in VarsWithRelevantDefaultValue(t, handling)})]
        ELSE t
=============================================================================
