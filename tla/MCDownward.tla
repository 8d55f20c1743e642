----------------------------- MODULE MCDownward -----------------------------
(***************************************************************************)
(* Six small tasks, the searches run on them, and the tables of estimates *)
(* the components compute for them.                                        *)
(***************************************************************************)
EXTENDS Downward, DownwardTables

(* Configurations; estimates are named                                     *)

Base ==
    [algorithm |-> "eager", open |-> AstarList, reopen |-> TRUE, bound |-> Infinity,
     costType |-> "normal", h |-> "blind", again |-> "blind", lazy |-> FALSE,
     reliable |-> FALSE, maxTime |-> FALSE, randomize |-> FALSE, preferredFirst |-> FALSE,
     usePreferred |-> FALSE, prune |-> FALSE, pruning |-> "null", limit |-> Unlimited]

With(h) == [Base EXCEPT !.h = h, !.again = h]
Eager(list, reopen, costType) ==
    [With("ff") EXCEPT !.open = list, !.reopen = reopen, !.costType = costType]
Lazy(list, reopen, costType) == [Eager(list, reopen, costType) EXCEPT !.algorithm = "lazy"]
Ehc(use, prune) ==
    [Eager(NoBuckets, FALSE, "normal") EXCEPT
        !.algorithm = "ehc", !.usePreferred = use, !.prune = prune]

SingleConfigs ==
    {Base, With("cut"), With("uneven"), [With("cut") EXCEPT !.maxTime = TRUE],
     [Base EXCEPT !.lazy = TRUE, !.again = "cut"],
     Eager(GreedyList(TRUE, 1000), FALSE, "one"),
     Eager(NewList("pareto", <<"h", "g">>, FALSE), FALSE, "normal"),
     [Lazy(GreedyList(TRUE, 1000), FALSE, "one") EXCEPT !.preferredFirst = TRUE],
     [Lazy(GreedyList(FALSE, 0), FALSE, "normal") EXCEPT !.randomize = TRUE],
     [Lazy(WastarList(2, TRUE, 1000), TRUE, "plusone") EXCEPT !.maxTime = TRUE],
     Ehc(FALSE, FALSE), Ehc(TRUE, FALSE),
     [Ehc(TRUE, TRUE) EXCEPT !.maxTime = TRUE]}

(* these choose at random; they are run on the smaller tasks               *)
RandomConfigs ==
    {Eager(NewList("epsilon-greedy", <<"h">>, FALSE), FALSE, "plusone"),
     Eager(NewList("type-based", <<"h", "g">>, FALSE), TRUE, "normal")}

(* only on tasks without axioms and conditional effects                    *)
PruningConfigs ==
    {[With("cut") EXCEPT !.pruning = "simple"], [With("uneven") EXCEPT !.pruning = "ec"],
     [Base EXCEPT !.pruning = "dynamicSmall"],
     [With("uneven") EXCEPT !.pruning = "quickSkip", !.limit = [calls |-> 2, percent |-> 40]]}

Anytime ==
    <<Lazy(GreedyList(TRUE, 1000), FALSE, "one"),
      Lazy(WastarList(2, FALSE, 0), TRUE, "normal"), Base>>

Flags(last, fail, solve) ==
    [repeatLast |-> last, passBound |-> TRUE, continueOnFail |-> fail, continueOnSolve |-> solve]

Bounds == {4, Infinity}

Single(i, c, b) ==
    [task |-> i, configs |-> <<[c EXCEPT !.bound = b]>>,
     flags |-> Flags(FALSE, FALSE, FALSE), bound |-> Infinity]

SimpleTasks == {i \in DOMAIN AllTasks : IsSimple(AllTasks[i])}

AllSearches ==
    {Single(i, c, b) : i \in DOMAIN AllTasks, c \in SingleConfigs, b \in Bounds}
    \cup {Single(i, c, Infinity) : i \in {3, 5}, c \in RandomConfigs}
    \cup {Single(i, c, b) : i \in SimpleTasks, c \in PruningConfigs, b \in Bounds}
    \cup {[task |-> i, configs |-> Anytime, flags |-> Flags(last, fail, TRUE), bound |-> b] :
             i \in DOMAIN AllTasks, last \in BOOLEAN, fail \in BOOLEAN, b \in Bounds}

(* one definition more than the tables need: TLC computes a definition     *)
(* once, the value of a substituted constant whenever it is used           *)
MCTasks == AllTasks
MCTrueCosts == AllCosts
MCEstimates == AllEstimates
MCSuccessors == AllSuccessors
MCArcs == AllArcs
MCPrunings == AllPrunings
MCImages == AllImages
MCPatterns == AllPatternResults
MCAbstractions == AllAbstractions
MCLandmarks == AllLandmarks
MCCuts == AllCuts
=============================================================================
