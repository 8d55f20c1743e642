------------------------------ MODULE PlanList ------------------------------
(***************************************************************************)
(* What a client of solution queries and jobs may rely on, without any     *)
(* cache: the plans of the selected plan space are numbered from 1; a      *)
(* single query gets the one plan with its number, a job the page from its *)
(* start to its number, and both get nothing where there is no plan.       *)
(***************************************************************************)
EXTENDS Naturals

CONSTANTS
    MaxPlans,       \* bound: plans of a plan space
    MaxSpaces,      \* bound: selections applied
    MaxNumber,      \* bound: the number asked for
    NoCount

VARIABLES
    total,      \* the plans of the selected plan space
    planSpace,  \* selection_revision, which numbers the plan spaces
    reply       \* the last answer: plans, and a count or NoCount

listVars == <<total, planSpace, reply>>

Numbers == 1..MaxNumber
Reply(plans, number) == [plans |-> plans, count |-> number]
Plan(space, n) == [space |-> space, number |-> n]
Page(first, last) == {Plan(planSpace, n) : n \in first..last}

ListInit ==
    /\ total \in 1..MaxPlans
    /\ planSpace = 0
    /\ reply = Reply({}, NoCount)

Select ==
    /\ planSpace < MaxSpaces
    /\ planSpace' = planSpace + 1
    /\ total' \in 1..MaxPlans
    /\ reply' = Reply({}, NoCount)

AskOne == \E n \in Numbers :
    /\ reply' = Reply(IF n <= total THEN {Plan(planSpace, n)} ELSE {}, NoCount)
    /\ UNCHANGED <<total, planSpace>>

AskPage == \E n \in Numbers : \E start \in 1..n :
    /\ reply' = Reply(Page(start, IF n <= total THEN n ELSE total), NoCount)
    /\ UNCHANGED <<total, planSpace>>

AskCount ==
    /\ reply' = Reply({}, total)
    /\ UNCHANGED <<total, planSpace>>

ListNext == Select \/ AskOne \/ AskPage \/ AskCount

ListSpec == ListInit /\ [][ListNext]_listVars
=============================================================================
