---------------------------- MODULE LandmarkCuts ----------------------------
(***************************************************************************)
(* What LM-cut promises, whatever the order in which it explores facts and *)
(* breaks ties: each round finds a set of operators without one of which   *)
(* the goal is not reached, adds the price of the cheapest of them to the  *)
(* estimate and takes it off the price of each, until the goal costs       *)
(* nothing.  How h^max is computed, and repaired after a round, is left    *)
(* open: labels are what validate_h_max asks of it, and no more than that. *)
(*                                                                         *)
(* relaxed is the task as LM-cut sees it: an operator needs facts (at      *)
(* least one) and adds facts, and takes none away; the goal is one fact.   *)
(***************************************************************************)
EXTENDS Integers

VARIABLES
    relaxed,    \* [facts, needs, adds, base, goal, state]
    price,      \* what is left of the cost of each operator
    labels,     \* [reached, hmax, supporter]
    total       \* of the landmarks found

cutVars == <<relaxed, price, labels, total>>

RelaxedOps(r) == DOMAIN r.base

IsRelaxed(r) ==
    /\ r.needs \in [RelaxedOps(r) -> (SUBSET r.facts) \ {{}}]
    /\ r.adds \in [RelaxedOps(r) -> SUBSET r.facts]
    /\ r.base \in [RelaxedOps(r) -> Nat]
    /\ r.goal \in r.facts /\ r.state \subseteq r.facts

-----------------------------------------------------------------------------
(* First exploration: h^max and a supporter, a dearest one of the facts    *)
(* needed, for each operator that is reached.                              *)
Reachable(r, l) == {o \in RelaxedOps(r) : r.needs[o] \subseteq l.reached}

IsReached(r, l) ==
    /\ l.reached \subseteq r.facts /\ r.state \subseteq l.reached
    /\ \A o \in Reachable(r, l) : r.adds[o] \subseteq l.reached

SupportersRight(r, l) ==
    \A o \in Reachable(r, l) :
        /\ l.supporter[o] \in r.needs[o]
        /\ \A f \in r.needs[o] : l.hmax[f] <= l.hmax[l.supporter[o]]

(* no fact is dearer than an operator that adds it                         *)
NoneTooDear(r, w, l) ==
    /\ \A f \in r.state : l.hmax[f] = 0
    /\ \A o \in Reachable(r, l) : \A f \in r.adds[o] : l.hmax[f] <= l.hmax[l.supporter[o]] + w[o]

(* of other facts one is always first, reached at the price it has         *)
ReachedFirst(r, w, l, F, f, o) ==
    r.needs[o] \cap F = {} /\ f \in r.adds[o] /\ l.hmax[f] = l.hmax[l.supporter[o]] + w[o]

NoneTooCheap(r, w, l) ==
    \A F \in SUBSET (l.reached \ r.state) :
        F # {} => \E f \in F, o \in Reachable(r, l) : ReachedFirst(r, w, l, F, f, o)

IsLabelled(r, w, l) ==
    /\ IsReached(r, l)
    /\ l.hmax \in [l.reached -> Nat] /\ l.supporter \in [Reachable(r, l) -> l.reached]
    /\ SupportersRight(r, l) /\ NoneTooDear(r, w, l) /\ NoneTooCheap(r, w, l)

-----------------------------------------------------------------------------
(* mark_goal_plateau: the goal, and the supporters of what adds a fact of  *)
(* the zone at no price.                                                   *)
IsZone(r, w, l, Z) ==
    /\ r.goal \in Z
    /\ \A o \in Reachable(r, l) : w[o] = 0 /\ r.adds[o] \cap Z # {} => l.supporter[o] \in Z

GoalZone(r, w, l) == {f \in l.reached : \A Z \in SUBSET l.reached : IsZone(r, w, l, Z) => f \in Z}

(* second_exploration: the state, and what is added without getting into   *)
(* the goal zone by operators whose supporter is there                     *)
IsBefore(r, l, zone, B) ==
    /\ r.state \subseteq B
    /\ \A o \in Reachable(r, l) :
         l.supporter[o] \in B /\ r.adds[o] \cap zone = {} => r.adds[o] \subseteq B

BeforeGoalZone(r, l, zone) ==
    {f \in l.reached : \A B \in SUBSET l.reached : IsBefore(r, l, zone, B) => f \in B}

(* the operators between the two                                           *)
CutBetween(r, l, zone, before) ==
    {o \in Reachable(r, l) : l.supporter[o] \in before /\ r.adds[o] \cap zone # {}}

FoundCut(r, w, l) ==
    LET zone == GoalZone(r, w, l) IN CutBetween(r, l, zone, BeforeGoalZone(r, l, zone))

-----------------------------------------------------------------------------
Reduced(w, cut, m) == [o \in DOMAIN w |-> IF o \in cut THEN w[o] - m ELSE w[o]]

GoalReached(r, l) == r.goal \in l.reached

(* compute_landmarks starts                                                *)
Begins(r, w, l, sum) == IsRelaxed(r) /\ w = r.base /\ IsLabelled(r, w, l) /\ sum = 0

(* one landmark, its operators cheaper by m, and h^max anew                *)
Round(r, w, l, m, w2, l2) ==
    /\ GoalReached(r, l) /\ l.hmax[r.goal] # 0
    /\ \E cut \in {FoundCut(r, w, l)} :
         /\ \E o \in cut : m = w[o]
         /\ \A o \in cut : m <= w[o]
         /\ w2 = Reduced(w, cut, m)
    /\ IsLabelled(r, w2, l2)

CutInit == Begins(relaxed, price, labels, total)

(* the next state to be evaluated                                          *)
Evaluate == Begins(relaxed', price', labels', total')

FindCut ==
    /\ UNCHANGED relaxed
    /\ \E m \in {price[o] : o \in RelaxedOps(relaxed)} :
         total' = total + m /\ Round(relaxed, price, labels, m, price', labels')

CutNext == FindCut \/ Evaluate

CutSpec == CutInit /\ [][CutNext]_cutVars
=============================================================================
