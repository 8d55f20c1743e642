------------------------- MODULE LandmarkCutsProofs -------------------------
(***************************************************************************)
(* Proofs about LM-cut, for every task: each round finds operators that    *)
(* cost something and without one of which the goal is not reached, so     *)
(* that the estimate never exceeds the cost of a plan; it is not below     *)
(* h^max either; and A* with it answers with a cheapest plan.              *)
(*                                                                         *)
(* A plan is any sequence of operators and of sets of facts, one after     *)
(* each, in which nothing holds that has not been added before: with       *)
(* delete effects or without.                                              *)
(***************************************************************************)
EXTENDS LandmarkCuts, SearchSpaceProofs

IsRelaxedPlan(r, q) ==
    /\ q.steps \in Nat
    /\ q.op \in [1..q.steps -> RelaxedOps(r)]
    /\ q.has \in [0..q.steps -> SUBSET r.facts]
    /\ q.has[0] \subseteq r.state /\ r.goal \in q.has[q.steps]
    /\ \A i \in 1..q.steps :
         /\ r.needs[q.op[i]] \subseteq q.has[i - 1]
         /\ q.has[i] \subseteq q.has[i - 1] \cup r.adds[q.op[i]]

(* c: what has been paid for its operators up to each step                 *)
Paid(q, w, c) ==
    /\ c \in [0..q.steps -> Nat] /\ c[0] = 0
    /\ \A i \in 1..q.steps : c[i] = c[i - 1] + w[q.op[i]]

-----------------------------------------------------------------------------
(* The goal zone and what comes before it                                  *)

(* The goal zone is one, and all of it is as dear as the goal: what is     *)
(* reached at that price or above is a zone too.                           *)
LEMMA ZoneIsDear ==
    ASSUME NEW r, IsRelaxed(r), NEW w \in [RelaxedOps(r) -> Nat], NEW l, IsLabelled(r, w, l),
           GoalReached(r, l)
    PROVE  /\ IsZone(r, w, l, GoalZone(r, w, l))
           /\ \A f \in GoalZone(r, w, l) : l.hmax[r.goal] <= l.hmax[f]
<1>1. IsReached(r, l) /\ l.hmax \in [l.reached -> Nat] /\ l.supporter \in [Reachable(r, l) -> l.reached]
      /\ NoneTooDear(r, w, l) /\ r.goal \in l.reached
  BY DEF IsLabelled, GoalReached
<1>2. IsZone(r, w, l, GoalZone(r, w, l))
  BY <1>1 DEF IsZone, GoalZone
<1> DEFINE Dear == {f \in l.reached : l.hmax[r.goal] <= l.hmax[f]}
<1>3. IsZone(r, w, l, Dear)
  <2>1. r.goal \in Dear
    BY <1>1
  <2>2. ASSUME NEW o \in Reachable(r, l), w[o] = 0, r.adds[o] \cap Dear # {}
        PROVE  l.supporter[o] \in Dear
    <3>1. PICK f \in r.adds[o] : f \in Dear
      BY <2>2
    <3>2. l.hmax[f] <= l.hmax[l.supporter[o]] + w[o]
      BY <1>1 DEF NoneTooDear
    <3>3. l.supporter[o] \in l.reached /\ l.hmax[l.supporter[o]] \in Nat /\ l.hmax[f] \in Nat
          /\ l.hmax[r.goal] \in Nat
      BY <1>1, <3>1
    <3> QED BY <2>2, <3>1, <3>2, <3>3
  <2> QED BY <2>1, <2>2 DEF IsZone
<1>4. \A f \in GoalZone(r, w, l) : f \in Dear
  BY <1>3 DEF GoalZone
<1> QED BY <1>2, <1>4

LEMMA BeforeIsClosed ==
    ASSUME NEW r, NEW l, NEW zone, IsReached(r, l)
    PROVE  IsBefore(r, l, zone, BeforeGoalZone(r, l, zone))
BY DEF IsBefore, BeforeGoalZone, IsReached

(* The two do not meet: the state costs nothing and the goal something.    *)
LEMMA Apart ==
    ASSUME NEW r, IsRelaxed(r), NEW w \in [RelaxedOps(r) -> Nat], NEW l, IsLabelled(r, w, l),
           GoalReached(r, l), l.hmax[r.goal] # 0
    PROVE  GoalZone(r, w, l) \cap BeforeGoalZone(r, l, GoalZone(r, w, l)) = {}
<1>1. IsReached(r, l) /\ l.hmax \in [l.reached -> Nat] /\ NoneTooDear(r, w, l)
      /\ r.goal \in l.reached /\ r.state \subseteq l.reached
  BY DEF IsLabelled, GoalReached, IsReached
<1> DEFINE zone == GoalZone(r, w, l)
<1>2. \A f \in zone : l.hmax[r.goal] <= l.hmax[f]
  BY ZoneIsDear
<1>3. r.state \cap zone = {}
  <2> SUFFICES ASSUME NEW f \in r.state, f \in zone PROVE FALSE
    OBVIOUS
  <2>1. l.hmax[f] = 0 /\ l.hmax[r.goal] <= l.hmax[f] /\ l.hmax[r.goal] \in Nat
    BY <1>1, <1>2 DEF NoneTooDear
  <2> QED BY <2>1
<1> HIDE DEF zone
<1> DEFINE Outside == l.reached \ zone
<1>4. IsBefore(r, l, zone, Outside)
  BY <1>1, <1>3 DEF IsBefore, IsReached
<1>5. \A f \in BeforeGoalZone(r, l, zone) : f \in Outside
  BY <1>4 DEF BeforeGoalZone
<1> QED BY <1>5 DEF zone

(* What lm_cut_landmarks.cc asserts of a cut: its operators cost something *)
(* (they would be in the zone with their supporters otherwise).            *)
LEMMA CutHasPrice ==
    ASSUME NEW r, IsRelaxed(r), NEW w \in [RelaxedOps(r) -> Nat], NEW l, IsLabelled(r, w, l),
           GoalReached(r, l), l.hmax[r.goal] # 0, NEW o \in FoundCut(r, w, l)
    PROVE  o \in RelaxedOps(r) /\ w[o] > 0
<1> DEFINE zone == GoalZone(r, w, l)
<1>1. IsZone(r, w, l, zone)
  BY ZoneIsDear
<1>2. zone \cap BeforeGoalZone(r, l, zone) = {}
  BY Apart
<1>3. o \in Reachable(r, l) /\ l.supporter[o] \in BeforeGoalZone(r, l, zone)
      /\ r.adds[o] \cap zone # {}
  BY DEF FoundCut, CutBetween
<1>4. l.supporter[o] \notin zone
  BY <1>2, <1>3
<1>5. o \in RelaxedOps(r) /\ w[o] \in Nat
  BY <1>3 DEF Reachable
<1> HIDE DEF zone
<1> QED BY <1>1, <1>3, <1>4, <1>5 DEF IsZone

(* And it is not empty: of the facts that do not come before the zone one  *)
(* is reached first, by an operator that would have put it there.          *)
LEMMA CutNotEmpty ==
    ASSUME NEW r, IsRelaxed(r), NEW w \in [RelaxedOps(r) -> Nat], NEW l, IsLabelled(r, w, l),
           GoalReached(r, l), l.hmax[r.goal] # 0
    PROVE  FoundCut(r, w, l) # {}
<1> SUFFICES ASSUME FoundCut(r, w, l) = {} PROVE FALSE
  OBVIOUS
<1> DEFINE zone == GoalZone(r, w, l)
           before == BeforeGoalZone(r, l, zone)
           Rest == l.reached \ before
<1>1. IsReached(r, l) /\ SupportersRight(r, l) /\ NoneTooCheap(r, w, l) /\ r.goal \in l.reached
  BY DEF IsLabelled, GoalReached
<1>2. IsBefore(r, l, zone, before)
  BY <1>1, BeforeIsClosed
<1>3. r.goal \in zone /\ zone \cap before = {}
  BY ZoneIsDear, Apart DEF IsZone
<1>4. \A o \in Reachable(r, l) : l.supporter[o] \in before => r.adds[o] \cap zone = {}
  BY DEF FoundCut, CutBetween
<1> HIDE DEF zone, before
<1>5. Rest \in SUBSET (l.reached \ r.state) /\ Rest # {}
  BY <1>1, <1>2, <1>3 DEF IsBefore
<1>6. PICK f \in Rest, o \in Reachable(r, l) : ReachedFirst(r, w, l, Rest, f, o)
  BY <1>1, <1>5 DEF NoneTooCheap
<1>7. l.supporter[o] \in before
  BY <1>1, <1>6 DEF ReachedFirst, SupportersRight, Reachable
<1>8. r.adds[o] \subseteq before
  BY <1>2, <1>4, <1>7 DEF IsBefore
<1> QED BY <1>6, <1>8 DEF ReachedFirst

-----------------------------------------------------------------------------
(* Plans                                                                   *)

(* A set of facts that has the state and stays closed under the operators  *)
(* of a plan has its goal.                                                 *)
Keeps(r, q, B) ==
    \A i \in 1..q.steps : r.needs[q.op[i]] \subseteq B => r.adds[q.op[i]] \subseteq B

LEMMA PlanStaysIn ==
    ASSUME NEW r, NEW q, IsRelaxedPlan(r, q), NEW B, r.state \subseteq B, Keeps(r, q, B)
    PROVE  r.goal \in B
<1>1. q.steps \in Nat /\ q.has \in [0..q.steps -> SUBSET r.facts] /\ q.has[0] \subseteq r.state
      /\ r.goal \in q.has[q.steps]
  BY DEF IsRelaxedPlan
<1> DEFINE S == {i \in 1..(q.steps + 1) : q.has[i - 1] \subseteq B}
<1>2. 1 \in S
  BY <1>1
<1>3. ASSUME NEW i \in 1..(q.steps + 1), i < q.steps + 1, i \in S PROVE i + 1 \in S
  <2>1. i \in 1..q.steps /\ i + 1 \in 1..(q.steps + 1) /\ (i + 1) - 1 = i
    BY <1>1, <1>3
  <2>2. r.needs[q.op[i]] \subseteq q.has[i - 1]
        /\ q.has[i] \subseteq q.has[i - 1] \cup r.adds[q.op[i]]
    BY <2>1 DEF IsRelaxedPlan
  <2>3. q.has[i - 1] \subseteq B
    BY <1>3
  <2>4. q.has[i] \subseteq B
    BY <2>1, <2>2, <2>3 DEF Keeps
  <2> QED BY <2>1, <2>4
<1>4. q.steps + 1 \in Nat /\ q.steps + 1 >= 1
  BY <1>1
<1> HIDE DEF S
<1>5. \A i \in 1..(q.steps + 1) : i \in S
  BY <1>2, <1>3, <1>4, UpTo
<1>6. q.steps + 1 \in S
  BY <1>4, <1>5
<1> QED BY <1>1, <1>6 DEF S

(* Without the goal being reached there is no plan.                        *)
LEMMA UnreachedHasNoPlan ==
    ASSUME NEW r, NEW w, NEW l, IsLabelled(r, w, l), NEW q, IsRelaxedPlan(r, q)
    PROVE  GoalReached(r, l)
<1>1. IsReached(r, l)
  BY DEF IsLabelled
<1>2. \A i \in 1..q.steps : q.op[i] \in RelaxedOps(r)
  BY DEF IsRelaxedPlan
<1>3. Keeps(r, q, l.reached)
  BY <1>1, <1>2 DEF Keeps, IsReached, Reachable
<1> QED BY <1>1, <1>3, PlanStaysIn DEF IsReached, GoalReached

(* Every plan has an operator of the cut: what the others add comes before *)
(* the goal zone if what they need does.                                   *)
LEMMA CutOnPlan ==
    ASSUME NEW r, IsRelaxed(r), NEW w \in [RelaxedOps(r) -> Nat], NEW l, IsLabelled(r, w, l),
           GoalReached(r, l), l.hmax[r.goal] # 0, NEW q, IsRelaxedPlan(r, q)
    PROVE  \E i \in 1..q.steps : q.op[i] \in FoundCut(r, w, l)
<1> SUFFICES ASSUME \A i \in 1..q.steps : q.op[i] \notin FoundCut(r, w, l) PROVE FALSE
  OBVIOUS
<1> DEFINE zone == GoalZone(r, w, l)
           before == BeforeGoalZone(r, l, zone)
<1>1. IsReached(r, l) /\ SupportersRight(r, l)
  BY DEF IsLabelled
<1>2. IsBefore(r, l, zone, before)
  BY <1>1, BeforeIsClosed
<1>3. r.goal \in zone /\ zone \cap before = {}
  BY ZoneIsDear, Apart DEF IsZone
<1>4. before \subseteq l.reached
  BY DEF BeforeGoalZone
<1>5. \A i \in 1..q.steps : q.op[i] \in RelaxedOps(r)
  BY DEF IsRelaxedPlan
<1>6. \A i \in 1..q.steps : q.op[i] \in Reachable(r, l) /\ l.supporter[q.op[i]] \in before
                              => r.adds[q.op[i]] \cap zone = {}
  BY DEF FoundCut, CutBetween
<1> HIDE DEF zone, before
<1>7. ASSUME NEW i \in 1..q.steps, r.needs[q.op[i]] \subseteq before
      PROVE  r.adds[q.op[i]] \subseteq before
  <2>1. q.op[i] \in Reachable(r, l)
    BY <1>4, <1>5, <1>7 DEF Reachable
  <2>2. l.supporter[q.op[i]] \in before
    BY <1>1, <1>7, <2>1 DEF SupportersRight
  <2> QED BY <1>2, <1>6, <2>1, <2>2 DEF IsBefore
<1>8. r.state \subseteq before /\ Keeps(r, q, before)
  BY <1>2, <1>7 DEF IsBefore, Keeps
<1>9. r.goal \in before
  BY <1>8, PlanStaysIn
<1> QED BY <1>3, <1>9

-----------------------------------------------------------------------------
(* Costs                                                                   *)

(* What a plan pays, at new prices, up to a step: no more than before, and *)
(* less by m if it has come across the cut.                                *)
Repaid(q, w, cut, m, d, k, e) ==
    /\ e \in [0..k -> Nat] /\ e[0] = 0
    /\ \A i \in 1..k : e[i] = e[i - 1] + w[q.op[i]]
    /\ e[k] <= d[k]
    /\ (\E i \in 1..k : q.op[i] \in cut) => e[k] + m <= d[k]

LEMMA RepayStep ==
    ASSUME NEW q, q.steps \in Nat, NEW w, NEW v, NEW cut, NEW m \in Nat, NEW d, Paid(q, w, d),
           NEW k \in Nat, k < q.steps, NEW e, Repaid(q, v, cut, m, d, k, e),
           w[q.op[k + 1]] \in Nat, v[q.op[k + 1]] \in Nat,
           v[q.op[k + 1]] <= w[q.op[k + 1]],
           q.op[k + 1] \in cut => v[q.op[k + 1]] + m = w[q.op[k + 1]]
    PROVE  \E x : Repaid(q, v, cut, m, d, k + 1, x)
<1> DEFINE last == e[k] + v[q.op[k + 1]]
           x == [i \in 0..(k + 1) |-> IF i = k + 1 THEN last ELSE e[i]]
<1>1. e \in [0..k -> Nat] /\ e[0] = 0 /\ (\A i \in 1..k : e[i] = e[i - 1] + v[q.op[i]])
      /\ e[k] <= d[k]
  BY DEF Repaid
<1>2. (\E i \in 1..k : q.op[i] \in cut) => e[k] + m <= d[k]
  BY DEF Repaid
<1>3. k \in 0..k /\ e[k] \in Nat /\ last \in Nat
  BY <1>1
<1>4. k + 1 \in 1..q.steps /\ (k + 1) - 1 = k
  OBVIOUS
<1>5. d[k + 1] = d[k] + w[q.op[k + 1]] /\ d[k] \in Nat
  <2>1. \A i \in 1..q.steps : d[i] = d[i - 1] + w[q.op[i]]
    BY DEF Paid
  <2>2. d[k + 1] = d[(k + 1) - 1] + w[q.op[k + 1]]
    BY <2>1, <1>4
  <2>3. d \in [0..q.steps -> Nat] /\ k \in 0..q.steps
    BY DEF Paid
  <2> QED BY <2>2, <2>3, <1>4
<1>6. x[k + 1] = last /\ \A i \in 0..k : x[i] = e[i]
  OBVIOUS
<1>7. x \in [0..(k + 1) -> Nat] /\ x[0] = 0
  BY <1>1, <1>3
<1>8. ASSUME NEW i \in 1..(k + 1) PROVE x[i] = x[i - 1] + v[q.op[i]]
  <2>1. CASE i = k + 1
    BY <2>1, <1>3, <1>4, <1>6
  <2>2. CASE i # k + 1
    <3>1. i \in 1..k /\ i - 1 \in 0..k /\ i \in 0..k
      BY <2>2
    <3> HIDE DEF x
    <3> QED BY <3>1, <1>1, <1>6
  <2> QED BY <2>1, <2>2
<1> HIDE DEF x
<1>9. x[k + 1] <= d[k + 1]
  BY <1>1, <1>3, <1>5, <1>6
<1>10. ASSUME \E i \in 1..(k + 1) : q.op[i] \in cut PROVE x[k + 1] + m <= d[k + 1]
  <2>1. CASE q.op[k + 1] \in cut
    <3>1. v[q.op[k + 1]] + m = w[q.op[k + 1]]
      BY <2>1
    <3> QED BY <3>1, <1>1, <1>3, <1>5, <1>6
  <2>2. CASE q.op[k + 1] \notin cut
    <3>1. \E i \in 1..k : q.op[i] \in cut
      BY <1>10, <2>2
    <3>2. e[k] + m <= d[k]
      BY <3>1, <1>2
    <3> QED BY <3>2, <1>3, <1>5, <1>6
  <2> QED BY <2>1, <2>2
<1>11. Repaid(q, v, cut, m, d, k + 1, x)
  BY <1>7, <1>8, <1>9, <1>10 DEF Repaid
<1> QED BY <1>11

(* With the operators of a cut cheaper by m, a plan across it saves m.     *)
LEMMA SavesTheCut ==
    ASSUME NEW r, NEW w \in [RelaxedOps(r) -> Nat], NEW q, IsRelaxedPlan(r, q),
           NEW d, Paid(q, w, d), NEW cut \in SUBSET RelaxedOps(r), NEW m \in Nat,
           \A o \in cut : m <= w[o], \E i \in 1..q.steps : q.op[i] \in cut
    PROVE  \E e : Paid(q, Reduced(w, cut, m), e) /\ e[q.steps] + m <= d[q.steps]
<1> DEFINE v == Reduced(w, cut, m)
           S == {i \in 1..(q.steps + 1) : \E e : Repaid(q, v, cut, m, d, i - 1, e)}
<1>1. q.steps \in Nat /\ q.op \in [1..q.steps -> RelaxedOps(r)]
  BY DEF IsRelaxedPlan
<1>2. d \in [0..q.steps -> Nat] /\ d[0] = 0
  BY DEF Paid
<1>3. ASSUME NEW o \in RelaxedOps(r)
      PROVE  w[o] \in Nat /\ v[o] \in Nat /\ v[o] <= w[o] /\ (o \in cut => v[o] + m = w[o])
  <2>1. DOMAIN w = RelaxedOps(r) /\ w[o] \in Nat
    OBVIOUS
  <2>2. CASE o \in cut
    <3>1. m <= w[o] /\ v[o] = w[o] - m
      BY <2>1, <2>2 DEF Reduced
    <3> QED BY <2>1, <3>1
  <2>3. CASE o \notin cut
    <3>1. v[o] = w[o]
      BY <2>1, <2>3 DEF Reduced
    <3> QED BY <2>1, <2>3, <3>1
  <2> QED BY <2>2, <2>3
<1> HIDE DEF v
<1>4. 1 \in S
  <2>1. Repaid(q, v, cut, m, d, 0, [i \in {0} |-> 0])
    BY <1>2 DEF Repaid
  <2> QED BY <2>1, <1>1
<1>5. ASSUME NEW i \in 1..(q.steps + 1), i < q.steps + 1, i \in S PROVE i + 1 \in S
  <2>1. PICK e : Repaid(q, v, cut, m, d, i - 1, e)
    BY <1>5
  <2>2. i - 1 \in Nat /\ i - 1 < q.steps /\ (i - 1) + 1 = i /\ i \in 1..q.steps
        /\ (i + 1) - 1 = i /\ i + 1 \in 1..(q.steps + 1)
    BY <1>1, <1>5
  <2>3. q.op[i] \in RelaxedOps(r)
    BY <1>1, <2>2
  <2>4. w[q.op[i]] \in Nat /\ v[q.op[i]] \in Nat /\ v[q.op[i]] <= w[q.op[i]]
        /\ (q.op[i] \in cut => v[q.op[i]] + m = w[q.op[i]])
    BY <1>3, <2>3
  <2>5. \E x : Repaid(q, v, cut, m, d, (i - 1) + 1, x)
    BY <1>1, <2>1, <2>2, <2>4, RepayStep
  <2> QED BY <2>2, <2>5
<1>6. q.steps + 1 \in Nat /\ q.steps + 1 >= 1 /\ (q.steps + 1) - 1 = q.steps
  BY <1>1
<1> HIDE DEF S
<1>7. q.steps + 1 \in S
  BY <1>4, <1>5, <1>6, UpTo
<1>8. PICK e : Repaid(q, v, cut, m, d, q.steps, e)
  BY <1>6, <1>7 DEF S
<1>9. Paid(q, v, e) /\ e[q.steps] + m <= d[q.steps]
  BY <1>8 DEF Repaid, Paid
<1> QED BY <1>9 DEF v

(* The estimate and what a plan still has to pay do not exceed what it     *)
(* costs.                                                                  *)
Explained(r, w, sum) ==
    \A q, c : IsRelaxedPlan(r, q) /\ Paid(q, r.base, c) =>
        \E d : Paid(q, w, d) /\ sum + d[q.steps] <= c[q.steps]

LEMMA StaysExplained ==
    ASSUME NEW r, IsRelaxed(r), NEW w \in [RelaxedOps(r) -> Nat], NEW l, IsLabelled(r, w, l),
           NEW sum \in Nat, Explained(r, w, sum), NEW m, NEW v, NEW k, Round(r, w, l, m, v, k)
    PROVE  /\ m \in Nat /\ m > 0 /\ v \in [RelaxedOps(r) -> Nat]
           /\ Explained(r, v, sum + m)
<1> DEFINE cut == FoundCut(r, w, l)
<1>1. GoalReached(r, l) /\ l.hmax[r.goal] # 0 /\ (\E o \in cut : m = w[o])
      /\ (\A o \in cut : m <= w[o]) /\ v = Reduced(w, cut, m)
  BY DEF Round
<1>2. \A o \in cut : o \in RelaxedOps(r) /\ w[o] > 0
  BY <1>1, CutHasPrice
<1>3. \A q : IsRelaxedPlan(r, q) => \E i \in 1..q.steps : q.op[i] \in cut
  BY <1>1, CutOnPlan
<1> HIDE DEF cut
<1>4. m \in Nat /\ m > 0 /\ cut \in SUBSET RelaxedOps(r)
  BY <1>1, <1>2
<1>5. v \in [RelaxedOps(r) -> Nat]
  BY <1>1, <1>4 DEF Reduced
<1>6. ASSUME NEW q, NEW c, IsRelaxedPlan(r, q), Paid(q, r.base, c)
      PROVE  \E e : Paid(q, v, e) /\ (sum + m) + e[q.steps] <= c[q.steps]
  <2>1. PICK d : Paid(q, w, d) /\ sum + d[q.steps] <= c[q.steps]
    BY <1>6 DEF Explained
  <2>2. PICK e : Paid(q, v, e) /\ e[q.steps] + m <= d[q.steps]
    BY <1>1, <1>3, <1>4, <1>6, <2>1, SavesTheCut
  <2>3. q.steps \in Nat /\ q.steps \in 0..q.steps
    BY <1>6 DEF IsRelaxedPlan
  <2>4. c[q.steps] \in Nat /\ d[q.steps] \in Nat /\ e[q.steps] \in Nat
    BY <1>6, <2>1, <2>2, <2>3 DEF Paid
  <2>5. (sum + m) + e[q.steps] <= c[q.steps]
    BY <1>4, <2>1, <2>2, <2>4
  <2> QED BY <2>2, <2>5
<1> QED BY <1>4, <1>5, <1>6 DEF Explained

-----------------------------------------------------------------------------
(* h^max                                                                   *)

(* What is reached does not depend on prices.                              *)
LEMMA ReachedIsLeast ==
    ASSUME NEW r, NEW w, NEW v, NEW l, NEW k, IsLabelled(r, w, l), IsLabelled(r, v, k)
    PROVE  l.reached \subseteq k.reached
<1> DEFINE F == l.reached \ k.reached
<1> SUFFICES ASSUME F # {} PROVE FALSE
  OBVIOUS
<1>1. IsReached(r, l) /\ IsReached(r, k) /\ NoneTooCheap(r, w, l)
  BY DEF IsLabelled
<1>2. F \in SUBSET (l.reached \ r.state)
  BY <1>1 DEF IsReached
<1>3. PICK f \in F, o \in Reachable(r, l) : ReachedFirst(r, w, l, F, f, o)
  BY <1>1, <1>2 DEF NoneTooCheap
<1>4. o \in Reachable(r, k)
  BY <1>3 DEF Reachable, ReachedFirst
<1> QED BY <1>1, <1>3, <1>4 DEF IsReached, ReachedFirst

(* h^max is not below any estimate of facts that is nowhere more than a    *)
(* fact needed and the operator.                                           *)
Supports(r, w, l, h) ==
    /\ \A f \in r.state : h[f] <= 0
    /\ \A o \in Reachable(r, l) : \A f \in r.adds[o] : \E g \in r.needs[o] : h[f] <= h[g] + w[o]

LEMMA NoneAbove ==
    ASSUME NEW r, IsRelaxed(r), NEW w \in [RelaxedOps(r) -> Nat], NEW l, IsLabelled(r, w, l),
           NEW h \in [l.reached -> Int], Supports(r, w, l, h)
    PROVE  \A f \in l.reached : h[f] <= l.hmax[f]
<1> DEFINE F == {f \in l.reached : ~(h[f] <= l.hmax[f])}
<1> SUFFICES ASSUME F # {} PROVE FALSE
  OBVIOUS
<1>1. IsReached(r, l) /\ NoneTooCheap(r, w, l) /\ NoneTooDear(r, w, l) /\ SupportersRight(r, l)
      /\ l.hmax \in [l.reached -> Nat] /\ l.supporter \in [Reachable(r, l) -> l.reached]
  BY DEF IsLabelled
<1>2. F \cap r.state = {}
  <2> SUFFICES ASSUME NEW f \in r.state, f \in F PROVE FALSE
    OBVIOUS
  <2>1. h[f] <= 0 /\ l.hmax[f] = 0
    BY <1>1 DEF Supports, NoneTooDear
  <2> QED BY <2>1
<1>3. F \in SUBSET (l.reached \ r.state)
  BY <1>2
<1>4. PICK f \in F, o \in Reachable(r, l) : ReachedFirst(r, w, l, F, f, o)
  BY <1>1, <1>3 DEF NoneTooCheap
<1>5. r.needs[o] \cap F = {} /\ f \in r.adds[o] /\ l.hmax[f] = l.hmax[l.supporter[o]] + w[o]
  BY <1>4 DEF ReachedFirst
<1>6. PICK g \in r.needs[o] : h[f] <= h[g] + w[o]
  BY <1>5 DEF Supports
<1>7. g \in l.reached /\ o \in RelaxedOps(r)
  BY DEF Reachable
<1>8. l.hmax[g] <= l.hmax[l.supporter[o]]
  BY <1>1 DEF SupportersRight
<1>9. h[g] <= l.hmax[g]
  BY <1>5, <1>7
<1>10. h[f] \in Int /\ h[g] \in Int /\ w[o] \in Nat /\ l.hmax[g] \in Nat /\ l.hmax[f] \in Nat
       /\ l.hmax[l.supporter[o]] \in Nat /\ ~(h[f] <= l.hmax[f])
  BY <1>1, <1>4, <1>7
<1> QED BY <1>5, <1>6, <1>8, <1>9, <1>10

(* Finding a cut, the goal becomes cheaper by no more than what is added   *)
(* to the estimate, also where a path leads through several operators of   *)
(* the cut: h^max as it was, but nowhere above what is left of the goal's, *)
(* is no more than it is now.                                              *)
LEMMA GoalKeepsItsPrice ==
    ASSUME NEW r, IsRelaxed(r), NEW w \in [RelaxedOps(r) -> Nat], NEW l, IsLabelled(r, w, l),
           NEW m \in Nat, NEW v \in [RelaxedOps(r) -> Nat], NEW k, Round(r, w, l, m, v, k)
    PROVE  GoalReached(r, k) /\ l.hmax[r.goal] <= m + k.hmax[r.goal]
<1> DEFINE zone == GoalZone(r, w, l)
           cut == FoundCut(r, w, l)
<1>1. GoalReached(r, l) /\ l.hmax[r.goal] # 0 /\ (\A o \in cut : m <= w[o])
      /\ v = Reduced(w, cut, m) /\ IsLabelled(r, v, k)
  BY DEF Round
<1>2. l.reached = k.reached
  <2>1. l.reached \subseteq k.reached
    BY <1>1, ReachedIsLeast
  <2>2. k.reached \subseteq l.reached
    BY <1>1, ReachedIsLeast
  <2> QED BY <2>1, <2>2
<1>3. NoneTooDear(r, w, l) /\ SupportersRight(r, l) /\ IsReached(r, l)
      /\ l.hmax \in [l.reached -> Nat] /\ l.supporter \in [Reachable(r, l) -> l.reached]
  BY DEF IsLabelled
<1>4. k.hmax \in [k.reached -> Nat]
  BY <1>1 DEF IsLabelled
<1>5. \A f \in zone : l.hmax[r.goal] <= l.hmax[f]
  BY <1>1, ZoneIsDear
<1>6. \A o \in cut : r.adds[o] \cap zone # {}
  BY DEF FoundCut, CutBetween
<1> HIDE DEF zone, cut
<1> DEFINE rest == l.hmax[r.goal] - m
           h == [f \in k.reached |-> IF l.hmax[f] <= rest THEN l.hmax[f] ELSE rest]
<1>7. r.goal \in l.reached /\ l.hmax[r.goal] \in Nat /\ rest \in Int
  BY <1>1, <1>3 DEF GoalReached
<1>8. \A f \in l.reached : l.hmax[f] \in Nat /\ h[f] \in Int /\ h[f] <= rest /\ h[f] <= l.hmax[f]
                              /\ (h[f] = l.hmax[f] \/ h[f] = rest)
  BY <1>2, <1>3, <1>7
<1>9. h \in [k.reached -> Int]
  BY <1>2, <1>8
<1> HIDE DEF rest, h
<1>10. Reachable(r, k) = Reachable(r, l)
  BY <1>2 DEF Reachable
<1>11. ASSUME NEW o \in Reachable(r, l), NEW f \in r.adds[o]
       PROVE  h[f] <= h[l.supporter[o]] + v[o]
  <2>1. l.supporter[o] \in l.reached /\ f \in l.reached /\ o \in RelaxedOps(r)
    BY <1>3 DEF IsReached, Reachable
  <2>2. l.hmax[f] <= l.hmax[l.supporter[o]] + w[o]
    BY <1>3 DEF NoneTooDear
  <2>3. h[f] \in Int /\ h[f] <= rest /\ h[f] <= l.hmax[f] /\ l.hmax[f] \in Nat
    BY <1>8, <2>1
  <2>4. w[o] \in Nat /\ v[o] \in Nat
    BY <2>1
  <2>5. CASE h[l.supporter[o]] = rest
    BY <2>3, <2>4, <2>5, <1>7
  <2>6. CASE h[l.supporter[o]] = l.hmax[l.supporter[o]]
    <3>1. l.hmax[l.supporter[o]] \in Nat
      BY <1>8, <2>1
    <3>2. CASE o \in cut
      <4>1. PICK z \in r.adds[o] : z \in zone
        BY <3>2, <1>6
      <4>2. l.hmax[z] <= l.hmax[l.supporter[o]] + w[o] /\ l.hmax[r.goal] <= l.hmax[z]
        BY <4>1, <1>3, <1>5 DEF NoneTooDear
      <4>3. v[o] = w[o] - m /\ z \in l.reached
        BY <3>2, <1>1, <1>3, <2>1 DEF Reduced, IsReached
      <4>4. l.hmax[z] \in Nat
        BY <4>3, <1>8
      <4>5. rest <= l.hmax[l.supporter[o]] + v[o]
        BY <4>2, <4>3, <4>4, <3>1, <2>4, <1>7 DEF rest
      <4> QED BY <4>5, <2>3, <2>4, <2>6, <3>1, <1>7
    <3>3. CASE o \notin cut
      <4>1. v[o] = w[o]
        BY <3>3, <1>1, <2>1 DEF Reduced
      <4> QED BY <4>1, <2>2, <2>3, <2>4, <2>6, <3>1
    <3> QED BY <3>2, <3>3
  <2> QED BY <2>1, <2>5, <2>6, <1>8
<1>12. \A o \in Reachable(r, l) : l.supporter[o] \in r.needs[o]
  BY <1>3 DEF SupportersRight
<1>13. ASSUME NEW f \in r.state PROVE h[f] <= 0
  <2>1. l.hmax[f] = 0 /\ f \in l.reached
    BY <1>3 DEF NoneTooDear, IsReached
  <2> QED BY <2>1, <1>8
<1>14. Supports(r, v, k, h)
  BY <1>10, <1>11, <1>12, <1>13 DEF Supports
<1>15. h[r.goal] <= k.hmax[r.goal]
  BY <1>1, <1>2, <1>7, <1>9, <1>14, NoneAbove
<1>16. h[r.goal] = rest
  BY <1>7, <1>2 DEF h, rest
<1>17. k.hmax[r.goal] \in Nat
  BY <1>2, <1>4, <1>7
<1> QED BY <1>1, <1>2, <1>7, <1>15, <1>16, <1>17 DEF rest, GoalReached

(* The estimate and what the goal still costs are together no less than    *)
(* the h^max of the task.                                                  *)
Dominates(r, l, sum) ==
    GoalReached(r, l) =>
        \A k : IsLabelled(r, r.base, k) => k.hmax[r.goal] <= sum + l.hmax[r.goal]

(* h^max is determined: two ways to compute it agree.                      *)
LEMMA OneHMax ==
    ASSUME NEW r, IsRelaxed(r), NEW w \in [RelaxedOps(r) -> Nat], NEW l, NEW k,
           IsLabelled(r, w, l), IsLabelled(r, w, k)
    PROVE  l.reached = k.reached /\ \A f \in l.reached : k.hmax[f] <= l.hmax[f]
<1>1. l.reached = k.reached
  <2>1. l.reached \subseteq k.reached
    BY ReachedIsLeast
  <2>2. k.reached \subseteq l.reached
    BY ReachedIsLeast
  <2> QED BY <2>1, <2>2
<1>2. Reachable(r, k) = Reachable(r, l)
  BY <1>1 DEF Reachable
<1>3. k.hmax \in [k.reached -> Nat] /\ NoneTooDear(r, w, k) /\ SupportersRight(r, k)
      /\ IsReached(r, k)
  BY DEF IsLabelled
<1> DEFINE h == k.hmax
<1>4. h \in [l.reached -> Int]
  BY <1>1, <1>3
<1>5. Supports(r, w, l, h)
  <2>1. \A f \in r.state : h[f] <= 0
    BY <1>3 DEF NoneTooDear
  <2>2. \A o \in Reachable(r, l) : \A f \in r.adds[o] :
            k.supporter[o] \in r.needs[o] /\ h[f] <= h[k.supporter[o]] + w[o]
    BY <1>2, <1>3 DEF NoneTooDear, SupportersRight
  <2> QED BY <2>1, <2>2 DEF Supports
<1> HIDE DEF h
<1>6. \A f \in l.reached : h[f] <= l.hmax[f]
  BY <1>4, <1>5, NoneAbove
<1> QED BY <1>1, <1>6 DEF h

-----------------------------------------------------------------------------
(* The invariant                                                           *)

CutTypeOK ==
    /\ IsRelaxed(relaxed) /\ price \in [RelaxedOps(relaxed) -> Nat] /\ total \in Nat
    /\ IsLabelled(relaxed, price, labels)

CutInv ==
    /\ CutTypeOK
    /\ Explained(relaxed, price, total)
    /\ Dominates(relaxed, labels, total)

LEMMA BeginsWell ==
    ASSUME NEW r, NEW w, NEW l, NEW sum, Begins(r, w, l, sum)
    PROVE  /\ IsRelaxed(r) /\ w \in [RelaxedOps(r) -> Nat] /\ sum \in Nat /\ IsLabelled(r, w, l)
           /\ Explained(r, w, sum) /\ Dominates(r, l, sum)
<1>1. IsRelaxed(r) /\ w = r.base /\ IsLabelled(r, w, l) /\ sum = 0
  BY DEF Begins
<1>2. w \in [RelaxedOps(r) -> Nat]
  BY <1>1 DEF IsRelaxed
<1>3. ASSUME NEW q, NEW c, IsRelaxedPlan(r, q), Paid(q, r.base, c)
      PROVE  \E d : Paid(q, w, d) /\ sum + d[q.steps] <= c[q.steps]
  <2>1. q.steps \in Nat /\ q.steps \in 0..q.steps
    BY <1>3 DEF IsRelaxedPlan
  <2>2. c[q.steps] \in Nat
    BY <1>3, <2>1 DEF Paid
  <2>3. sum + c[q.steps] <= c[q.steps]
    BY <1>1, <2>2
  <2> QED BY <1>1, <1>3, <2>3
<1>4. ASSUME GoalReached(r, l), NEW k, IsLabelled(r, r.base, k)
      PROVE  k.hmax[r.goal] <= sum + l.hmax[r.goal]
  <2>1. k.hmax[r.goal] <= l.hmax[r.goal]
    BY <1>1, <1>2, <1>4, OneHMax DEF GoalReached
  <2>2. l.hmax[r.goal] \in Nat
    BY <1>1, <1>4 DEF IsLabelled, GoalReached
  <2>3. sum + l.hmax[r.goal] = l.hmax[r.goal]
    BY <1>1, <2>2
  <2> QED BY <2>1, <2>3
<1> QED BY <1>1, <1>2, <1>3, <1>4 DEF Explained, Dominates

LEMMA RoundKeeps ==
    ASSUME NEW r, IsRelaxed(r), NEW w \in [RelaxedOps(r) -> Nat], NEW l, IsLabelled(r, w, l),
           NEW sum \in Nat, Explained(r, w, sum), Dominates(r, l, sum),
           NEW m, NEW v, NEW k, Round(r, w, l, m, v, k)
    PROVE  /\ m \in Nat /\ v \in [RelaxedOps(r) -> Nat] /\ sum + m \in Nat /\ IsLabelled(r, v, k)
           /\ Explained(r, v, sum + m) /\ Dominates(r, k, sum + m)
<1>1. m \in Nat /\ v \in [RelaxedOps(r) -> Nat] /\ Explained(r, v, sum + m)
  BY StaysExplained
<1>2. IsLabelled(r, v, k) /\ GoalReached(r, l)
  BY DEF Round
<1>3. GoalReached(r, k) /\ l.hmax[r.goal] <= m + k.hmax[r.goal]
  BY <1>1, GoalKeepsItsPrice
<1>4. ASSUME NEW j, IsLabelled(r, r.base, j) PROVE j.hmax[r.goal] <= (sum + m) + k.hmax[r.goal]
  <2>1. j.hmax[r.goal] <= sum + l.hmax[r.goal]
    BY <1>2, <1>4 DEF Dominates
  <2>2. l.hmax[r.goal] \in Nat /\ k.hmax[r.goal] \in Nat
    BY <1>2, <1>3 DEF IsLabelled, GoalReached
  <2>3. r.base \in [RelaxedOps(r) -> Nat]
    BY DEF IsRelaxed
  <2>4. j.hmax[r.goal] \in Nat
    <3>1. j.reached = l.reached
      <4>1. j.reached \subseteq l.reached
        BY <1>4, ReachedIsLeast
      <4>2. l.reached \subseteq j.reached
        BY <1>4, ReachedIsLeast
      <4> QED BY <4>1, <4>2
    <3> QED BY <1>2, <1>4, <3>1 DEF IsLabelled, GoalReached
  <2> QED BY <1>1, <1>3, <2>1, <2>2, <2>4
<1> QED BY <1>1, <1>2, <1>4 DEF Dominates

LEMMA CutInitial == CutInit => CutInv
<1> SUFFICES ASSUME CutInit PROVE CutInv
  OBVIOUS
<1> QED BY BeginsWell DEF CutInit, CutInv, CutTypeOK

LEMMA CutInductive == CutInv /\ [CutNext]_cutVars => CutInv'
<1> SUFFICES ASSUME CutInv, [CutNext]_cutVars PROVE CutInv'
  OBVIOUS
<1>1. CASE FindCut
  <2>1. PICK m : Round(relaxed, price, labels, m, price', labels') /\ total' = total + m
    BY <1>1 DEF FindCut
  <2>2. relaxed' = relaxed
    BY <1>1 DEF FindCut
  <2>3. /\ price' \in [RelaxedOps(relaxed) -> Nat] /\ IsLabelled(relaxed, price', labels')
        /\ total + m \in Nat /\ Explained(relaxed, price', total + m)
        /\ Dominates(relaxed, labels', total + m)
    BY <2>1, RoundKeeps DEF CutInv, CutTypeOK
  <2> QED BY <2>1, <2>2, <2>3 DEF CutInv, CutTypeOK
<1>2. CASE Evaluate
  BY <1>2, BeginsWell DEF Evaluate, CutInv, CutTypeOK
<1>3. CASE UNCHANGED cutVars
  BY <1>3 DEF cutVars, CutInv, CutTypeOK
<1> QED BY <1>1, <1>2, <1>3 DEF CutNext

(* The estimate of LM-cut grows by what every plan has to pay.             *)
THEOREM CutInvariant == CutSpec => []CutInv
BY CutInitial, CutInductive, PTL DEF CutSpec

(* At any time: the goal is reached if there is a plan, and the estimate   *)
(* is at most the cost of the plan.                                        *)
Underestimates(r, l, sum) ==
    \A q, c : IsRelaxedPlan(r, q) /\ Paid(q, r.base, c) =>
        GoalReached(r, l) /\ sum <= c[q.steps]

LEMMA ExplainedIsBelow ==
    ASSUME NEW r, NEW w, NEW l, IsLabelled(r, w, l), NEW sum \in Nat, Explained(r, w, sum)
    PROVE  Underestimates(r, l, sum)
<1> SUFFICES ASSUME NEW q, NEW c, IsRelaxedPlan(r, q), Paid(q, r.base, c)
             PROVE  GoalReached(r, l) /\ sum <= c[q.steps]
  BY DEF Underestimates
<1>1. PICK d : Paid(q, w, d) /\ sum + d[q.steps] <= c[q.steps]
  BY DEF Explained
<1>2. q.steps \in 0..q.steps
  BY DEF IsRelaxedPlan
<1>3. d[q.steps] \in Nat /\ c[q.steps] \in Nat
  BY <1>1, <1>2 DEF Paid
<1> QED BY <1>1, <1>3, UnreachedHasNoPlan

(* LM-cut is admissible: whatever supporters it chooses and however it     *)
(* explores, its estimate never exceeds the cost of a plan, with delete    *)
(* effects or without, and only a state without plans is a dead end.       *)
THEOREM LmCutAdmissible == CutSpec => []Underestimates(relaxed, labels, total)
<1>1. CutInv => Underestimates(relaxed, labels, total)
  BY ExplainedIsBelow DEF CutInv, CutTypeOK
<1> QED BY <1>1, CutInvariant, PTL

(* When it is done, its estimate is not below h^max.                       *)
AtLeastHMax ==
    GoalReached(relaxed, labels) /\ labels.hmax[relaxed.goal] = 0 =>
        \A k : IsLabelled(relaxed, relaxed.base, k) => k.hmax[relaxed.goal] <= total

THEOREM LmCutDominatesHMax == CutSpec => []AtLeastHMax
<1>1. CutInv => AtLeastHMax
  <2> SUFFICES ASSUME CutInv, GoalReached(relaxed, labels), labels.hmax[relaxed.goal] = 0,
                      NEW k, IsLabelled(relaxed, relaxed.base, k)
               PROVE  k.hmax[relaxed.goal] <= total
    BY DEF AtLeastHMax
  <2>1. k.hmax[relaxed.goal] <= total + labels.hmax[relaxed.goal]
    BY DEF CutInv, Dominates
  <2>2. total \in Nat
    BY DEF CutInv, CutTypeOK
  <2>3. total + labels.hmax[relaxed.goal] = total
    BY <2>2
  <2> QED BY <2>1, <2>3
<1> QED BY <1>1, CutInvariant, PTL

(* As long as the goal costs something there is a cut, and its operators   *)
(* cost something: what compute_landmarks and second_exploration assert.   *)
CutsAreReal ==
    GoalReached(relaxed, labels) /\ labels.hmax[relaxed.goal] # 0 =>
        /\ FoundCut(relaxed, price, labels) # {}
        /\ \A o \in FoundCut(relaxed, price, labels) : price[o] > 0

THEOREM CutsHold == CutSpec => []CutsAreReal
<1>1. CutInv => CutsAreReal
  BY CutNotEmpty, CutHasPrice DEF CutInv, CutTypeOK, CutsAreReal
<1> QED BY <1>1, CutInvariant, PTL

(* Every round makes an operator free that was not, and none dearer, so    *)
(* that there are no more rounds than operators.                           *)
Free(w) == {o \in DOMAIN w : w[o] = 0}

FreesMore == [][FindCut => Free(price) \subseteq Free(price') /\ Free(price) # Free(price')]_cutVars

LEMMA RoundFrees ==
    ASSUME NEW r, IsRelaxed(r), NEW w \in [RelaxedOps(r) -> Nat], NEW l, IsLabelled(r, w, l),
           NEW m, NEW v, NEW k, Round(r, w, l, m, v, k)
    PROVE  Free(w) \subseteq Free(v) /\ Free(w) # Free(v)
<1> DEFINE cut == FoundCut(r, w, l)
<1>1. GoalReached(r, l) /\ l.hmax[r.goal] # 0 /\ v = Reduced(w, cut, m)
  BY DEF Round
<1>2. PICK o \in cut : m = w[o]
  BY DEF Round
<1>3. \A u \in cut : u \in RelaxedOps(r) /\ w[u] > 0
  BY <1>1, CutHasPrice
<1> HIDE DEF cut
<1>4. DOMAIN w = RelaxedOps(r) /\ DOMAIN v = RelaxedOps(r)
  BY <1>1 DEF Reduced
<1>5. \A u \in RelaxedOps(r) : w[u] = 0 => v[u] = 0
  <2> SUFFICES ASSUME NEW u \in RelaxedOps(r), w[u] = 0 PROVE v[u] = 0
    OBVIOUS
  <2>1. u \notin cut
    BY <1>3
  <2> QED BY <2>1, <1>1, <1>4 DEF Reduced
<1>6. o \in RelaxedOps(r) /\ w[o] \in Nat /\ w[o] # 0
  BY <1>3
<1>7. v[o] = w[o] - w[o]
  BY <1>1, <1>2, <1>4, <1>6 DEF Reduced
<1>8. v[o] = 0
  BY <1>6, <1>7
<1> QED BY <1>4, <1>5, <1>6, <1>8 DEF Free

THEOREM RoundsFree == CutSpec => FreesMore
<1>1. CutInv /\ [CutNext]_cutVars =>
        [FindCut => Free(price) \subseteq Free(price') /\ Free(price) # Free(price')]_cutVars
  <2> SUFFICES ASSUME CutInv, FindCut
               PROVE  Free(price) \subseteq Free(price') /\ Free(price) # Free(price')
    OBVIOUS
  <2>1. PICK m : Round(relaxed, price, labels, m, price', labels')
    BY DEF FindCut
  <2> QED BY <2>1, RoundFrees DEF CutInv, CutTypeOK
<1> QED BY <1>1, CutInvariant, PTL DEF CutSpec, FreesMore

-----------------------------------------------------------------------------
(* A* with LM-cut                                                          *)

(* The relaxed task a of the problem p, for any of its states: holds gives *)
(* the facts of a state; what a step makes true its operator adds; and the *)
(* operator finish leads from every goal state to the goal.                *)
RelaxedAt(a, s) ==
    [facts |-> a.facts, needs |-> a.needs, adds |-> a.adds, base |-> a.base, goal |-> a.goal,
     state |-> a.holds[s]]

Relaxes(a, p) ==
    /\ a.holds \in [States(p) -> SUBSET a.facts]
    /\ \A s \in States(p) : IsRelaxed(RelaxedAt(a, s))
    /\ Operators(p) \subseteq DOMAIN a.base /\ \A o \in Operators(p) : a.base[o] = p.price[o]
    /\ \A s \in States(p) : \A arc \in p.arcs[s] :
         /\ a.needs[arc[1]] \subseteq a.holds[s]
         /\ a.holds[arc[2]] \subseteq a.holds[s] \cup a.adds[arc[1]]
    /\ a.finish \in DOMAIN a.base /\ a.base[a.finish] = 0 /\ a.goal \in a.adds[a.finish]
    /\ \A s \in p.goals : a.needs[a.finish] \subseteq a.holds[s]

(* A run of LM-cut on a state, round by round.  It may end after any       *)
(* round: also what a run broken off has found is admissible.              *)
IsRun(r, run) ==
    /\ Len(run) \in Nat /\ Len(run) >= 1
    /\ Begins(r, run[1].price, run[1].labels, run[1].total)
    /\ \A i \in 1..Len(run) : i < Len(run) =>
         \E m : /\ Round(r, run[i].price, run[i].labels, m, run[i + 1].price, run[i + 1].labels)
                /\ run[i + 1].total = run[i].total + m

Estimate(r, last, infinity) == IF GoalReached(r, last.labels) THEN last.total ELSE infinity

(* all estimates of the problem are those of LM-cut                        *)
GuidedByCuts(a, p) ==
    /\ Relaxes(a, p)
    /\ \A s \in States(p) : \A x \in p.estimates[s] :
         \E run : /\ IsRun(RelaxedAt(a, s), run)
                 /\ x = Estimate(RelaxedAt(a, s), run[Len(run)], p.infinity)

(* What holds throughout a run.                                            *)
HoldsIn(r, z) ==
    /\ z.price \in [RelaxedOps(r) -> Nat] /\ z.total \in Nat /\ IsLabelled(r, z.price, z.labels)
    /\ Explained(r, z.price, z.total) /\ Dominates(r, z.labels, z.total)

LEMMA RunsKeep ==
    ASSUME NEW r, IsRelaxed(r), NEW run, IsRun(r, run)
    PROVE  HoldsIn(r, run[Len(run)])
<1> DEFINE S == {i \in 1..Len(run) : HoldsIn(r, run[i])}
<1>1. Len(run) \in Nat /\ Len(run) >= 1
  BY DEF IsRun
<1>2. 1 \in S
  <2>1. HoldsIn(r, run[1])
    BY BeginsWell DEF IsRun, HoldsIn
  <2> QED BY <1>1, <2>1
<1>3. ASSUME NEW i \in 1..Len(run), i < Len(run), i \in S PROVE i + 1 \in S
  <2>1. PICK m : /\ Round(r, run[i].price, run[i].labels, m, run[i + 1].price, run[i + 1].labels)
                 /\ run[i + 1].total = run[i].total + m
    BY <1>3 DEF IsRun
  <2>2. HoldsIn(r, run[i])
    BY <1>3
  <2> DEFINE z == run[i]
             y == run[i + 1]
  <2>3. z.price \in [RelaxedOps(r) -> Nat] /\ z.total \in Nat /\ IsLabelled(r, z.price, z.labels)
        /\ Explained(r, z.price, z.total) /\ Dominates(r, z.labels, z.total)
    BY <2>2 DEF HoldsIn
  <2>4. Round(r, z.price, z.labels, m, y.price, y.labels) /\ y.total = z.total + m
    BY <2>1
  <2> HIDE DEF z, y
  <2>5. /\ y.price \in [RelaxedOps(r) -> Nat] /\ z.total + m \in Nat
        /\ IsLabelled(r, y.price, y.labels)
        /\ Explained(r, y.price, z.total + m) /\ Dominates(r, y.labels, z.total + m)
    BY <2>3, <2>4, RoundKeeps
  <2>6. HoldsIn(r, run[i + 1])
    BY <2>4, <2>5 DEF HoldsIn, y
  <2>7. i + 1 \in 1..Len(run)
    BY <1>1, <1>3
  <2> QED BY <2>6, <2>7
<1> HIDE DEF S
<1>4. PICK n \in Nat : n = Len(run) /\ n >= 1
  BY <1>1
<1>5. n \in S
  BY <1>2, <1>3, <1>4, UpTo
<1> QED BY <1>4, <1>5 DEF S

(* A path to a goal state is a plan of the relaxed task, at the same cost, *)
(* with one operator more.                                                 *)
LEMMA PathIsRelaxedPlan ==
    ASSUME NEW p, IsProblem(p), NEW a, Relaxes(a, p), NEW q, IsPath(p, q), End(q).at \in p.goals
    PROVE  \E z, c : /\ IsRelaxedPlan(RelaxedAt(a, q[1].at), z)
                     /\ Paid(z, a.base, c) /\ c[z.steps] = End(q).cost
<1> DEFINE n == Len(q)
           r == RelaxedAt(a, q[1].at)
           op == [i \in 1..n |-> IF i = n THEN a.finish ELSE q[i + 1].op]
           has == [i \in 0..n |-> IF i = n THEN a.holds[q[n].at] \cup {a.goal}
                                  ELSE a.holds[q[i + 1].at]]
           c == [i \in 0..n |-> IF i = n THEN q[n].cost ELSE q[i + 1].cost]
           z == [steps |-> n, op |-> op, has |-> has]
<1>1. q \in Seq(Station(p)) /\ q # <<>> /\ q[1].cost = 0
  BY DEF IsPath
<1>2. n \in Nat /\ n >= 1 /\ \A i \in 1..n : q[i] \in Station(p)
  BY <1>1
<1>3. \A i \in 1..n : q[i].at \in States(p) /\ q[i].cost \in Nat
  BY <1>2 DEF Station
<1>4. \A i \in 2..n : /\ <<q[i].op, q[i].at>> \in p.arcs[q[i - 1].at]
                      /\ q[i].cost = q[i - 1].cost + p.price[q[i].op]
  BY DEF IsPath
<1>5. \A i \in 2..n : q[i].op \in Operators(p)
  <2> SUFFICES ASSUME NEW i \in 2..n PROVE q[i].op \in Operators(p)
    OBVIOUS
  <2>1. i - 1 \in 1..n
    BY <1>2
  <2>2. p.arcs[q[i - 1].at] \subseteq Operators(p) \X States(p)
    BY <2>1, <1>3 DEF IsProblem
  <2> QED BY <2>2, <1>4
<1>6. r.facts = a.facts /\ r.needs = a.needs /\ r.adds = a.adds /\ r.base = a.base
      /\ r.goal = a.goal /\ r.state = a.holds[q[1].at]
  BY DEF RelaxedAt
<1>7. IsRelaxed(r)
  BY <1>2, <1>3 DEF Relaxes
<1>8. a.goal \in a.facts
  BY <1>6, <1>7 DEF IsRelaxed
<1>9. a.finish \in DOMAIN a.base /\ a.base[a.finish] = 0 /\ a.goal \in a.adds[a.finish]
      /\ a.needs[a.finish] \subseteq a.holds[q[n].at]
  BY DEF Relaxes, End
<1>10. \A s \in States(p) : a.holds[s] \subseteq a.facts
  BY DEF Relaxes
<1> HIDE DEF n, r
<1>11. z.steps = n /\ z.op = op /\ z.has = has
  OBVIOUS
<1>12. \A i \in 1..n : i # n => i + 1 \in 2..n /\ (i + 1) - 1 = i
  BY <1>2
<1>13. op \in [1..n -> RelaxedOps(r)]
  <2> SUFFICES ASSUME NEW i \in 1..n PROVE op[i] \in RelaxedOps(r)
    OBVIOUS
  <2>1. RelaxedOps(r) = DOMAIN a.base
    BY <1>6 DEF RelaxedOps
  <2>2. CASE i = n
    BY <2>1, <2>2, <1>9
  <2>3. CASE i # n
    <3>1. q[i + 1].op \in Operators(p)
      BY <2>3, <1>5, <1>12
    <3>2. q[i + 1].op \in DOMAIN a.base
      BY <3>1 DEF Relaxes
    <3> QED BY <3>2, <2>1, <2>3
  <2> QED BY <2>2, <2>3
<1>14. has \in [0..n -> SUBSET a.facts]
  <2> SUFFICES ASSUME NEW i \in 0..n PROVE has[i] \subseteq a.facts
    OBVIOUS
  <2>1. CASE i = n
    BY <2>1, <1>2, <1>3, <1>8, <1>10
  <2>2. CASE i # n
    <3>1. i + 1 \in 1..n
      BY <2>2, <1>2
    <3> QED BY <3>1, <2>2, <1>3, <1>10
  <2> QED BY <2>1, <2>2
<1>15. has[0] = a.holds[q[1].at] /\ has[n] = a.holds[q[n].at] \cup {a.goal}
  BY <1>2
<1>16. \A i \in 1..n : has[i - 1] = a.holds[q[i].at]
  BY <1>2
<1>17. ASSUME NEW i \in 1..n
       PROVE  a.needs[op[i]] \subseteq has[i - 1] /\ has[i] \subseteq has[i - 1] \cup a.adds[op[i]]
  <2>1. CASE i = n
    <3>1. op[i] = a.finish /\ has[i] = a.holds[q[n].at] \cup {a.goal}
      BY <2>1
    <3> HIDE DEF op, has
    <3> QED BY <3>1, <2>1, <1>9, <1>16
  <2>2. CASE i # n
    <3>1. op[i] = q[i + 1].op /\ i + 1 \in 2..n /\ (i + 1) - 1 = i /\ i + 1 \in 1..n
      BY <2>2, <1>12
    <3>2. has[i] = a.holds[q[i + 1].at]
      BY <3>1, <1>16
    <3>3. <<q[i + 1].op, q[i + 1].at>> \in p.arcs[q[i].at] /\ q[i].at \in States(p)
      BY <3>1, <1>3, <1>4
    <3> HIDE DEF op, has
    <3>4. a.needs[q[i + 1].op] \subseteq a.holds[q[i].at]
          /\ a.holds[q[i + 1].at] \subseteq a.holds[q[i].at] \cup a.adds[q[i + 1].op]
      BY <3>3 DEF Relaxes
    <3> QED BY <3>1, <3>2, <3>4, <1>16
  <2> QED BY <2>1, <2>2
<1>18. c[0] = 0 /\ c[n] = q[n].cost /\ \A i \in 1..n : c[i - 1] = q[i].cost
  BY <1>1, <1>2
<1>19. c \in [0..n -> Nat]
  <2> SUFFICES ASSUME NEW i \in 0..n PROVE c[i] \in Nat
    OBVIOUS
  <2>1. CASE i = n
    BY <2>1, <1>2, <1>3
  <2>2. CASE i # n
    <3>1. i + 1 \in 1..n
      BY <2>2, <1>2
    <3> QED BY <3>1, <2>2, <1>3
  <2> QED BY <2>1, <2>2
<1>20. ASSUME NEW i \in 1..n PROVE c[i] = c[i - 1] + a.base[op[i]]
  <2>1. CASE i = n
    <3>1. op[i] = a.finish /\ c[i] = q[n].cost /\ c[i - 1] = q[n].cost /\ q[n].cost \in Nat
      BY <2>1, <1>2, <1>3, <1>18
    <3> HIDE DEF op, c
    <3> QED BY <3>1, <1>9
  <2>2. CASE i # n
    <3>1. op[i] = q[i + 1].op /\ i + 1 \in 2..n /\ (i + 1) - 1 = i /\ i + 1 \in 1..n
      BY <2>2, <1>12
    <3>2. c[i] = q[i + 1].cost /\ c[i - 1] = q[i].cost
      BY <3>1, <1>18
    <3>3. q[i + 1].cost = q[i].cost + p.price[q[i + 1].op]
      BY <3>1, <1>4
    <3>4. a.base[q[i + 1].op] = p.price[q[i + 1].op]
      BY <3>1, <1>5 DEF Relaxes
    <3> HIDE DEF op, c
    <3> QED BY <3>1, <3>2, <3>3, <3>4
  <2> QED BY <2>1, <2>2
<1> HIDE DEF op, has, c, z
<1>21. IsRelaxedPlan(r, z)
  BY <1>2, <1>6, <1>11, <1>13, <1>14, <1>15, <1>17 DEF IsRelaxedPlan
<1>22. Paid(z, a.base, c)
  BY <1>11, <1>18, <1>19, <1>20 DEF Paid
<1>23. c[z.steps] = End(q).cost
  BY <1>11, <1>18 DEF End, n
<1> QED BY <1>21, <1>22, <1>23 DEF r

LEMMA CutsAreAdmissible ==
    ASSUME NEW p, IsProblem(p), NEW a, GuidedByCuts(a, p)
    PROVE  Admissible(p)
<1> SUFFICES ASSUME NEW q \in Seq(Station(p)), IsPath(p, q), End(q).at \in p.goals,
                    NEW x \in p.estimates[q[1].at]
             PROVE  x <= End(q).cost
  BY DEF Admissible
<1> DEFINE r == RelaxedAt(a, q[1].at)
<1>1. q[1].at \in States(p)
  <2>1. q # <<>>
    BY DEF IsPath
  <2>2. q[1] \in Station(p)
    BY <2>1
  <2> QED BY <2>2 DEF Station
<1>2. Relaxes(a, p) /\ IsRelaxed(r)
  BY <1>1 DEF GuidedByCuts, Relaxes
<1>3. PICK run : IsRun(r, run) /\ x = Estimate(r, run[Len(run)], p.infinity)
  BY <1>1 DEF GuidedByCuts
<1>4. r.base = a.base
  BY DEF RelaxedAt
<1>5. PICK z, c : IsRelaxedPlan(r, z) /\ Paid(z, a.base, c) /\ c[z.steps] = End(q).cost
  BY <1>2, PathIsRelaxedPlan
<1> HIDE DEF r
<1>6. HoldsIn(r, run[Len(run)])
  BY <1>2, <1>3, RunsKeep
<1>7. Underestimates(r, run[Len(run)].labels, run[Len(run)].total)
  BY <1>6, ExplainedIsBelow DEF HoldsIn
<1>8. GoalReached(r, run[Len(run)].labels) /\ run[Len(run)].total <= c[z.steps]
  BY <1>4, <1>5, <1>7 DEF Underestimates
<1> QED BY <1>3, <1>5, <1>8 DEF Estimate

(* The search the service runs finds what it promises: A* guided by       *)
(* LM-cut answers with a plan that no plan below the bound undercuts, and  *)
(* fails only when there is none below the bound.                          *)
ShowsCheapest ==
    \A a : problem.astar /\ GuidedByCuts(a, problem) =>
        /\ \A q \in answers : NothingCheaper(problem, End(q).cost)
        /\ status = "FAILED" => \A q : IsPlan(problem, q) => ~(End(q).cost < problem.bound)

THEOREM CheapestByLmCut == Spec => []ShowsCheapest
<1>1. SpaceInv => ShowsCheapest
  <2> SUFFICES ASSUME SpaceInv, problem.astar, NEW a, GuidedByCuts(a, problem)
               PROVE  /\ \A q \in answers : NothingCheaper(problem, End(q).cost)
                      /\ status = "FAILED" =>
                           \A q : IsPlan(problem, q) => ~(End(q).cost < problem.bound)
    BY DEF ShowsCheapest
  <2>1. IsProblem(problem) /\ AStarOptimal
    BY DEF SpaceInv, SpaceTypeOK
  <2>2. Admissible(problem)
    BY <2>1, CutsAreAdmissible
  <2> QED BY <2>1, <2>2 DEF AStarOptimal
<1> QED BY <1>1, SpaceInvariant, PTL
=============================================================================
