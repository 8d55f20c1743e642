------------------------- MODULE SearchSpaceProofs -------------------------
(***************************************************************************)
(* Proofs about the search space: for every task, every search algorithm   *)
(* and any number of states, tracing a path back ends in the initial state *)
(* and gives a plan; and A* with an admissible evaluator answers with a    *)
(* cheapest plan, or says that there is none below its bound.              *)
(*                                                                         *)
(* That the parents form a tree is said without a transitive closure: a    *)
(* set of states that holds the parents of its members holds the initial   *)
(* state.  What is proved of all stations of a path, or of all states, is  *)
(* proved by looking at the first station, or at the set of the states, of *)
(* which it would not be true.                                             *)
(***************************************************************************)
EXTENDS SearchSpace, WellFoundedInduction, TLAPS

(* Every nonempty set of natural numbers has a least element: it stands in *)
(* for induction over the stations of a path.                              *)
Smaller == {pair \in Nat \X Nat : pair[1] < pair[2]}

LEMMA Least ==
    ASSUME NEW S, S \subseteq Nat, S # {}
    PROVE  \E n \in S : \A m \in S : n <= m
<1>1. IsWellFoundedOn(Smaller, Nat)
  BY NatLessThanWellFounded, Zenon DEF OpToRel, Smaller
<1>2. \E n \in S : \A m \in S : <<m, n>> \notin Smaller
  BY <1>1, WFMin, Zenon
<1>3. \A n, m \in Nat : <<m, n>> \notin Smaller => n <= m
  BY DEF Smaller
<1> QED BY <1>2, <1>3

(* If a set holds 1 and with each number below n the next, it holds n.     *)
LEMMA UpTo ==
    ASSUME NEW n \in Nat, n >= 1, NEW S, 1 \in S,
           \A i \in 1..n : i < n /\ i \in S => i + 1 \in S
    PROVE  \A i \in 1..n : i \in S
<1> SUFFICES ASSUME \E i \in 1..n : i \notin S PROVE FALSE
  OBVIOUS
<1> DEFINE Missing == {i \in 1..n : i \notin S}
<1>1. Missing \subseteq Nat /\ Missing # {}
  OBVIOUS
<1>2. PICK i \in Missing : \A j \in Missing : i <= j
  BY <1>1, Least, Zenon
<1>3. i > 1 /\ i - 1 \in 1..n /\ i - 1 \notin Missing
  BY <1>2
<1> QED BY <1>2, <1>3

-----------------------------------------------------------------------------
(* The invariants                                                          *)

(* problem and nodes are what they are meant to be                         *)
Shape(p, n) == DOMAIN n \subseteq States(p) /\ n \in [DOMAIN n -> Node(p)]

SpaceTypeOK == IsProblem(problem) /\ Shape(problem, nodes)

(* A state is the initial one or was reached by an arc from a state known  *)
(* at a cost that has not risen since.                                     *)
Linked(p, n) ==
    \A s \in DOMAIN n :
        /\ n[s].op = NoOperator => s = p.initial /\ n[s].g = 0
        /\ n[s].op # NoOperator =>
             /\ n[s].parent \in DOMAIN n
             /\ <<n[s].op, s>> \in p.arcs[n[s].parent]
             /\ n[s].g >= n[n[s].parent].g + p.price[n[s].op]

(* There is no cycle of parents: who follows them gets to the initial      *)
(* state, so no set of other states has the parents of all its members.    *)
HasParents(n, C) == \A s \in C : n[s].op # NoOperator => n[s].parent \in C

Grounded(n) ==
    \A C \in SUBSET DOMAIN n :
        C # {} /\ HasParents(n, C) => \E s \in C : n[s].op = NoOperator

IsTree(p, n) == Linked(p, n) /\ Grounded(n)

(* paths of the task, whatever the search has seen of them                 *)
IsPath(p, q) ==
    /\ q \in Seq(Station(p)) /\ q # <<>> /\ q[1].cost = 0
    /\ \A i \in 2..Len(q) :
         /\ <<q[i].op, q[i].at>> \in p.arcs[q[i - 1].at]
         /\ q[i].cost = q[i - 1].cost + p.price[q[i].op]

IsPlan(p, q) == IsPath(p, q) /\ q[1].at = p.initial /\ End(q).at \in p.goals

-----------------------------------------------------------------------------
(* The tree of parents                                                     *)

(* In a step no known state becomes more expensive.                        *)
LEMMA NeverDearer ==
    ASSUME NEW p, NEW now, NEW next, IsProblem(p), Shape(p, now), Expands(p, now, next),
           NEW s \in DOMAIN now
    PROVE  s \in DOMAIN next /\ next[s].g \in Nat /\ now[s].g \in Nat /\ next[s].g <= now[s].g
<1>1. s \in DOMAIN next /\ next[s] \in Node(p) /\ now[s] \in Node(p)
  BY DEF Expands, Shape
<1>4. next[s].g \in Nat /\ now[s].g \in Nat
  BY <1>1 DEF Node
<1>2. PICK from \in DOMAIN now : StepFrom(p, now, next, from)
  BY DEF Expands
<1>3. SamePath(now, next, s) \/ NewPath(p, now, next, from, s)
  BY <1>1, <1>2 DEF StepFrom
<1> QED BY <1>1, <1>3, <1>4 DEF SamePath, NewPath

(* A step keeps the links: a state reached on a new path is linked to the  *)
(* state expanded, and the others to parents that have not become dearer.  *)
LEMMA StaysLinked ==
    ASSUME NEW p, NEW now, NEW next, IsProblem(p), Shape(p, now), Expands(p, now, next),
           Linked(p, now)
    PROVE  Linked(p, next)
<1>1. PICK from \in DOMAIN now : StepFrom(p, now, next, from)
  BY DEF Expands
<1>2. Shape(p, next) /\ DOMAIN now \subseteq DOMAIN next
  BY DEF Expands, Shape
<1> SUFFICES ASSUME NEW s \in DOMAIN next
             PROVE  /\ next[s].op = NoOperator => s = p.initial /\ next[s].g = 0
                    /\ next[s].op # NoOperator =>
                         /\ next[s].parent \in DOMAIN next
                         /\ <<next[s].op, s>> \in p.arcs[next[s].parent]
                         /\ next[s].g >= next[next[s].parent].g + p.price[next[s].op]
  BY DEF Linked
<1>3. next[s] \in Node(p) /\ p.price \in [Operators(p) -> Nat]
  BY <1>2 DEF Shape, IsProblem
<1>4. CASE SamePath(now, next, s)
  <2>1. s \in DOMAIN now /\ next[s].g = now[s].g /\ next[s].parent = now[s].parent
        /\ next[s].op = now[s].op
    BY <1>4 DEF SamePath
  <2>2. CASE next[s].op = NoOperator
    BY <2>1, <2>2 DEF Linked
  <2>3. CASE next[s].op # NoOperator
    <3> DEFINE m == now[s].parent
    <3>1. m \in DOMAIN now /\ <<now[s].op, s>> \in p.arcs[m]
          /\ now[s].g >= now[m].g + p.price[now[s].op]
      BY <2>1, <2>3 DEF Linked
    <3>2. next[m].g \in Nat /\ now[m].g \in Nat /\ next[m].g <= now[m].g
      BY <3>1, NeverDearer
    <3>3. p.price[now[s].op] \in Nat /\ now[s].g \in Nat
      BY <1>3, <2>1, <2>3 DEF Node
    <3> QED BY <1>2, <2>1, <2>3, <3>1, <3>2, <3>3
  <2> QED BY <2>2, <2>3
<1>5. CASE NewPath(p, now, next, from, s)
  <2>1. /\ <<next[s].op, s>> \in p.arcs[from] /\ next[s].parent = from
        /\ next[s].g = now[from].g + p.price[next[s].op]
    BY <1>5 DEF NewPath
  <2>2. from \in States(p)
    BY DEF Shape
  <2>3. p.arcs[from] \subseteq Operators(p) \X States(p)
    BY <2>2 DEF IsProblem
  <2>4. next[s].op \in Operators(p) /\ NoOperator \notin Operators(p)
    BY <2>1, <2>3 DEF IsProblem
  <2>5. p.price[next[s].op] \in Nat
    BY <1>3, <2>4
  <2>6. next[from].g \in Nat /\ now[from].g \in Nat /\ next[from].g <= now[from].g
    BY NeverDearer
  <2> QED BY <1>2, <2>1, <2>4, <2>5, <2>6
<1> QED BY <1>1, <1>4, <1>5 DEF StepFrom

(* A step makes no cycle.  Of a set of states with parents in the set, of  *)
(* which some are reached anew from the state expanded, those that are not *)
(* dearer than it and keep their path had their parents in the set before: *)
(* what has been reached anew was dearer.                                  *)
LEMMA StaysGrounded ==
    ASSUME NEW p, NEW now, NEW next, IsProblem(p), Shape(p, now), Expands(p, now, next),
           IsTree(p, now)
    PROVE  Grounded(next)
<1>1. PICK from \in DOMAIN now : StepFrom(p, now, next, from)
  BY DEF Expands
<1>2. Linked(p, now) /\ Grounded(now)
  BY DEF IsTree
<1>3. p.price \in [Operators(p) -> Nat] /\ NoOperator \notin Operators(p)
      /\ now \in [DOMAIN now -> Node(p)] /\ next \in [DOMAIN next -> Node(p)]
  BY DEF IsProblem, Shape, Expands
<1>4. from \in States(p) /\ p.arcs[from] \subseteq Operators(p) \X States(p)
  BY DEF Shape, IsProblem
<1> SUFFICES ASSUME NEW C \in SUBSET DOMAIN next, C # {}, HasParents(next, C)
             PROVE  \E s \in C : next[s].op = NoOperator
  BY DEF Grounded
<1>5. \A s \in C : SamePath(now, next, s) \/ NewPath(p, now, next, from, s)
  BY <1>1 DEF StepFrom
<1>6. CASE \A s \in C : SamePath(now, next, s)
  <2>1. C \in SUBSET DOMAIN now /\ HasParents(now, C)
    BY <1>6 DEF SamePath, HasParents
  <2>2. PICK s \in C : now[s].op = NoOperator
    BY <1>2, <2>1 DEF Grounded
  <2> QED BY <1>6, <2>2 DEF SamePath
<1>7. CASE ~ \A s \in C : SamePath(now, next, s)
  <2>1. \A s \in C : ~SamePath(now, next, s) =>
            /\ next[s].parent = from /\ next[s].op \in Operators(p)
            /\ next[s].g >= now[from].g
            /\ s \in DOMAIN now => now[s].g > now[from].g
    <3> SUFFICES ASSUME NEW s \in C, ~SamePath(now, next, s)
                 PROVE  /\ next[s].parent = from /\ next[s].op \in Operators(p)
                        /\ next[s].g >= now[from].g
                        /\ s \in DOMAIN now => now[s].g > now[from].g
      OBVIOUS
    <3>1. NewPath(p, now, next, from, s)
      BY <1>5
    <3>2. <<next[s].op, s>> \in p.arcs[from] /\ next[s].parent = from
          /\ next[s].g = now[from].g + p.price[next[s].op]
          /\ (s \in DOMAIN now => next[s].g < now[s].g)
      BY <3>1 DEF NewPath
    <3>3. next[s].op \in Operators(p)
      BY <1>4, <3>2
    <3>4. p.price[next[s].op] \in Nat /\ now[from].g \in Nat
      BY <1>3, <3>3 DEF Node
    <3>5. s \in DOMAIN now => now[s].g \in Nat
      BY <1>3 DEF Node
    <3> QED BY <3>2, <3>3, <3>4, <3>5
  <2>2. from \in C /\ SamePath(now, next, from)
    <3>1. PICK s \in C : ~SamePath(now, next, s)
      BY <1>7
    <3>2. from \in C
      BY <1>3, <2>1, <3>1 DEF HasParents
    <3>3. now[from].g \in Nat
      BY <1>3 DEF Node
    <3> QED BY <2>1, <3>2, <3>3
  <2> DEFINE D == {s \in C : SamePath(now, next, s) /\ now[s].g <= now[from].g}
  <2>3. from \in D
    <3>1. now[from].g \in Nat
      BY <1>3 DEF Node
    <3> QED BY <2>2, <3>1
  <2>4. D \in SUBSET DOMAIN now
    BY DEF SamePath
  <2>5. HasParents(now, D)
    <3> SUFFICES ASSUME NEW s \in D, now[s].op # NoOperator PROVE now[s].parent \in D
      BY DEF HasParents
    <3> DEFINE m == now[s].parent
    <3>1. s \in C /\ s \in DOMAIN now /\ next[s].op # NoOperator /\ next[s].parent = m
      BY DEF SamePath
    <3>2. m \in C
      BY <3>1 DEF HasParents
    <3>3. m \in DOMAIN now /\ now[s].g >= now[m].g + p.price[now[s].op]
      BY <1>2, <3>1 DEF Linked
    <3>4. p.price[now[s].op] \in Nat /\ now[s].g \in Nat /\ now[m].g \in Nat
          /\ now[from].g \in Nat
      BY <1>3, <3>1, <3>3 DEF Node
    <3>5. now[m].g <= now[from].g
      BY <3>3, <3>4
    <3>6. SamePath(now, next, m)
      BY <2>1, <3>2, <3>3, <3>4, <3>5
    <3> QED BY <3>2, <3>5, <3>6
  <2>6. PICK s \in D : now[s].op = NoOperator
    BY <1>2, <2>3, <2>4, <2>5 DEF Grounded
  <2> QED BY <2>6 DEF SamePath
<1> QED BY <1>6, <1>7

(* Tracing back ends: the states that have no trace have no initial state  *)
(* among them, but have all their parents, so there are none.              *)
LEMMA HasTrace ==
    ASSUME NEW p, NEW n, IsProblem(p), Shape(p, n), IsTree(p, n), NEW s \in DOMAIN n
    PROVE  \E q : Traced(p, q, n) /\ End(q).at = s
<1> DEFINE HasOne(t) == \E q : Traced(p, q, n) /\ End(q).at = t
           Lonely == {t \in DOMAIN n : ~HasOne(t)}
<1>1. Linked(p, n) /\ Grounded(n) /\ n \in [DOMAIN n -> Node(p)] /\ DOMAIN n \subseteq States(p)
      /\ p.price \in [Operators(p) -> Nat]
  BY DEF IsTree, Shape, IsProblem
<1>2. ASSUME NEW t \in DOMAIN n, n[t].op = NoOperator
      PROVE  HasOne(t)
  <2> DEFINE q == <<[op |-> NoOperator, at |-> t, cost |-> 0]>>
  <2>1. q \in Seq(Station(p)) /\ Len(q) = 1 /\ DOMAIN q = {1}
        /\ q[1] = [op |-> NoOperator, at |-> t, cost |-> 0]
    BY <1>1 DEF Station
  <2>2. Traced(p, q, n) /\ End(q).at = t
    BY <1>2, <2>1 DEF Traced, End
  <2> QED BY <2>2
<1>3. ASSUME NEW t \in DOMAIN n, n[t].op # NoOperator, HasOne(n[t].parent)
      PROVE  HasOne(t)
  <2>1. PICK q : Traced(p, q, n) /\ End(q).at = n[t].parent
    BY <1>3
  <2>2. q \in Seq(Station(p)) /\ q # <<>> /\ Len(q) \in Nat /\ Len(q) >= 1 /\ DOMAIN q = 1..Len(q)
    BY <2>1 DEF Traced
  <2>3. End(q) \in Station(p)
    BY <2>2 DEF End
  <2>4. n[t].op \in Operators(p) /\ p.price[n[t].op] \in Nat
    BY <1>1, <1>3 DEF Node
  <2> DEFINE new == [op |-> n[t].op, at |-> t, cost |-> End(q).cost + p.price[n[t].op]]
             r == Append(q, new)
  <2>5. new \in Station(p)
    BY <1>1, <2>3, <2>4 DEF Station
  <2> HIDE DEF new
  <2>6. r \in Seq(Station(p)) /\ r # <<>> /\ Len(r) = Len(q) + 1 /\ DOMAIN r = 1..(Len(q) + 1)
    BY <2>2, <2>5
  <2>7. \A i \in 1..Len(q) : r[i] = q[i]
    BY <2>2, <2>5
  <2>8. r[Len(q) + 1] = new
    BY <2>2, <2>5
  <2>9. new.op = n[t].op /\ new.at = t /\ new.cost = End(q).cost + p.price[n[t].op]
    BY DEF new
  <2> HIDE DEF r
  <2>10. r[1].op = NoOperator /\ r[1].cost = 0
    BY <2>1, <2>2, <2>7 DEF Traced
  <2>11. \A i \in DOMAIN r : r[i].at \in DOMAIN n /\ r[i].op = n[r[i].at].op
    BY <2>1, <2>2, <2>6, <2>7, <2>8, <2>9 DEF Traced
  <2>12. \A i \in 2..Len(r) :
            /\ r[i].op # NoOperator
            /\ r[i - 1].at = n[r[i].at].parent
            /\ r[i].cost = r[i - 1].cost + p.price[r[i].op]
    <3> SUFFICES ASSUME NEW i \in 2..Len(r)
                 PROVE  /\ r[i].op # NoOperator
                        /\ r[i - 1].at = n[r[i].at].parent
                        /\ r[i].cost = r[i - 1].cost + p.price[r[i].op]
      OBVIOUS
    <3>1. CASE i = Len(q) + 1
      <4>1. r[i - 1] = End(q)
        BY <2>2, <2>7, <3>1 DEF End
      <4> QED BY <1>3, <2>1, <2>8, <2>9, <3>1, <4>1
    <3>2. CASE i # Len(q) + 1
      <4>1. i \in 2..Len(q) /\ i \in 1..Len(q) /\ i - 1 \in 1..Len(q)
        BY <2>2, <2>6, <3>2
      <4>2. r[i] = q[i] /\ r[i - 1] = q[i - 1]
        BY <2>7, <4>1
      <4> QED BY <2>1, <4>1, <4>2 DEF Traced
    <3> QED BY <3>1, <3>2
  <2>13. End(r).at = t
    BY <2>6, <2>8, <2>9 DEF End
  <2>14. Traced(p, r, n)
    BY <2>6, <2>10, <2>11, <2>12 DEF Traced
  <2> QED BY <2>13, <2>14
<1> HIDE DEF HasOne
<1>4. HasParents(n, Lonely)
  <2> SUFFICES ASSUME NEW t \in Lonely, n[t].op # NoOperator PROVE n[t].parent \in Lonely
    BY DEF HasParents
  <2>1. n[t].parent \in DOMAIN n
    BY <1>1 DEF Linked
  <2> QED BY <1>3, <2>1
<1>5. ~ \E t \in Lonely : n[t].op = NoOperator
  BY <1>2
<1>6. Lonely = {}
  BY <1>1, <1>4, <1>5 DEF Grounded
<1> QED BY <1>6 DEF HasOne

(* A trace is a path from the initial state, and costs at most what the    *)
(* search believes.                                                        *)
LEMMA TraceIsPath ==
    ASSUME NEW p, NEW n, IsProblem(p), Shape(p, n), Linked(p, n), NEW q, Traced(p, q, n)
    PROVE  /\ IsPath(p, q) /\ q[1].at = p.initial
           /\ End(q).at \in DOMAIN n /\ End(q).cost <= n[End(q).at].g
<1>1. q \in Seq(Station(p)) /\ q # <<>> /\ Len(q) \in Nat /\ Len(q) >= 1 /\ DOMAIN q = 1..Len(q)
  BY DEF Traced
<1>2. \A i \in 1..Len(q) : q[i] \in Station(p) /\ q[i].at \in DOMAIN n /\ q[i].op = n[q[i].at].op
                           /\ n[q[i].at] \in Node(p)
  BY <1>1 DEF Traced, Shape
<1>3. q[1].at = p.initial /\ q[1].cost = 0 /\ n[q[1].at].g = 0
  <2>1. q[1].at \in DOMAIN n /\ q[1].op = n[q[1].at].op
    BY <1>1, <1>2
  <2>2. q[1].op = NoOperator /\ q[1].cost = 0
    BY DEF Traced
  <2> QED BY <2>1, <2>2 DEF Linked
<1>4. \A i \in 2..Len(q) :
         /\ <<q[i].op, q[i].at>> \in p.arcs[q[i - 1].at]
         /\ q[i].cost = q[i - 1].cost + p.price[q[i].op]
         /\ n[q[i].at].g >= n[q[i - 1].at].g + p.price[q[i].op]
         /\ q[i].op \in Operators(p)
  <2> SUFFICES ASSUME NEW i \in 2..Len(q)
               PROVE  /\ <<q[i].op, q[i].at>> \in p.arcs[q[i - 1].at]
                      /\ q[i].cost = q[i - 1].cost + p.price[q[i].op]
                      /\ n[q[i].at].g >= n[q[i - 1].at].g + p.price[q[i].op]
                      /\ q[i].op \in Operators(p)
    OBVIOUS
  <2>1. i \in 1..Len(q)
    BY <1>1
  <2>2. q[i].op # NoOperator /\ q[i - 1].at = n[q[i].at].parent
        /\ q[i].cost = q[i - 1].cost + p.price[q[i].op]
    BY DEF Traced
  <2>3. q[i].op = n[q[i].at].op /\ q[i].at \in DOMAIN n /\ q[i].op \in Operators(p) \cup {NoOperator}
    BY <1>2, <2>1 DEF Station
  <2> QED BY <2>2, <2>3 DEF Linked
<1> DEFINE Cheap == {i \in 1..Len(q) : q[i].cost <= n[q[i].at].g}
<1>5. 1 \in Cheap
  BY <1>1, <1>3
<1>6. ASSUME NEW i \in 1..Len(q), i < Len(q), i \in Cheap
      PROVE  i + 1 \in Cheap
  <2>1. i + 1 \in 2..Len(q) /\ i + 1 \in 1..Len(q) /\ (i + 1) - 1 = i
    BY <1>1, <1>6
  <2>2. q[i + 1].cost = q[i].cost + p.price[q[i + 1].op]
        /\ n[q[i + 1].at].g >= n[q[i].at].g + p.price[q[i + 1].op]
        /\ q[i + 1].op \in Operators(p)
    BY <1>4, <2>1
  <2>3. p.price[q[i + 1].op] \in Nat
    BY <2>2 DEF IsProblem
  <2>4. q[i].cost \in Nat /\ n[q[i].at].g \in Nat /\ n[q[i + 1].at].g \in Nat
    BY <1>2, <2>1 DEF Station, Node
  <2>5. q[i].cost <= n[q[i].at].g
    BY <1>6
  <2> QED BY <2>1, <2>2, <2>3, <2>4, <2>5
<1>7. \A i \in 1..Len(q) : i \in Cheap
  <2> HIDE DEF Cheap
  <2> QED BY <1>1, <1>5, <1>6, UpTo
<1>8. IsPath(p, q)
  BY <1>1, <1>3, <1>4 DEF IsPath
<1>9. Len(q) \in Cheap
  BY <1>1, <1>7
<1> QED BY <1>1, <1>2, <1>3, <1>8, <1>9 DEF End

-----------------------------------------------------------------------------
(* Thorough searches                                                       *)

(* What a closed state and a dead end stand for while a thorough search    *)
(* goes on.                                                                *)
IsTidy(p, n, edges) ==
    /\ n = Nothing => Lost(p, p.initial) \/ edges # {}
    /\ \A s \in DOMAIN n :
         /\ n[s].status = "closed" => s \notin p.goals /\ Expanded(p, n, edges, s)
         /\ n[s].status = "dead end" => Lost(p, s)

(* No estimate of a state exceeds the cost of a path from it to a goal.    *)
Admissible(p) ==
    \A q \in Seq(Station(p)) :
        IsPath(p, q) /\ End(q).at \in p.goals =>
            \A x \in p.estimates[q[1].at] : x <= End(q).cost

(* What the evaluator calls a dead end is one.                             *)
Safe(p) ==
    \A q \in Seq(Station(p)) :
        IsPath(p, q) /\ End(q).at \in p.goals => ~Lost(p, q[1].at)

(* What is covered stays so.                                               *)
LEMMA StaysCovered ==
    ASSUME NEW p, NEW now, NEW next, IsProblem(p), Shape(p, now), Expands(p, now, next),
           NEW s, NEW cost \in Nat, Covered(p, now, s, cost)
    PROVE  Covered(p, next, s, cost)
<1>1. CASE Lost(p, s)
  BY <1>1 DEF Covered
<1>2. CASE s \in DOMAIN now /\ (p.reopens => now[s].g <= cost)
  <2>1. s \in DOMAIN next /\ next[s].g \in Nat /\ now[s].g \in Nat /\ next[s].g <= now[s].g
    BY <1>2, NeverDearer
  <2> QED BY <1>2, <2>1 DEF Covered
<1> QED BY <1>1, <1>2 DEF Covered

LEMMA StaysExpanded ==
    ASSUME NEW p, NEW now, NEW next, IsProblem(p), Shape(p, now), Expands(p, now, next),
           NEW before, NEW after, \A edge \in before \ after : Followed(p, next, edge),
           NEW s \in DOMAIN now, Expanded(p, now, before, s), next[s].g = now[s].g
    PROVE  Expanded(p, next, after, s)
<1> SUFFICES ASSUME NEW arc \in p.arcs[s], NEW cost, cost = next[s].g + p.price[arc[1]]
             PROVE  \/ Covered(p, next, arc[2], cost) \/ <<s, arc[1]>> \in after
                    \/ p.reopens /\ cost >= p.bound
  BY DEF Expanded
<1>1. \/ Covered(p, now, arc[2], cost) \/ <<s, arc[1]>> \in before
      \/ p.reopens /\ cost >= p.bound
  BY DEF Expanded
<1>2. s \in States(p) /\ arc[1] \in Operators(p) /\ next[s].g \in Nat
  <2>1. s \in States(p) /\ now[s] \in Node(p)
    BY DEF Shape
  <2>2. p.arcs[s] \subseteq Operators(p) \X States(p)
    BY <2>1 DEF IsProblem
  <2> QED BY <2>1, <2>2 DEF Node
<1>3. cost \in Nat
  BY <1>2 DEF IsProblem
<1>4. CASE Covered(p, now, arc[2], cost)
  BY <1>3, <1>4, StaysCovered
<1>5. CASE <<s, arc[1]>> \in before /\ <<s, arc[1]>> \notin after
  BY <1>5 DEF Followed
<1> QED BY <1>1, <1>4, <1>5

LEMMA StaysTidy ==
    ASSUME NEW p, NEW now, NEW next, IsProblem(p), Shape(p, now), Expands(p, now, next),
           NEW before, NEW after, IsTidy(p, now, before), ThoroughStep(p, now, next, before, after)
    PROVE  IsTidy(p, next, after)
<1>1. next # Nothing
  BY DEF Expands, Nothing
<1>2. ASSUME NEW s \in DOMAIN next
      PROVE  /\ next[s].status = "closed" => s \notin p.goals /\ Expanded(p, next, after, s)
             /\ next[s].status = "dead end" => Lost(p, s)
  <2>1. CASE s \in DOMAIN now /\ next[s] = now[s]
    BY <2>1, StaysExpanded DEF IsTidy, ThoroughStep
  <2>2. CASE Treated(p, next, after, s)
    BY <2>2 DEF Treated
  <2> QED BY <2>1, <2>2 DEF ThoroughStep
<1> QED BY <1>1, <1>2 DEF IsTidy

(* The first evaluation of the initial state                               *)
LEMMA RootTidy ==
    ASSUME NEW p, NEW next, next # Nothing, NEW before, NEW after,
           ThoroughStep(p, Nothing, next, before, after)
    PROVE  IsTidy(p, next, after)
BY DEF ThoroughStep, Treated, IsTidy, Nothing

-----------------------------------------------------------------------------
(* A*                                                                      *)

(* The estimates of a consistent evaluator: one for each state, which says *)
(* no more than an operator costs and its successor's estimate together.   *)
IsConsistent(p, h) ==
    /\ h \in [States(p) -> Nat]
    /\ \A s \in States(p) : p.estimates[s] = {h[s]}
    /\ \A s \in States(p) : \A arc \in p.arcs[s] : h[s] <= p.price[arc[1]] + h[arc[2]]

(* No closed state comes after an open one.                                *)
IsOrdered(n, h) ==
    \A c, o \in DOMAIN n :
        n[c].status = "closed" /\ n[o].status = "open" => n[c].g + h[c] <= n[o].g + h[o]

(* With such an evaluator the states that a step of A* reaches come after  *)
(* the one it takes, which comes after all closed ones; so these remain as *)
(* they are.                                                               *)
LEMMA StaysOrdered ==
    ASSUME NEW p, NEW now, NEW next, IsProblem(p), Shape(p, now), Expands(p, now, next),
           AStarStep(p, now, next), NEW h, IsConsistent(p, h), IsOrdered(now, h)
    PROVE  /\ IsOrdered(next, h)
           /\ \A s \in DOMAIN now :
                now[s].status = "closed" => s \in DOMAIN next /\ next[s] = now[s]
<1>1. PICK from \in DOMAIN now : \A s \in DOMAIN next :
        \/ s \in DOMAIN now /\ next[s] = now[s]
        \/ SamePath(now, next, s) /\ now[s].status = "open" /\ next[s].status = "dead end"
        \/ /\ TakenInOrder(p, now, from)
           /\ \/ NewPath(p, now, next, from, s) /\ next[s].status = "open"
              \/ s = from /\ SamePath(now, next, s) /\ next[s].status = "closed"
  BY DEF AStarStep
<1>2. DOMAIN now \subseteq DOMAIN next /\ DOMAIN next \subseteq States(p)
  BY DEF Expands
<1>3. \A s \in DOMAIN now : now[s].g \in Nat
  <2>1. \A s \in DOMAIN now : now[s] \in Node(p)
    BY DEF Shape
  <2> QED BY <2>1 DEF Node
<1>4. \A s \in DOMAIN next : h[s] \in Nat
  BY <1>2 DEF IsConsistent
<1>5. TakenInOrder(p, now, from) =>
        /\ now[from].status = "open"
        /\ \A o \in DOMAIN now :
             now[o].status = "open" => now[from].g + h[from] <= now[o].g + h[o]
  <2>1. \A s \in DOMAIN now : p.estimates[s] = {h[s]}
    BY <1>2 DEF IsConsistent
  <2> QED BY <2>1 DEF TakenInOrder
<1>6. ASSUME TakenInOrder(p, now, from), NEW c \in DOMAIN now, now[c].status = "closed"
      PROVE  now[c].g + h[c] <= now[from].g + h[from]
  BY <1>5, <1>6 DEF IsOrdered
<1>7. ASSUME NEW s \in DOMAIN next, NewPath(p, now, next, from, s)
      PROVE  /\ now[from].g + h[from] <= next[s].g + h[s] /\ next[s].g \in Nat
             /\ s \in DOMAIN now => next[s].g < now[s].g
  <2>1. /\ <<next[s].op, s>> \in p.arcs[from]
        /\ next[s].g = now[from].g + p.price[next[s].op]
        /\ s \in DOMAIN now => next[s].g < now[s].g
    BY <1>7 DEF NewPath
  <2>2. from \in States(p)
    BY <1>2
  <2>3. h[from] <= p.price[next[s].op] + h[s]
    BY <2>1, <2>2 DEF IsConsistent
  <2>4. p.arcs[from] \subseteq Operators(p) \X States(p)
    BY <2>2 DEF IsProblem
  <2>5. p.price[next[s].op] \in Nat
    BY <2>1, <2>4 DEF IsProblem
  <2>6. now[from].g \in Nat /\ h[from] \in Nat /\ h[s] \in Nat
    BY <1>2, <1>3, <1>4
  <2> QED BY <2>1, <2>3, <2>5, <2>6
<1>8. ASSUME NEW s \in DOMAIN now, now[s].status = "closed"
      PROVE  s \in DOMAIN next /\ next[s] = now[s]
  <2>1. s \in DOMAIN next
    BY <1>2
  <2>2. ASSUME TakenInOrder(p, now, from), NewPath(p, now, next, from, s)
        PROVE  FALSE
    <3>1. now[s].g + h[s] <= now[from].g + h[from]
      BY <1>6, <1>8, <2>2
    <3>2. /\ now[from].g + h[from] <= next[s].g + h[s] /\ next[s].g \in Nat
          /\ next[s].g < now[s].g
      BY <1>7, <2>1, <2>2
    <3>3. now[s].g \in Nat /\ now[from].g \in Nat /\ h[s] \in Nat /\ h[from] \in Nat
      BY <1>2, <1>3, <1>4
    <3> QED BY <3>1, <3>2, <3>3
  <2>3. ~(TakenInOrder(p, now, from) /\ s = from)
    BY <1>5, <1>8
  <2> QED BY <1>1, <1>8, <2>1, <2>2, <2>3
<1>9. ASSUME NEW c \in DOMAIN next, NEW o \in DOMAIN next,
             next[c].status = "closed", next[o].status = "open"
      PROVE  next[c].g + h[c] <= next[o].g + h[o]
  <2>1. \/ c \in DOMAIN now /\ now[c].status = "closed" /\ next[c].g = now[c].g
        \/ TakenInOrder(p, now, from) /\ c = from /\ next[c].g = now[from].g
    BY <1>1, <1>9 DEF SamePath
  <2>2. \/ o \in DOMAIN now /\ now[o].status = "open" /\ next[o].g = now[o].g
        \/ TakenInOrder(p, now, from) /\ NewPath(p, now, next, from, o)
    BY <1>1, <1>9
  <2>3. CASE o \in DOMAIN now /\ now[o].status = "open" /\ next[o].g = now[o].g
    <3>1. CASE c \in DOMAIN now /\ now[c].status = "closed" /\ next[c].g = now[c].g
      BY <2>3, <3>1 DEF IsOrdered
    <3>2. CASE TakenInOrder(p, now, from) /\ c = from /\ next[c].g = now[from].g
      BY <1>5, <2>3, <3>2
    <3> QED BY <2>1, <3>1, <3>2
  <2>4. CASE TakenInOrder(p, now, from) /\ NewPath(p, now, next, from, o)
    <3>1. now[from].g + h[from] <= next[o].g + h[o] /\ next[o].g \in Nat
      BY <1>7, <2>4
    <3>2. next[c].g + h[c] <= now[from].g + h[from] /\ next[c].g \in Nat
      BY <1>2, <1>3, <1>4, <1>6, <2>1, <2>4
    <3>3. h[c] \in Nat /\ h[o] \in Nat /\ h[from] \in Nat /\ now[from].g \in Nat
      BY <1>2, <1>3, <1>4
    <3> QED BY <3>1, <3>2, <3>3
  <2> QED BY <2>2, <2>3, <2>4
<1> QED BY <1>8, <1>9 DEF IsOrdered

(* Two costs and their difference                                          *)
LEMMA Difference ==
    \A a, b, c, d \in Nat : a = b + d => a - c = (b - c) + d
OBVIOUS

(* The rest of a path is a path, which costs the difference.               *)
LEMMA RestOfPath ==
    ASSUME NEW p, IsProblem(p), NEW q, IsPath(p, q), NEW i \in 1..Len(q)
    PROVE  /\ q[i].cost \in Nat /\ End(q).cost \in Nat /\ q[i].cost <= End(q).cost
           /\ \E r : /\ IsPath(p, r) /\ r[1].at = q[i].at /\ End(r).at = End(q).at
                     /\ End(r).cost = End(q).cost - q[i].cost
<1>1. q \in Seq(Station(p)) /\ q # <<>> /\ Len(q) \in Nat /\ Len(q) >= 1 /\ DOMAIN q = 1..Len(q)
  BY DEF IsPath
<1>2. \A j \in 1..Len(q) : q[j] \in Station(p) /\ q[j].cost \in Nat
  <2>1. \A j \in 1..Len(q) : q[j] \in Station(p)
    BY <1>1
  <2> QED BY <2>1 DEF Station
<1>3. \A j \in 2..Len(q) : /\ <<q[j].op, q[j].at>> \in p.arcs[q[j - 1].at]
                           /\ q[j].cost = q[j - 1].cost + p.price[q[j].op]
  BY DEF IsPath
<1>4. ASSUME NEW j \in 2..Len(q)
      PROVE  p.price[q[j].op] \in Nat
  <2>1. j - 1 \in 1..Len(q)
    BY <1>1
  <2>2. q[j - 1].at \in States(p)
    BY <1>2, <2>1 DEF Station
  <2>4. p.arcs[q[j - 1].at] \subseteq Operators(p) \X States(p)
    BY <2>2 DEF IsProblem
  <2>3. q[j].op \in Operators(p)
    BY <1>3, <2>4
  <2> QED BY <2>3 DEF IsProblem
<1> DEFINE length == Len(q) - i + 1
           Later == {j \in 1..length : q[i + j - 1].cost >= q[i].cost}
<1>5. length \in Nat /\ length >= 1 /\ i + length - 1 = Len(q) /\ \A j \in 1..length : i + j - 1 \in 1..Len(q)
  BY <1>1
<1>6. 1 \in Later
  BY <1>1, <1>2, <1>5
<1>7. ASSUME NEW j \in 1..length, j < length, j \in Later
      PROVE  j + 1 \in Later
  <2>1. i + j \in 2..Len(q) /\ i + j \in 1..Len(q) /\ i + j - 1 \in 1..Len(q) /\ i + (j + 1) - 1 = i + j
        /\ j + 1 \in 1..length
    BY <1>1, <1>7
  <2>2. q[i + j].cost = q[i + j - 1].cost + p.price[q[i + j].op]
    <3> DEFINE k == i + j
    <3>1. k \in 2..Len(q)
      BY <2>1
    <3> HIDE DEF k
    <3>2. q[k].cost = q[k - 1].cost + p.price[q[k].op]
      BY <1>3, <3>1
    <3> QED BY <3>2 DEF k
  <2>3. q[i + j - 1].cost >= q[i].cost
    BY <1>7
  <2> QED BY <1>2, <1>4, <2>1, <2>2, <2>3
<1>8. \A j \in 1..length : q[i + j - 1].cost >= q[i].cost
  <2>1. \A j \in 1..length : j \in Later
    <3> HIDE DEF Later, length
    <3> QED BY <1>5, <1>6, <1>7, UpTo
  <2> QED BY <2>1
<1>9. q[i].cost \in Nat /\ End(q).cost \in Nat /\ q[i].cost <= End(q).cost
  <2>1. q[i + length - 1].cost >= q[i].cost
    BY <1>5, <1>8
  <2> QED BY <1>1, <1>2, <1>5, <2>1 DEF End
<1> DEFINE Moved(j) == [op |-> q[i + j - 1].op, at |-> q[i + j - 1].at,
                        cost |-> q[i + j - 1].cost - q[i].cost]
           r == [j \in 1..length |-> Moved(j)]
<1>10. \A j \in 1..length : Moved(j) \in Station(p)
  <2> SUFFICES ASSUME NEW j \in 1..length PROVE Moved(j) \in Station(p)
    OBVIOUS
  <2>1. q[i + j - 1] \in Station(p) /\ q[i + j - 1].cost \in Nat /\ q[i].cost \in Nat
        /\ q[i + j - 1].cost >= q[i].cost
    BY <1>2, <1>5, <1>8
  <2>2. q[i + j - 1].cost - q[i].cost \in Nat
    BY <2>1
  <2> QED BY <2>1, <2>2 DEF Station
<1>11. r \in Seq(Station(p)) /\ Len(r) = length /\ r # <<>>
  <2> HIDE DEF Moved, length
  <2> QED BY <1>5, <1>10
<1>12. \A j \in 1..length : /\ r[j].op = q[i + j - 1].op /\ r[j].at = q[i + j - 1].at
                            /\ r[j].cost = q[i + j - 1].cost - q[i].cost
  OBVIOUS
<1> HIDE DEF r
<1>13. r[1].at = q[i].at /\ r[1].cost = 0
  <2>1. 1 \in 1..length /\ i + 1 - 1 = i
    BY <1>1, <1>5
  <2>2. r[1].at = q[i].at /\ r[1].cost = q[i].cost - q[i].cost
    BY <1>12, <2>1
  <2> QED BY <1>2, <2>2
<1>14. \A j \in 2..Len(r) :
         /\ <<r[j].op, r[j].at>> \in p.arcs[r[j - 1].at]
         /\ r[j].cost = r[j - 1].cost + p.price[r[j].op]
  <2> SUFFICES ASSUME NEW j \in 2..Len(r)
               PROVE  /\ <<r[j].op, r[j].at>> \in p.arcs[r[j - 1].at]
                      /\ r[j].cost = r[j - 1].cost + p.price[r[j].op]
    OBVIOUS
  <2> DEFINE k == i + j - 1
  <2>1. j \in 1..length /\ j - 1 \in 1..length /\ k \in 2..Len(q) /\ k \in 1..Len(q) /\ k - 1 \in 1..Len(q)
        /\ i + (j - 1) - 1 = k - 1
    BY <1>1, <1>5, <1>11
  <2>2. r[j].op = q[k].op /\ r[j].at = q[k].at /\ r[j].cost = q[k].cost - q[i].cost
    BY <1>12, <2>1
  <2>3. r[j - 1].at = q[k - 1].at /\ r[j - 1].cost = q[k - 1].cost - q[i].cost
    BY <1>12, <2>1
  <2> HIDE DEF k
  <2>4. <<q[k].op, q[k].at>> \in p.arcs[q[k - 1].at] /\ q[k].cost = q[k - 1].cost + p.price[q[k].op]
    BY <1>3, <2>1
  <2>5. q[k].cost \in Nat /\ q[k - 1].cost \in Nat /\ q[i].cost \in Nat /\ p.price[q[k].op] \in Nat
    BY <1>2, <1>4, <2>1
  <2>6. <<r[j].op, r[j].at>> \in p.arcs[r[j - 1].at]
    BY <2>2, <2>3, <2>4
  <2>7. r[j].cost = r[j - 1].cost + p.price[r[j].op]
    <3>1. q[k].cost = q[k - 1].cost + p.price[q[k].op]
      BY <2>4
    <3>2. q[k].cost - q[i].cost = (q[k - 1].cost - q[i].cost) + p.price[q[k].op]
      BY <2>5, <3>1, Difference
    <3> QED BY <2>2, <2>3, <3>2
  <2> QED BY <2>6, <2>7
<1>15. End(r).at = End(q).at /\ End(r).cost = End(q).cost - q[i].cost
  BY <1>5, <1>11, <1>12 DEF End
<1>16. IsPath(p, r)
  BY <1>11, <1>13, <1>14 DEF IsPath
<1> QED BY <1>9, <1>13, <1>15, <1>16

(* In a tidy search without pending edges, a plan of which no state is     *)
(* lost (and, if states are opened again, that is below the bound) has a   *)
(* station whose state is open (and then known at no more than the plan    *)
(* pays for it): the initial state is reached, a closed state has covered  *)
(* its successors, and the end of the plan is not closed.                  *)
AreNotLost(p, q) == \A i \in 1..Len(q) : ~Lost(p, q[i].at)

Fits(p, n, q, i) == q[i].at \in DOMAIN n /\ (p.reopens => n[q[i].at].g <= q[i].cost)

LEMMA Frontier ==
    ASSUME NEW p, NEW n, IsProblem(p), Shape(p, n), IsTree(p, n), IsTidy(p, n, {}),
           NEW q, IsPlan(p, q), AreNotLost(p, q), p.reopens => End(q).cost < p.bound
    PROVE  \E i \in 1..Len(q) : Fits(p, n, q, i) /\ n[q[i].at].status = "open"
<1>1. IsPath(p, q) /\ q[1].at = p.initial /\ End(q).at \in p.goals
  BY DEF IsPlan
<1>2. q \in Seq(Station(p)) /\ q # <<>> /\ Len(q) \in Nat /\ Len(q) >= 1 /\ DOMAIN q = 1..Len(q)
      /\ q[1].cost = 0
  BY <1>1 DEF IsPath
<1>3. \A i \in 1..Len(q) : q[i].cost \in Nat /\ End(q).cost \in Nat /\ q[i].cost <= End(q).cost
  BY <1>1, RestOfPath
<1>5. \A i \in 1..Len(q) : q[i].at \in States(p)
  <2>1. \A i \in 1..Len(q) : q[i] \in Station(p)
    BY <1>2
  <2> QED BY <2>1 DEF Station
<1>6. \A i \in 1..Len(q) : ~Lost(p, q[i].at)
  BY DEF AreNotLost
<1> SUFFICES ASSUME \A i \in 1..Len(q) : ~(Fits(p, n, q, i) /\ n[q[i].at].status = "open")
             PROVE  FALSE
  OBVIOUS
<1> DEFINE Closed == {i \in 1..Len(q) : Fits(p, n, q, i) /\ n[q[i].at].status = "closed"}
<1>7. ASSUME NEW i \in 1..Len(q), Fits(p, n, q, i)
      PROVE  i \in Closed
  <2>1. n[q[i].at] \in Node(p)
    BY <1>7 DEF Shape, Fits
  <2>2. n[q[i].at].status \in {"open", "closed", "dead end"}
    BY <2>1 DEF Node
  <2>3. n[q[i].at].status # "dead end"
    BY <1>6, <1>7 DEF IsTidy, Fits
  <2>4. n[q[i].at].status # "open"
    BY <1>7
  <2> QED BY <1>7, <2>2, <2>3, <2>4
<1>8. 1 \in Closed
  <2>1. n # Nothing
    <3>1. 1 \in 1..Len(q)
      BY <1>2
    <3>2. ~Lost(p, p.initial)
      BY <1>1, <1>6, <3>1
    <3> QED BY <3>2 DEF IsTidy
  <2>2. DOMAIN n # {}
    <3>1. n = [s \in DOMAIN n |-> n[s]]
      BY DEF Shape
    <3> QED BY <2>1, <3>1 DEF Nothing
  <2>3. HasParents(n, DOMAIN n)
    BY DEF HasParents, IsTree, Linked
  <2>4. PICK s \in DOMAIN n : n[s].op = NoOperator
    BY <2>2, <2>3 DEF IsTree, Grounded
  <2>5. p.initial \in DOMAIN n /\ n[p.initial].g = 0
    BY <2>4 DEF IsTree, Linked
  <2>6. 1 \in 1..Len(q) /\ Fits(p, n, q, 1)
    BY <1>1, <1>2, <2>5 DEF Fits
  <2> QED BY <1>7, <2>6
<1>9. ASSUME NEW i \in 1..Len(q), i < Len(q), i \in Closed
      PROVE  i + 1 \in Closed
  <2> DEFINE k == i + 1
             s == q[i].at
             cost == n[s].g + p.price[q[k].op]
  <2>1. k \in 2..Len(q) /\ k \in 1..Len(q) /\ k - 1 = i
    BY <1>2, <1>9
  <2> HIDE DEF k
  <2>2. <<q[k].op, q[k].at>> \in p.arcs[s] /\ q[k].cost = q[i].cost + p.price[q[k].op]
    BY <1>1, <2>1 DEF IsPath
  <2>3. s \in DOMAIN n /\ n[s].status = "closed" /\ (p.reopens => n[s].g <= q[i].cost)
    BY <1>9 DEF Fits
  <2>4. Expanded(p, n, {}, s)
    BY <2>3 DEF IsTidy
  <2>5. n[s].g \in Nat
    <3>1. n[s] \in Node(p)
      BY <2>3 DEF Shape
    <3> QED BY <3>1 DEF Node
  <2>6. p.price[q[k].op] \in Nat /\ p.bound \in Nat
    <3>1. p.arcs[s] \subseteq Operators(p) \X States(p)
      BY <1>5 DEF IsProblem
    <3>2. q[k].op \in Operators(p)
      BY <2>2, <3>1
    <3> QED BY <3>2 DEF IsProblem
  <2>7. q[i].cost \in Nat /\ q[k].cost \in Nat /\ End(q).cost \in Nat /\ q[k].cost <= End(q).cost
    BY <1>3, <2>1
  <2>8. cost \in Nat /\ (p.reopens => cost <= q[k].cost /\ cost < p.bound)
    <3>1. \A a, b, c \in Nat : a <= b => a + c <= b + c
      OBVIOUS
    <3>2. cost \in Nat
      BY <2>5, <2>6
    <3>3. ASSUME p.reopens PROVE cost <= q[k].cost
      BY <2>2, <2>3, <2>5, <2>6, <2>7, <3>1, <3>3
    <3> HIDE DEF cost
    <3> QED BY <2>6, <2>7, <3>2, <3>3
  <2>9. Covered(p, n, q[k].at, cost) \/ (p.reopens /\ cost >= p.bound)
    BY <2>2, <2>4 DEF Expanded
  <2> HIDE DEF cost
  <2>10. q[k].at \in DOMAIN n /\ (p.reopens => n[q[k].at].g <= cost)
    BY <1>6, <2>1, <2>6, <2>8, <2>9 DEF Covered
  <2>11. n[q[k].at].g \in Nat
    <3>1. n[q[k].at] \in Node(p)
      BY <2>10 DEF Shape
    <3> QED BY <3>1 DEF Node
  <2>12. p.reopens => n[q[k].at].g <= q[k].cost
    BY <2>7, <2>8, <2>10, <2>11
  <2>13. k \in Closed
    BY <1>7, <2>1, <2>10, <2>12 DEF Fits
  <2> QED BY <2>13 DEF k
<1>10. Len(q) \in Closed
  <2> HIDE DEF Closed
  <2>1. \A i \in 1..Len(q) : i \in Closed
    BY <1>2, <1>8, <1>9, UpTo
  <2> QED BY <1>2, <2>1
<1> QED BY <1>1, <1>10 DEF IsTidy, Fits, End

(* No state of a plan is lost to a safe evaluator, nor, below the bound,   *)
(* to an admissible one, which keeps under the rest of the plan.           *)
LEMMA SafeLosesNothing ==
    ASSUME NEW p, IsProblem(p), Safe(p), NEW q, IsPlan(p, q)
    PROVE  AreNotLost(p, q)
<1> SUFFICES ASSUME NEW i \in 1..Len(q) PROVE ~Lost(p, q[i].at)
  BY DEF AreNotLost
<1>1. PICK r : IsPath(p, r) /\ r[1].at = q[i].at /\ End(r).at = End(q).at
  BY RestOfPath DEF IsPlan
<1>2. r \in Seq(Station(p))
  BY <1>1 DEF IsPath
<1> QED BY <1>1, <1>2 DEF Safe, IsPlan

LEMMA EstimatesOnPlan ==
    ASSUME NEW p, IsProblem(p), Admissible(p), NEW q, IsPlan(p, q), NEW i \in 1..Len(q)
    PROVE  \A x \in p.estimates[q[i].at] : x <= End(q).cost - q[i].cost
<1>1. PICK r : /\ IsPath(p, r) /\ r[1].at = q[i].at /\ End(r).at = End(q).at
               /\ End(r).cost = End(q).cost - q[i].cost
  BY RestOfPath DEF IsPlan
<1>2. r \in Seq(Station(p))
  BY <1>1 DEF IsPath
<1> QED BY <1>1, <1>2 DEF Admissible, IsPlan

LEMMA AdmissibleLosesNothing ==
    ASSUME NEW p, IsProblem(p), Admissible(p), NEW q, IsPlan(p, q), End(q).cost < p.bound
    PROVE  AreNotLost(p, q)
<1> SUFFICES ASSUME NEW i \in 1..Len(q), p.infinity \in p.estimates[q[i].at] PROVE FALSE
  BY DEF AreNotLost, Lost
<1>1. p.infinity <= End(q).cost - q[i].cost
  BY EstimatesOnPlan
<1>2. q[i].cost \in Nat /\ End(q).cost \in Nat
  BY RestOfPath DEF IsPlan
<1>3. p.infinity \in Nat /\ p.bound \in Nat /\ p.bound <= p.infinity
  BY DEF IsProblem
<1> QED BY <1>1, <1>2, <1>3

(* A thorough search that has nothing left to look at has missed no plan.  *)
LEMMA NothingMissed ==
    ASSUME NEW p, NEW n, IsProblem(p), Shape(p, n), IsTree(p, n), IsTidy(p, n, {}),
           \A s \in DOMAIN n : n[s].status = "open" => Lost(p, s),
           NEW q, IsPlan(p, q), AreNotLost(p, q)
    PROVE  p.reopens /\ ~(End(q).cost < p.bound)
<1> SUFFICES ASSUME p.reopens => End(q).cost < p.bound PROVE FALSE
  OBVIOUS
<1>1. PICK i \in 1..Len(q) : Fits(p, n, q, i) /\ n[q[i].at].status = "open"
  BY Frontier
<1> QED BY <1>1 DEF Fits, AreNotLost

(* What A* finds at a state taken in order, no plan below the bound        *)
(* undercuts.                                                              *)
NothingCheaper(p, cost) ==
    \A r \in Seq(Station(p)) :
        IsPlan(p, r) /\ End(r).cost < p.bound => cost <= End(r).cost

LEMMA TakenIsCheapest ==
    ASSUME NEW p, NEW now, NEW next, IsProblem(p), Shape(p, now), IsTree(p, now),
           IsTidy(p, now, {}), Admissible(p), p.astar, Shape(p, next), Linked(p, next),
           NEW q, Finds(p, now, next, q)
    PROVE  NothingCheaper(p, End(q).cost)
<1> SUFFICES ASSUME NEW r \in Seq(Station(p)), IsPlan(p, r), End(r).cost < p.bound
             PROVE  End(q).cost <= End(r).cost
  BY DEF NothingCheaper
<1> DEFINE e == End(q).at
<1>1. Traced(p, q, next) /\ TakenInOrder(p, now, e) /\ SamePath(now, next, e)
  BY DEF Finds
<1>2. End(q).cost <= next[e].g
  BY <1>1, TraceIsPath
<1>3. next[e].g = now[e].g /\ e \in DOMAIN now
  BY <1>1 DEF SamePath
<1>4. PICK i \in 1..Len(r) : Fits(p, now, r, i) /\ now[r[i].at].status = "open"
  BY Frontier, AdmissibleLosesNothing
<1> DEFINE o == r[i].at
<1>12. o \in DOMAIN now /\ now[o].status = "open" /\ now[o].g <= r[i].cost
  BY <1>4 DEF Fits, IsProblem
<1>5. PICK y \in p.estimates[e] : \E x \in p.estimates[o] : now[e].g + y <= now[o].g + x
  BY <1>1, <1>12 DEF TakenInOrder
<1>11. PICK x \in p.estimates[o] : now[e].g + y <= now[o].g + x
  BY <1>5
<1>6. now[e].g \in Nat /\ now[o].g \in Nat
  <2>1. now[e] \in Node(p) /\ now[o] \in Node(p)
    BY <1>3, <1>12 DEF Shape
  <2> QED BY <2>1 DEF Node
<1>7. x \in Nat /\ y \in Nat
  <2>1. o \in States(p) /\ e \in States(p)
    BY <1>3, <1>12 DEF Shape
  <2> QED BY <2>1 DEF IsProblem
<1>8. r[i].cost \in Nat /\ End(r).cost \in Nat
  BY RestOfPath DEF IsPlan
<1>9. End(q).cost \in Nat
  <2>1. q \in Seq(Station(p)) /\ q # <<>>
    BY <1>1 DEF Traced
  <2>2. End(q) \in Station(p)
    BY <2>1 DEF End
  <2> QED BY <2>2 DEF Station
<1>10. x <= End(r).cost - r[i].cost /\ now[o].g <= r[i].cost
  BY <1>12, EstimatesOnPlan
<1>13. now[e].g + y <= now[o].g + x /\ End(q).cost <= now[e].g
  BY <1>2, <1>3, <1>11
<1> HIDE DEF e, o
<1>14. now[o].g + x <= End(r).cost
  BY <1>6, <1>7, <1>8, <1>10
<1>15. now[e].g <= now[o].g + x
  BY <1>6, <1>7, <1>13
<1>16. now[e].g <= End(r).cost
  BY <1>6, <1>7, <1>8, <1>14, <1>15
<1> QED BY <1>6, <1>8, <1>9, <1>13, <1>16

-----------------------------------------------------------------------------
(* The bound                                                               *)

(* With the costs of the task nothing is reached beyond the bound.         *)
WithinBound(p, n) ==
    p.exact => \A s \in DOMAIN n : n[s].op # NoOperator => n[s].g < p.bound

LEMMA StaysWithinBound ==
    ASSUME NEW p, NEW now, NEW next, Expands(p, now, next), WithinBound(p, now)
    PROVE  WithinBound(p, next)
<1> SUFFICES ASSUME p.exact, NEW s \in DOMAIN next, next[s].op # NoOperator
             PROVE  next[s].g < p.bound
  BY DEF WithinBound
<1>1. PICK from \in DOMAIN now : SamePath(now, next, s) \/ NewPath(p, now, next, from, s)
  BY DEF Expands, StepFrom
<1> QED BY <1>1 DEF SamePath, NewPath, WithinBound

(* and no plan of an operator or more costs as much as it.                 *)
IsBelow(p, q) == p.exact /\ Len(q) > 1 => End(q).cost < p.bound

LEMMA TraceWithinBound ==
    ASSUME NEW p, NEW n, IsProblem(p), Shape(p, n), Linked(p, n), WithinBound(p, n),
           NEW q, Traced(p, q, n)
    PROVE  IsBelow(p, q)
<1> SUFFICES ASSUME p.exact, Len(q) > 1 PROVE End(q).cost < p.bound
  BY DEF IsBelow
<1>1. q \in Seq(Station(p)) /\ q # <<>> /\ Len(q) \in 2..Len(q) /\ Len(q) \in DOMAIN q
  BY DEF Traced
<1>2. End(q).at \in DOMAIN n /\ n[End(q).at].op # NoOperator
  BY <1>1 DEF Traced, End
<1>3. End(q).cost <= n[End(q).at].g /\ n[End(q).at].g < p.bound
  BY <1>2, TraceIsPath DEF WithinBound
<1>4. End(q).cost \in Nat /\ n[End(q).at].g \in Nat /\ p.bound \in Nat
  <2>1. End(q) \in Station(p) /\ n[End(q).at] \in Node(p)
    BY <1>1, <1>2 DEF End, Shape
  <2> QED BY <2>1 DEF Station, Node, IsProblem
<1> QED BY <1>3, <1>4

-----------------------------------------------------------------------------
(* The first nodes                                                         *)

LEMMA NothingFits ==
    ASSUME NEW p
    PROVE  Shape(p, Nothing) /\ IsTree(p, Nothing) /\ WithinBound(p, Nothing)
BY DEF Shape, Nothing, IsTree, Linked, Grounded, WithinBound

LEMMA RootFits ==
    ASSUME NEW p, IsProblem(p), NEW state \in {"open", "closed", "dead end"},
           NEW n, n = Root(p, state)
    PROVE  /\ Shape(p, n) /\ IsTree(p, n) /\ WithinBound(p, n) /\ n # Nothing
           /\ state = "open" => \A edges : IsTidy(p, n, edges)
<1> DEFINE root == [status |-> state, g |-> 0, parent |-> p.initial, op |-> NoOperator]
<1>1. p.initial \in States(p) /\ n = [s \in {p.initial} |-> root]
  BY DEF Root, IsProblem
<1>2. root \in Node(p) /\ root.op = NoOperator /\ root.g = 0 /\ root.status = state
  BY <1>1 DEF Node
<1> HIDE DEF root
<1>3. DOMAIN n = {p.initial} /\ n[p.initial] = root /\ n \in [DOMAIN n -> Node(p)]
  BY <1>1, <1>2
<1>4. Shape(p, n)
  BY <1>1, <1>3 DEF Shape
<1>5. Linked(p, n)
  BY <1>2, <1>3 DEF Linked
<1>6. Grounded(n)
  BY <1>2, <1>3 DEF Grounded
<1>7. n # Nothing
  BY <1>3 DEF Nothing
<1>8. state = "open" => \A edges : IsTidy(p, n, edges)
  BY <1>2, <1>3, <1>7 DEF IsTidy
<1>9. WithinBound(p, n)
  BY <1>2, <1>3 DEF WithinBound
<1> QED BY <1>4, <1>5, <1>6, <1>7, <1>8, <1>9 DEF IsTree

-----------------------------------------------------------------------------
(* The theorems                                                            *)

(* Every answer is a plan of the task, at the cost of its operators.       *)
PlansSound == \A q \in answers : IsPlan(problem, q)

(* Tracing back from any state the search has reached gets to a state that *)
(* no operator has created: trace_path ends (and TraceIsPath says that it  *)
(* is a path from the initial state).                                      *)
Traceable ==
    \A s \in DOMAIN nodes : \E q : Traced(problem, q, nodes) /\ End(q).at = s

(* A* with an admissible evaluator answers with a plan that no other plan  *)
(* below the bound undercuts, and fails only when there is none below it.  *)
AStarOptimal ==
    problem.astar /\ Admissible(problem) =>
        /\ \A q \in answers : NothingCheaper(problem, End(q).cost)
        /\ status = "FAILED" =>
             \A r : IsPlan(problem, r) => ~(End(r).cost < problem.bound)

(* A thorough search with a safe evaluator fails only if there is no plan, *)
(* or, if it reopens states, none below its bound; and whatever has been   *)
(* reopened or has got another parent since its successors were looked at, *)
(* a search with the costs of the task answers with a plan below the bound *)
(* (unless nothing needs to be done).                                      *)
MissesNothing ==
    problem.thorough /\ Safe(problem) /\ status = "FAILED" =>
        \A r : IsPlan(problem, r) => problem.reopens /\ ~(End(r).cost < problem.bound)

KeepsBound == \A q \in answers : IsBelow(problem, q)

TidyOrder ==
    status = "IN_PROGRESS" =>
        /\ problem.thorough => IsTidy(problem, nodes, pending)
        /\ problem.astar => pending = {}

ConsistentOrder ==
    problem.astar /\ status = "IN_PROGRESS" =>
        \A h : IsConsistent(problem, h) => IsOrdered(nodes, h)

(* With a consistent evaluator A* reopens no state: a closed one keeps its *)
(* status and its path.  (The search has no test for this, as a comment in *)
(* EagerSearch::step regrets.)                                             *)
NeverReopens ==
    [][problem.astar /\ status = "IN_PROGRESS" /\ status' = "IN_PROGRESS"
          /\ (\E h : IsConsistent(problem, h)) =>
       \A s \in DOMAIN nodes : nodes[s].status = "closed" =>
           s \in DOMAIN nodes' /\ nodes'[s] = nodes[s]]_spaceVars

SpaceInv ==
    /\ SpaceTypeOK
    /\ IsTree(problem, nodes)
    /\ WithinBound(problem, nodes)
    /\ TidyOrder
    /\ ConsistentOrder
    /\ PlansSound
    /\ KeepsBound
    /\ MissesNothing
    /\ AStarOptimal

(* A search starts right.                                                  *)
LEMMA StartedFits ==
    ASSUME NEW p, NEW n, NEW edges, NEW found, Started(p, n, edges, found)
    PROVE  /\ IsProblem(p) /\ Shape(p, n) /\ IsTree(p, n) /\ WithinBound(p, n) /\ found = {}
           /\ p.thorough => IsTidy(p, n, edges)
           /\ p.astar => edges = {}
           /\ \A h : IsOrdered(n, h)
<1>1. IsProblem(p) /\ found = {} /\ (n = Nothing \/ n = Root(p, "open"))
      /\ (p.thorough /\ n = Nothing => Lost(p, p.initial) \/ edges # {})
      /\ (p.astar => edges = {})
  BY DEF Started
<1>2. \A s \in DOMAIN n : n[s].status = "open"
  BY <1>1 DEF Nothing, Root
<1>3. \A h : IsOrdered(n, h)
  BY <1>2 DEF IsOrdered
<1>4. CASE n = Root(p, "open")
  BY <1>1, <1>3, <1>4, RootFits
<1>5. CASE n = Nothing
  <2>1. Shape(p, n) /\ IsTree(p, n) /\ WithinBound(p, n)
    BY <1>5, NothingFits
  <2>2. DOMAIN n = {}
    BY <1>5 DEF Nothing
  <2>3. p.thorough => IsTidy(p, n, edges)
    BY <1>1, <1>5, <2>2 DEF IsTidy
  <2> QED BY <1>1, <1>3, <2>1, <2>3
<1> QED BY <1>1, <1>4, <1>5

(* A step on the nodes keeps their shape and their tree.                   *)
LEMMA ExpandsFits ==
    ASSUME NEW p, NEW now, NEW next, IsProblem(p), Shape(p, now), IsTree(p, now),
           WithinBound(p, now), Expands(p, now, next)
    PROVE  Shape(p, next) /\ IsTree(p, next) /\ WithinBound(p, next)
<1>1. Shape(p, next)
  BY DEF Expands, Shape
<1>2. Linked(p, next)
  BY StaysLinked DEF IsTree
<1>3. Grounded(next)
  BY StaysGrounded
<1>4. WithinBound(p, next)
  BY StaysWithinBound
<1> QED BY <1>1, <1>2, <1>3, <1>4 DEF IsTree

LEMMA FindsPlan ==
    ASSUME NEW p, NEW now, NEW next, IsProblem(p), Shape(p, next), IsTree(p, next),
           WithinBound(p, next), NEW q, Finds(p, now, next, q)
    PROVE  IsPlan(p, q) /\ IsBelow(p, q)
<1>1. Traced(p, q, next) /\ End(q).at \in p.goals /\ Linked(p, next)
  BY DEF Finds, IsTree
<1>2. IsPath(p, q) /\ q[1].at = p.initial
  BY <1>1, TraceIsPath
<1>3. IsBelow(p, q)
  BY <1>1, TraceWithinBound
<1> QED BY <1>1, <1>2, <1>3 DEF IsPlan

(* When nothing is left, the failure is justified.                         *)
LEMMA FailsRightly ==
    ASSUME NEW p, NEW n, NEW edges, IsProblem(p), Shape(p, n), IsTree(p, n),
           IsTidy(p, n, edges), Exhausted(p, n, edges)
    PROVE  /\ Safe(p) => \A r : IsPlan(p, r) => p.reopens /\ ~(End(r).cost < p.bound)
           /\ p.astar /\ Admissible(p) => \A r : IsPlan(p, r) => ~(End(r).cost < p.bound)
<1>1. edges = {} /\ IsTidy(p, n, {}) /\ \A s \in DOMAIN n : n[s].status = "open" => Lost(p, s)
  BY DEF Exhausted
<1>2. ASSUME Safe(p), NEW r, IsPlan(p, r)
      PROVE  p.reopens /\ ~(End(r).cost < p.bound)
  BY <1>1, <1>2, NothingMissed, SafeLosesNothing
<1>3. ASSUME p.astar, Admissible(p), NEW r, IsPlan(p, r), End(r).cost < p.bound
      PROVE  FALSE
  BY <1>1, <1>3, NothingMissed, AdmissibleLosesNothing
<1> QED BY <1>2, <1>3

LEMMA SpaceInductive == SpaceInv /\ [Next]_spaceVars => SpaceInv'
<1> SUFFICES ASSUME SpaceInv, [Next]_spaceVars PROVE SpaceInv'
  OBVIOUS
<1>1. /\ IsProblem(problem) /\ Shape(problem, nodes) /\ IsTree(problem, nodes)
      /\ WithinBound(problem, nodes)
      /\ TidyOrder /\ ConsistentOrder /\ PlansSound /\ KeepsBound /\ MissesNothing /\ AStarOptimal
  BY DEF SpaceInv, SpaceTypeOK
<1> DEFINE Failure(p) ==
             /\ p.thorough /\ Safe(p) =>
                  \A r : IsPlan(p, r) => p.reopens /\ ~(End(r).cost < p.bound)
             /\ p.astar /\ Admissible(p) =>
                  \A r : IsPlan(p, r) => ~(End(r).cost < p.bound)
<1>2. CASE OpenInitial
  <2>1. status = "IN_PROGRESS" /\ ~problem.astar /\ problem' = problem /\ nodes = Nothing
    BY <1>2 DEF OpenInitial
  <2>2. PICK state \in {"open", "closed", "dead end"} : nodes' = Root(problem, state)
    BY <1>2 DEF OpenInitial
  <2>3. /\ Shape(problem, nodes') /\ IsTree(problem, nodes') /\ WithinBound(problem, nodes')
        /\ nodes' # Nothing
    BY <1>1, <2>2, RootFits
  <2>4. CASE /\ answers' = {}
             /\ problem.thorough => ThoroughStep(problem, Nothing, nodes', pending, pending')
             /\ GoesOn(problem, nodes', pending')
    <3>1. problem.thorough => IsTidy(problem, nodes', pending')
      BY <2>3, <2>4, RootTidy
    <3>2. TidyOrder'
      BY <2>1, <3>1 DEF TidyOrder
    <3>3. status' = "FAILED" => MissesNothing'
      BY <1>1, <2>1, <2>3, <2>4, <3>1, FailsRightly DEF MissesNothing, GoesOn
    <3>4. MissesNothing'
      BY <3>3 DEF MissesNothing
    <3> QED BY <1>1, <2>1, <2>3, <2>4, <3>2, <3>4
            DEF SpaceInv, SpaceTypeOK, PlansSound, KeepsBound, AStarOptimal, ConsistentOrder
  <2>5. CASE (\E q \in answers' : answers' = {q} /\ Finds(problem, Nothing, nodes', q))
             /\ status' = "SOLVED"
    <3>1. \A q \in answers' : IsPlan(problem, q) /\ IsBelow(problem, q)
      BY <1>1, <2>3, <2>5, FindsPlan
    <3> QED BY <1>1, <2>1, <2>3, <2>5, <3>1
            DEF SpaceInv, SpaceTypeOK, TidyOrder, PlansSound, KeepsBound, MissesNothing,
                AStarOptimal, ConsistentOrder
  <2> QED BY <1>2, <2>4, <2>5 DEF OpenInitial
<1>3. CASE Advance
  <2>1. /\ status = "IN_PROGRESS" /\ problem' = problem /\ answers' = answers
        /\ Expands(problem, nodes, nodes')
        /\ problem.thorough => ThoroughStep(problem, nodes, nodes', pending, pending')
        /\ problem.astar => AStarStep(problem, nodes, nodes') /\ pending' = {}
        /\ GoesOn(problem, nodes', pending')
    BY <1>3 DEF Advance
  <2>2. Shape(problem, nodes') /\ IsTree(problem, nodes') /\ WithinBound(problem, nodes')
    BY <1>1, <2>1, ExpandsFits
  <2>3. problem.thorough => IsTidy(problem, nodes', pending')
    BY <1>1, <2>1, StaysTidy DEF TidyOrder
  <2>4. TidyOrder'
    BY <2>1, <2>3 DEF TidyOrder
  <2>5. PlansSound' /\ KeepsBound'
    BY <1>1, <2>1 DEF PlansSound, KeepsBound
  <2>6. status' = "FAILED" => Failure(problem)
    <3> SUFFICES ASSUME status' = "FAILED" PROVE Failure(problem)
      OBVIOUS
    <3>1. problem.thorough => Exhausted(problem, nodes', pending') /\ IsTidy(problem, nodes', pending')
      BY <2>1, <2>3 DEF GoesOn
    <3>2. problem.astar => problem.thorough
      BY <1>1 DEF IsProblem
    <3> QED BY <1>1, <2>2, <3>1, <3>2, FailsRightly
  <2>7. MissesNothing' /\ AStarOptimal'
    BY <1>1, <2>1, <2>6 DEF MissesNothing, AStarOptimal
  <2>8. ConsistentOrder'
    <3> SUFFICES ASSUME problem.astar, NEW h, IsConsistent(problem, h)
                 PROVE  IsOrdered(nodes', h)
      BY <2>1 DEF ConsistentOrder
    <3>1. IsOrdered(nodes, h)
      BY <1>1, <2>1 DEF ConsistentOrder
    <3> QED BY <1>1, <2>1, <3>1, StaysOrdered
  <2> QED BY <1>1, <2>1, <2>2, <2>4, <2>5, <2>7, <2>8 DEF SpaceInv, SpaceTypeOK
<1>4. CASE Solve
  <2>1. /\ status = "IN_PROGRESS" /\ status' = "SOLVED" /\ problem' = problem
        /\ Expands(problem, nodes, nodes')
        /\ \A q \in answers' : Finds(problem, nodes, nodes', q)
    BY <1>4 DEF Solve
  <2>2. Shape(problem, nodes') /\ IsTree(problem, nodes') /\ WithinBound(problem, nodes')
    BY <1>1, <2>1, ExpandsFits
  <2>3. \A q \in answers' : IsPlan(problem, q) /\ IsBelow(problem, q)
    BY <1>1, <2>1, <2>2, FindsPlan
  <2>4. problem.astar /\ Admissible(problem) =>
            \A q \in answers' : NothingCheaper(problem, End(q).cost)
    <3> SUFFICES ASSUME problem.astar, Admissible(problem), NEW q \in answers'
                 PROVE  NothingCheaper(problem, End(q).cost)
      OBVIOUS
    <3>1. IsTidy(problem, nodes, {}) /\ Finds(problem, nodes, nodes', q)
      BY <1>1, <2>1 DEF TidyOrder, IsProblem
    <3>2. Linked(problem, nodes')
      BY <2>2 DEF IsTree
    <3> QED BY <1>1, <2>2, <3>1, <3>2, TakenIsCheapest
  <2>5. AStarOptimal'
    BY <2>1, <2>4 DEF AStarOptimal
  <2> QED BY <1>1, <2>1, <2>2, <2>3, <2>5
          DEF SpaceInv, SpaceTypeOK, TidyOrder, PlansSound, KeepsBound, MissesNothing, ConsistentOrder
<1>5. CASE GiveUp
  <2>1. /\ status = "IN_PROGRESS" /\ status' = "FAILED" /\ pending' = {}
        /\ problem' = problem /\ nodes' = nodes /\ answers' = answers
        /\ problem.thorough => /\ Exhausted(problem, nodes, {})
                              /\ \A edge \in pending : Followed(problem, nodes, edge)
    BY <1>5 DEF GiveUp
  <2>2. problem.thorough => IsTidy(problem, nodes, {})
    <3> SUFFICES ASSUME problem.thorough PROVE IsTidy(problem, nodes, {})
      OBVIOUS
    <3>1. IsTidy(problem, nodes, pending) /\ Exhausted(problem, nodes, {})
      BY <1>1, <2>1 DEF TidyOrder
    <3>2. ASSUME NEW s \in DOMAIN nodes, Expanded(problem, nodes, pending, s)
          PROVE  Expanded(problem, nodes, {}, s)
      BY <2>1, <3>2 DEF Expanded, Followed
    <3> QED BY <3>1, <3>2 DEF IsTidy, Exhausted
  <2>3. Failure(problem)
    BY <1>1, <2>1, <2>2, FailsRightly DEF IsProblem
  <2>4. MissesNothing' /\ AStarOptimal'
    BY <1>1, <2>1, <2>3 DEF MissesNothing, AStarOptimal
  <2> QED BY <1>1, <2>1, <2>4 DEF SpaceInv, SpaceTypeOK, TidyOrder, PlansSound, KeepsBound, ConsistentOrder
<1>6. CASE TimeOut
  BY <1>1, <1>6 DEF TimeOut, SpaceInv, SpaceTypeOK, TidyOrder, PlansSound, KeepsBound, MissesNothing,
                    AStarOptimal, ConsistentOrder
<1>7. CASE Start
  <2>1. Started(problem', nodes', pending', answers') /\ status' # "FAILED"
    BY <1>7 DEF Start, FirstStatus
  <2>2. /\ IsProblem(problem') /\ Shape(problem', nodes') /\ IsTree(problem', nodes')
        /\ WithinBound(problem', nodes') /\ answers' = {}
        /\ (problem'.thorough => IsTidy(problem', nodes', pending'))
        /\ (problem'.astar => pending' = {})
        /\ \A h : IsOrdered(nodes', h)
    BY <2>1, StartedFits
  <2> QED BY <2>1, <2>2 DEF SpaceInv, SpaceTypeOK, TidyOrder, PlansSound, KeepsBound, MissesNothing,
                           AStarOptimal, ConsistentOrder
<1>8. CASE UNCHANGED spaceVars
  BY <1>1, <1>8 DEF spaceVars, SpaceInv, SpaceTypeOK, TidyOrder, PlansSound, KeepsBound, MissesNothing,
                    AStarOptimal, ConsistentOrder
<1> QED BY <1>2, <1>3, <1>4, <1>5, <1>6, <1>7, <1>8 DEF Next

LEMMA SpaceInitial == Init => SpaceInv
<1> SUFFICES ASSUME Init PROVE SpaceInv
  OBVIOUS
<1>1. Started(problem, nodes, pending, answers) /\ status # "FAILED"
  BY DEF Init, FirstStatus
<1>2. /\ IsProblem(problem) /\ Shape(problem, nodes) /\ IsTree(problem, nodes)
      /\ WithinBound(problem, nodes) /\ answers = {}
      /\ (problem.thorough => IsTidy(problem, nodes, pending))
      /\ (problem.astar => pending = {})
      /\ \A h : IsOrdered(nodes, h)
  BY <1>1, StartedFits
<1> QED BY <1>1, <1>2 DEF SpaceInv, SpaceTypeOK, TidyOrder, PlansSound, KeepsBound, MissesNothing,
                         AStarOptimal, ConsistentOrder

(* In every search the nodes form a tree, and closed states and dead ends  *)
(* of A* are what they stand for.                                          *)
THEOREM SpaceInvariant == Spec => []SpaceInv
BY SpaceInitial, SpaceInductive, PTL DEF Spec

(* trace_path ends, from whatever state it starts.                         *)
THEOREM TracingEnds == Spec => []Traceable
<1>1. SpaceInv => Traceable
  BY HasTrace DEF SpaceInv, SpaceTypeOK, Traceable
<1> QED BY <1>1, SpaceInvariant, PTL

(* Every search answers with a plan.                                       *)
THEOREM AnswersArePlans == Spec => []PlansSound
<1>1. SpaceInv => PlansSound
  BY DEF SpaceInv
<1> QED BY <1>1, SpaceInvariant, PTL

(* Every answer of a search with the costs of the task is below the bound. *)
THEOREM PlansKeepBound == Spec => []KeepsBound
<1>1. SpaceInv => KeepsBound
  BY DEF SpaceInv
<1> QED BY <1>1, SpaceInvariant, PTL

(* A thorough search with a safe evaluator does not fail while there is a  *)
(* plan for it.                                                            *)
THEOREM ThoroughIsComplete == Spec => []MissesNothing
<1>1. SpaceInv => MissesNothing
  BY DEF SpaceInv
<1> QED BY <1>1, SpaceInvariant, PTL

(* A* with an admissible evaluator answers with a cheapest plan.           *)
THEOREM AStarIsOptimal == Spec => []AStarOptimal
<1>1. SpaceInv => AStarOptimal
  BY DEF SpaceInv
<1> QED BY <1>1, SpaceInvariant, PTL

(* A* with a consistent evaluator reopens nothing.                         *)
THEOREM NoneReopened == Spec => NeverReopens
<1>1. SpaceInv /\ [Next]_spaceVars =>
        [problem.astar /\ status = "IN_PROGRESS" /\ status' = "IN_PROGRESS"
            /\ (\E h : IsConsistent(problem, h)) =>
         \A s \in DOMAIN nodes : nodes[s].status = "closed" =>
             s \in DOMAIN nodes' /\ nodes'[s] = nodes[s]]_spaceVars
  <2> SUFFICES ASSUME SpaceInv, Next, problem.astar, status = "IN_PROGRESS",
                      status' = "IN_PROGRESS", NEW h, IsConsistent(problem, h)
               PROVE  \A s \in DOMAIN nodes : nodes[s].status = "closed" =>
                          s \in DOMAIN nodes' /\ nodes'[s] = nodes[s]
    OBVIOUS
  <2>1. Advance
    BY DEF Next, OpenInitial, Solve, GiveUp, TimeOut, Start
  <2>2. Expands(problem, nodes, nodes') /\ AStarStep(problem, nodes, nodes')
    BY <2>1 DEF Advance
  <2>3. IsProblem(problem) /\ Shape(problem, nodes) /\ IsOrdered(nodes, h)
    BY DEF SpaceInv, SpaceTypeOK, ConsistentOrder
  <2> QED BY <2>2, <2>3, StaysOrdered
<1> QED BY <1>1, SpaceInvariant, PTL DEF Spec, NeverReopens
=============================================================================
