----------------------------- MODULE Shrinking ------------------------------
(***************************************************************************)
(* Shrinking and pruning: which states of a factor become one.  A shrink   *)
(* strategy gives a set of results, of which it takes one at random.       *)
(***************************************************************************)
EXTENDS TransitionSystems

(* Bisimulation starts from a group for the goal states and one for each   *)
(* distance, and splits groups whose states have other successors.  Groups *)
(* are numbered as they are found; in a round, groups of small distance    *)
(* are split first.                                                        *)

DistinctInOrder(s) == FoldLeft(LAMBDA d, x : IF Contains(d, x) THEN d ELSE Append(d, x), <<>>, s)

(* h value, -1 for a goal state                                            *)
HAndGoal(f, s) == IF s \in f.ts.goals THEN -1 ELSE f.dist.goal[s + 1]

(* the group of each state and how many there are                          *)
InitializeGroups(levels) ==
    LET found == DistinctInOrder(SelectSeq(levels, LAMBDA h : h # -1))
        number(h) == IF h = -1 THEN 0 ELSE CHOOSE k \in DOMAIN found : found[k] = h
    IN  [group |-> [i \in DOMAIN levels |-> number(levels[i])], number |-> 1 + Len(found)]

(* greedily, transitions that are not on a shortest path do not count      *)
IsOnShortestPath(dist, x, cost) ==
    dist[x[2] + 1] # Infinity /\ dist[x[2] + 1] + cost = dist[x[1] + 1]

(* the pairs of a label group and a successor's group, in order, each as   *)
(* one number                                                              *)
SuccessorSignature(f, group, greedy, s) ==
    Ascending(UNION {{i * f.ts.size + group[x[2] + 1] :
        x \in {x \in f.ts.groups[i].transitions :
                   x[1] = s /\ (greedy => IsOnShortestPath(f.dist.goal, x, f.ts.groups[i].cost))}} :
        i \in DOMAIN f.ts.groups})

ComputeSignatures(f, group, greedy) ==
    FoldLeft(LAMBDA r, i : Append(r, SuccessorSignature(f, group, greedy, i - 1)), <<>>,
             [i \in DOMAIN group |-> i])

LessSignature(p, q) ==
    \E k \in DOMAIN q : /\ \A j \in 1..(k - 1) : j <= Len(p) /\ p[j] = q[j]
                        /\ k > Len(p) \/ p[k] < q[k]

(* the order of states (here from 1) in a round                            *)
Before(group, signature, i, j) ==
    \/ group[i] < group[j]
    \/ group[i] = group[j] /\ LessSignature(signature[i], signature[j])
    \/ group[i] = group[j] /\ signature[i] = signature[j] /\ i < j

InOrder(group, signature, L) ==
    [k \in 1..Cardinality(L) |->
        CHOOSE i \in L : Cardinality({j \in L : Before(group, signature, j, i)}) = k - 1]

(* y: the split of a level so far; prev is the state before (0: none)      *)
SplitState(y, i, group, signature, target) ==
    LET new == y.prev # 0 /\ group[y.prev] = group[i] /\ signature[y.prev] # signature[i]
        no == IF new THEN y.number
              ELSE IF y.prev # 0 /\ group[y.prev] = group[i] THEN y.current ELSE group[i]
    IN  IF y.number = target THEN y
        ELSE [y EXCEPT !.group[i] = no, !.current = no, !.prev = i,
                       !.number = IF new THEN @ + 1 ELSE @]

SplitLevel(x, L, group, signature, target, return) ==
    LET old == Cardinality({group[i] : i \in L})
        new == Cardinality({<<group[i], signature[i]>> : i \in L})
        split == FoldLeft(LAMBDA y, i : SplitState(y, i, group, signature, target),
                          [group |-> x.group, number |-> x.number, current |-> -1, prev |-> 0],
                          InOrder(group, signature, L))
    IN  IF x.stop \/ x.number = target THEN x
        ELSE IF return /\ x.number - old + new > target THEN [x EXCEPT !.stop = TRUE]
        ELSE IF new = old THEN x
        ELSE [x EXCEPT !.stable = FALSE, !.group = split.group, !.number = split.number]

SplitRound(x, levels, signature, target, return) ==
    FoldLeft(LAMBDA y, h : SplitLevel(y, {i \in DOMAIN levels : levels[i] = h}, x.group, signature,
                                      target, return),
             [x EXCEPT !.stable = TRUE], Ascending(Range(levels)))

ClassesOf(group, number) == [k \in 1..number |-> {i - 1 : i \in {i \in DOMAIN group : group[i] = k - 1}}]

Bisimulation(f, strategy, target, levels) ==
    LET start == InitializeGroups(levels) @@ [stable |-> FALSE, stop |-> FALSE]
        end == While(LAMBDA x : ~x.stable /\ ~x.stop /\ x.number < target,
                     LAMBDA x : SplitRound(x, levels, ComputeSignatures(f, x.group, strategy.greedy),
                                           target, strategy.atLimit = "return"),
                     start)
    IN  ClassesOf(end.group, end.number)

-----------------------------------------------------------------------------
(* Bucket-based strategies: as many states as the limit leaves room for    *)
(* stay single, the states of a bucket are combined at random; buckets are *)
(* combined only if there is no other way.                                 *)

(* the partitions of a set of states into n sets: made by combining any    *)
(* two of them until n are left                                            *)
RECURSIVE Partitions(_, _)
Partitions(B, n) ==
    IF n = Cardinality(B) THEN {{{s} : s \in B}}
    ELSE UNION {{(P \ pair) \cup {UNION pair} : pair \in kSubset(2, P)} : P \in Partitions(B, n + 1)}

AddBucket(classes, B, rest, remaining, target) ==
    LET room == target - Len(classes)
        budget == room - rest
    IN  IF budget >= Cardinality(B) THEN {classes \o Listed({{s} : s \in B})}
        ELSE IF budget > 1 THEN {classes \o Listed(P) : P \in Partitions(B, budget)}
        ELSE IF room >= remaining \/ classes = <<>> THEN {Append(classes, B)}
        ELSE {[classes EXCEPT ![Len(classes)] = @ \cup B]}

(* rest: states in the buckets after k                                     *)
ComputeAbstraction(buckets, target) ==
    FoldLeft(LAMBDA found, k : UNION {
                 AddBucket(c, buckets[k], SumOver((k + 1)..Len(buckets), LAMBDA j : Cardinality(buckets[j])),
                           Len(buckets) - k + 1, target) : c \in found},
             {<<>>}, [k \in DOMAIN buckets |-> k])

(* f value, or Infinity                                                    *)
FValue(f, s) == Plus(f.dist.init[s + 1], f.dist.goal[s + 1])

Directed(values, high) == IF high THEN Reverse(Ascending(values)) ELSE Ascending(values)

OrderedBuckets(f, fHigh, hHigh) ==
    LET all == AbstractStates(f.ts)
        with(v) == {s \in all : FValue(f, s) = v}
        hs(B) == Directed({f.dist.goal[s + 1] : s \in B}, hHigh)
        fs == Directed({FValue(f, s) : s \in all}, fHigh)
    IN  FlattenSeq([k \in DOMAIN fs |-> [j \in DOMAIN hs(with(fs[k])) |->
            {s \in with(fs[k]) : f.dist.goal[s + 1] = hs(with(fs[k]))[j]}]])

ComputeEquivalenceRelation(f, strategy, target) ==
    CASE strategy.kind = "bisimulation" ->
            {Bisimulation(f, strategy, target, [i \in 1..f.ts.size |-> HAndGoal(f, i - 1)])}
      [] strategy.kind = "fh" ->
            ComputeAbstraction(OrderedBuckets(f, strategy.fHigh, strategy.hHigh), target)
      [] OTHER -> ComputeAbstraction(<<AbstractStates(f.ts)>>, target)

-----------------------------------------------------------------------------
(* Before a merge, in sizes that keep the product within its limit; root   *)
(* is the integer square root                                              *)

SquareRoot(n) == Max({k \in 0..n : k * k <= n})

ComputeShrinkSizes(size1, size2, limits) ==
    LET new1 == Min({size1, limits.before})
        new2 == Min({size2, limits.before})
        root == SquareRoot(limits.states)
    IN  CASE new1 <= limits.states \div new2 -> <<new1, new2>>
          [] new1 <= root -> <<new1, limits.states \div new1>>
          [] new2 <= root -> <<limits.states \div new2, new2>>
          [] OTHER -> <<root, root>>

MustShrink(f, size, limits) == f.ts.size > Min({size, limits.threshold})

ShrinkFactor(fts, i, size, limits, strategy) ==
    IF MustShrink(fts.factors[i], size, limits)
    THEN {ApplyToFactor(fts, i, c) : c \in ComputeEquivalenceRelation(fts.factors[i], strategy, size)}
    ELSE {fts}

SizesFor(fts, pair, limits) ==
    ComputeShrinkSizes(fts.factors[pair[1]].ts.size, fts.factors[pair[2]].ts.size, limits)

ShrinkToSizes(fts, pair, sizes, limits, strategy) ==
    FoldLeft(LAMBDA found, k :
                 UNION {ShrinkFactor(x, pair[k], sizes[k], limits, strategy) : x \in found},
             {fts}, <<1, 2>>)

ShrinkBeforeMergeStep(fts, pair, limits, strategy) ==
    ShrinkToSizes(fts, pair, SizesFor(fts, pair, limits), limits, strategy)

(* prune: which states go, unreachable ones and ones without a way on      *)
IsPruned(f, prune, s) ==
    \/ "unreachable" \in prune /\ f.dist.init[s + 1] = Infinity
    \/ "irrelevant" \in prune /\ f.dist.goal[s + 1] = Infinity

PruneStep(fts, i, prune) ==
    IF prune = {} THEN fts
    ELSE ApplyToFactor(fts, i, LET f == fts.factors[i]
        IN  FoldLeft(LAMBDA c, s : Append(c, {s}), <<>>,
                     Ascending({s \in AbstractStates(f.ts) : ~IsPruned(f, prune, s)})))

IsGoalRelevant(ts) == ts.goals # AbstractStates(ts)
=============================================================================
