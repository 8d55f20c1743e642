--------------------------- MODULE MergeAndShrink ---------------------------
(***************************************************************************)
(* The merge-and-shrink algorithm.  A run is [fts, m, phase, pair]; a time *)
(* limit ends it after any of its phases, so that the factors of each run  *)
(* that is reached may become the heuristic.                               *)
(***************************************************************************)
EXTENDS Shrinking, GraphAlgorithms

(* Which two factors merge-and-shrink merges next: as a merge tree made    *)
(* beforehand says, or by scores, over all factors or over those of one    *)
(* component of the causal graph after the other.  Random choices give     *)
(* sets of results.                                                        *)

(* A merge tree: a leaf is [index], the merge of two trees [left, right].  *)

MergeLeaf(i) == [index |-> i]
Join(left, right) == [left |-> left, right |-> right]
IsLeaf(tree) == "index" \in DOMAIN tree

(* the first variable gives the lowest leaf on the left                    *)
LinearMergeTree(order) ==
    FoldLeft(LAMBDA tree, v : Join(tree, MergeLeaf(v)), MergeLeaf(order[1]), Tail(order))

(* the left-most pair of leaves, and the tree with a leaf new in its place *)
RECURSIVE GetNextMerge(_, _)
GetNextMerge(tree, new) ==
    LET below == GetNextMerge(IF IsLeaf(tree.left) THEN tree.right ELSE tree.left, new)
    IN  IF IsLeaf(tree.left) /\ IsLeaf(tree.right)
        THEN [pair |-> <<tree.left.index, tree.right.index>>, tree |-> MergeLeaf(new)]
        ELSE [pair |-> below.pair,
              tree |-> IF IsLeaf(tree.left) THEN [tree EXCEPT !.right = below.tree]
                       ELSE [tree EXCEPT !.left = below.tree]]

-----------------------------------------------------------------------------
(* Scores, as fractions <<numerator, denominator>>; small ones are good    *)

Score(n) == <<n, 1>>
Better(a, b) == a[1] * b[2] < b[1] * a[2]

(* the smallest distance a label leads to, Infinity for a dead one, and -1 *)
(* for one that leaves every state as it is                                *)
LabelRank(f, group) ==
    IF group.transitions = {<<s, s>> : s \in AbstractStates(f.ts)} THEN -1
    ELSE Min({f.dist.goal[x[2] + 1] : x \in group.transitions} \cup {Infinity})

LabelRanks(fts, f) == [l \in ActiveLabels(fts.costs) |-> LabelRank(f, f.ts.groups[GroupIndex(f.ts, l)])]

DfpScore(ranks1, ranks2) ==
    Min({Max({ranks1[l], ranks2[l]}) :
            l \in {l \in DOMAIN ranks1 : ranks1[l] # -1 /\ ranks2[l] # -1}} \cup {Infinity})

GoalRelevanceScore(fts, pair) ==
    IF \E i \in {pair[1], pair[2]} : IsGoalRelevant(fts.factors[i].ts) THEN 0 ELSE Infinity

(* the orders of the options; random ones are given                        *)
AtomicOrder(n, level) == IF level THEN [i \in 1..n |-> n + 1 - i] ELSE [i \in 1..n |-> i]
ProductOrder(n, newest) == [k \in 1..(n - 1) |-> IF newest THEN 2 * n - k ELSE n + k]

TransitionSystemsInOrder(n, o) ==
    IF o.atomicFirst THEN AtomicOrder(n, o.level) \o ProductOrder(n, o.newest)
    ELSE ProductOrder(n, o.newest) \o AtomicOrder(n, o.level)

(* pairs in lexicographic order of their positions                         *)
TotalOrderScore(order, pair) ==
    LET at == {k \in DOMAIN order : order[k] \in {pair[1], pair[2]}}
    IN  Min(at) * Len(order) + Max(at)

(* what a merge with shrinking before it would leave alive; the strategy   *)
(* is one without random choices (the code may cache the scores by pair)   *)
ShrunkOutside(fts, i, size, limits, strategy) ==
    (CHOOSE x \in ShrinkFactor(fts, i, size, limits, strategy) : TRUE).factors[i].ts

Product(costs, systems) == MergeSystems(costs, systems[1], systems[2])

ShrinkBeforeMergeExternally(fts, pair, sizes, limits, strategy) ==
    Product(fts.costs, [k \in 1..2 |-> ShrunkOutside(fts, pair[k], sizes[k], limits, strategy)])

AliveRatio(ts, dist) ==
    <<Cardinality({s \in AbstractStates(ts) :
          dist.init[s + 1] # Infinity /\ dist.goal[s + 1] # Infinity}), ts.size>>

MiasmScore(ts) == AliveRatio(ts, ComputeDistances(ts, {"init", "goal"}))

ComputeScore(fts, f, pair) ==
    CASE f.kind = "dfp" -> Score(DfpScore(LabelRanks(fts, fts.factors[pair[1]]),
                                          LabelRanks(fts, fts.factors[pair[2]])))
      [] f.kind = "goal_relevance" -> Score(GoalRelevanceScore(fts, pair))
      [] f.kind = "total_order" -> Score(TotalOrderScore(f.order, pair))
      [] OTHER -> MiasmScore(ShrinkBeforeMergeExternally(
                          fts, pair, SizesFor(fts, pair, f.limits), f.limits, f.strategy))

-----------------------------------------------------------------------------
(* Selection: each scoring function in turn keeps the best candidates; a   *)
(* candidate is a pair of factors, the first one before the second         *)

BestOf(scores) == {c \in DOMAIN scores : \A d \in DOMAIN scores : ~Better(scores[d], scores[c])}

RemainingCandidates(fts, f, candidates) ==
    IF f.kind = "single_random" THEN {{c} : c \in candidates}
    ELSE {BestOf([c \in candidates |-> ComputeScore(fts, f, c)])}

ComputeMergeCandidates(indices) ==
    {<<indices[x[1]], indices[x[2]]>> :
        x \in {x \in (DOMAIN indices) \X (DOMAIN indices) : x[1] < x[2]}}

(* no pair, the code's error exit, if several candidates are left          *)
SelectMerge(fts, functions, indices) ==
    {CHOOSE c \in C : TRUE : C \in {C \in
        FoldLeft(LAMBDA found, f : UNION {
                     IF Cardinality(C) = 1 THEN {C} ELSE RemainingCandidates(fts, f, C) : C \in found},
                 {ComputeMergeCandidates(indices)}, functions) : Cardinality(C) = 1}}

-----------------------------------------------------------------------------
(* Strategies: tree holds the merge tree that is left; sccs the components *)
(* to come and current the factors of the one at hand                      *)

NonSingletonSccs(cg, order) ==
    LET graph == [v \in DOMAIN cg.successors |-> Ascending(cg.successors[v])]
        sccs == MaximalSccs(graph)
        bySize == SortSeq(sccs, LAMBDA a, b : Len(a) < Len(b))
    IN  SelectSeq(CASE order = "topological" -> sccs
                    [] order = "reverse_topological" -> Reverse(sccs)
                    [] order = "increasing" -> bySize
                    [] OTHER -> Reverse(bySize),
                  LAMBDA C : Len(C) > 1)

StartStrategy(t, cg, strategy) ==
    CASE strategy.kind = "precomputed" ->
            [tree |-> LinearMergeTree(VariableOrder(t, cg, strategy.order, strategy.shuffled))]
      [] strategy.kind = "sccs" ->
            [sccs |-> NonSingletonSccs(cg, strategy.order), current |-> <<>>]
      [] OTHER -> [none |-> 0]

(* the factors to choose from: those of the component at hand with the     *)
(* latest product, those of the next one, in the end all of them           *)
CurrentIndices(fts, m) ==
    IF m.current # <<>> THEN Append(m.current, Len(fts.factors))
    ELSE IF m.sccs = <<>> THEN Ascending(ActiveFactors(fts))
    ELSE Head(m.sccs)

AfterSelection(m, indices, pair) ==
    [sccs |-> IF m.current = <<>> /\ m.sccs # <<>> THEN Tail(m.sccs) ELSE m.sccs,
     current |-> SelectSeq(indices, LAMBDA i : i \notin {pair[1], pair[2]})]

GetNextOfTree(next) == {[pair |-> next.pair, m |-> [tree |-> next.tree]]}

GetNextOf(fts, strategy, m, indices) ==
    {[pair |-> p, m |-> IF strategy.kind = "sccs" THEN AfterSelection(m, indices, p) ELSE m] :
        p \in SelectMerge(fts, strategy.functions, indices)}

GetNext(fts, strategy, m) ==
    IF strategy.kind = "precomputed" THEN GetNextOfTree(GetNextMerge(m.tree, Len(fts.factors) + 1))
    ELSE GetNextOf(fts, strategy, m, IF strategy.kind = "sccs" THEN CurrentIndices(fts, m)
                                     ELSE Ascending(ActiveFactors(fts)))

-----------------------------------------------------------------------------
(* what the user left out (-1) of the limits on the sizes                  *)
ShrinkLimits(states, before, threshold, limit) ==
    LET s == IF states = -1 /\ before = -1 THEN 50000 ELSE states
        b == IF before = -1 THEN s ELSE before
        all == IF s # -1 THEN s ELSE IF b <= limit \div b THEN b * b ELSE limit
    IN  [states |-> all, before |-> Min({b, all}),
         threshold |-> IF threshold = -1 THEN all ELSE Min({threshold, all})]

(* the distances the options need; prune: what is pruned                   *)
ScoresBy(c, kinds) == \E f \in ToSet(c.merge.functions) : f.kind \in kinds

NeededDistances(c) ==
    (IF c.shrink.kind = "fh" \/ "unreachable" \in c.prune \/ ScoresBy(c, {"miasm"})
     THEN {"init"} ELSE {}) \cup
    (IF c.shrink.kind \in {"fh", "bisimulation"} \/ "irrelevant" \in c.prune
        \/ ScoresBy(c, {"miasm", "dfp"})
     THEN {"goal"} ELSE {})

Unsolvable(fts) == {i \in ActiveFactors(fts) : ~IsFactorSolvable(fts.factors[i])}

(* atomic factors are pruned up to the first one without a solution        *)
PruneAtomic(fts, prune) ==
    FoldLeft(LAMBDA x, i : IF Unsolvable([x EXCEPT !.factors = SubSeq(@, 1, i - 1)]) # {} THEN x
                           ELSE PruneStep(x, i, prune),
             fts, [i \in DOMAIN fts.factors |-> i])

Prepared(fts, t, cg, c) ==
    [fts |-> fts, m |-> StartStrategy(t, cg, c.merge), pair |-> <<>>,
     phase |-> IF Unsolvable(fts) = {} THEN "choose" ELSE "end"]

Prepare(t, cg, c, S) ==
    Prepared(PruneAtomic(CreateFactoredTransitionSystem(t, NeededDistances(c), S), c.prune), t, cg, c)

Choose(x, c) ==
    IF Cardinality(ActiveFactors(x.fts)) = 1 THEN {[x EXCEPT !.phase = "end"]}
    ELSE {[x EXCEPT !.pair = n.pair, !.m = n.m, !.phase = "reduce"] : n \in GetNext(x.fts, c.merge, x.m)}

ReduceIf(x, c, order, enabled, phase) ==
    {[x EXCEPT !.fts = IF enabled THEN Reduce(@, c.labels, order, x.pair) ELSE @, !.phase = phase]}

ReduceStep(x, c, order) ==
    ReduceIf(x, c, order, IF x.phase = "reduce" THEN c.labels.beforeShrinking
                          ELSE c.labels.beforeMerging,
             IF x.phase = "reduce" THEN "shrink" ELSE "merge")

Shrink(x, c) ==
    {[x EXCEPT !.fts = y, !.phase = "reduce again"] :
        y \in ShrinkBeforeMergeStep(x.fts, x.pair, c.limits, c.shrink)}

Merge(x) == {[x EXCEPT !.fts = MergeFactors(@, x.pair[1], x.pair[2]), !.phase = "prune"]}

(* an abstraction without a solution is the last one                       *)
AfterPruning(x, fts) ==
    [x EXCEPT !.fts = fts,
              !.phase = IF IsFactorSolvable(Last(fts.factors)) THEN "choose" ELSE "end"]

Prune(x, c) == {AfterPruning(x, PruneStep(x.fts, Len(x.fts.factors), c.prune))}

StepsOf(x, c, order) ==
    CASE x.phase = "choose" -> Choose(x, c)
      [] x.phase \in {"reduce", "reduce again"} -> ReduceStep(x, c, order)
      [] x.phase = "shrink" -> Shrink(x, c)
      [] x.phase = "merge" -> Merge(x)
      [] x.phase = "prune" -> Prune(x, c)
      [] OTHER -> {}

(* every run that is reached                                               *)
AddRuns(y, next) == [all |-> y.all \cup next, new |-> next \ y.all]

MainLoop(start, c, order) ==
    While(LAMBDA y : y.new # {},
          LAMBDA y : AddRuns(y, UNION {StepsOf(x, c, order) : x \in y.new}),
          [all |-> {start}, new |-> {start}]).all

BuildFactoredTransitionSystem(t, cg, c, S) ==
    MainLoop(Prepare(t, cg, c, S), c, TransitionSystemOrder(t, c.labels.order))

-----------------------------------------------------------------------------
(* The heuristic: the goal distances in an unsolvable factor if there is   *)
(* one, or else the largest in those that are not trivial                  *)

WithGoalDistances(f) ==
    IF f.dist.goal # <<>> THEN f ELSE [f EXCEPT !.dist.goal = GoalDistances(f.ts)]

ExtractFactors(fts) ==
    LET unsolvable == Unsolvable(fts)
        chosen == IF unsolvable # {} THEN {Min(unsolvable)}
                  ELSE {i \in ActiveFactors(fts) : ~IsFactorTrivial(fts.factors[i])}
    IN  FoldLeft(LAMBDA fs, i : Append(fs, WithGoalDistances(fts.factors[i])), <<>>,
                 Ascending(chosen))

FactorValue(f, s) == IF f.rep[s] = Pruned THEN Infinity ELSE f.dist.goal[f.rep[s] + 1]

(* Infinity: a dead end                                                    *)
MergeAndShrinkValue(factors, s) == Max({FactorValue(f, s) : f \in ToSet(factors)} \cup {0})
=============================================================================
