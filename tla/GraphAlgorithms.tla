-------------------------- MODULE GraphAlgorithms ---------------------------
(***************************************************************************)
(* Loops of the algorithms below (until nothing changes, while a condition *)
(* holds), algorithms on graphs and partitions that several heuristics     *)
(* use, and their queue.  A graph gives for each vertex 1..n the sequence  *)
(* of its successors.                                                      *)
(***************************************************************************)
EXTENDS Integers, FiniteSets, Functions, SequencesExt, FiniteSetsExt

Fixpoint(Step(_), start) ==
    LET RECURSIVE run(_)
        run(x) == LET y == Step(x) IN IF y = x THEN x ELSE run(y)
    IN  run(start)

While(Test(_), Step(_), start) ==
    LET RECURSIVE run(_)
        run(x) == IF Test(x) THEN run(Step(x)) ELSE x
    IN  run(start)

(* the numbers of a finite set, smallest first *)
Ascending(S) ==
    LET RECURSIVE rest(_)
        rest(T) == IF T = {} THEN <<>> ELSE <<Min(T)>> \o rest(T \ {Min(T)})
    IN  rest(S)

(* the elements of a finite set in some order *)
Listed(S) == FoldSet(LAMBDA x, s : Append(s, x), <<>>, S)

SumOver(S, f(_)) == MapThenSumSet(f, S)

-----------------------------------------------------------------------------

(* Tarjan's algorithm: number is the order of discovery (-1: not yet),     *)
(* lowest the earliest vertex on the stack that a vertex can get back to.  *)
RECURSIVE Dfs(_, _, _)
Dfs(graph, v, x) ==
    LET mine == x.next
        entered == [x EXCEPT !.next = @ + 1, !.number[v] = mine, !.lowest[v] = mine,
                             !.stack = Append(@, v)]
        visit(y, w) ==
            LET z == Dfs(graph, w, y)
            IN  IF y.number[w] = -1
                THEN [z EXCEPT !.lowest[v] = Min({@, z.lowest[w]})]
                ELSE IF y.number[w] < mine /\ Contains(y.stack, w)
                THEN [y EXCEPT !.lowest[v] = Min({@, y.number[w]})]
                ELSE y
        left == FoldLeft(visit, entered, graph[v])
        at == CHOOSE i \in DOMAIN left.stack : left.stack[i] = v
    IN  IF left.lowest[v] # mine THEN left
        ELSE [left EXCEPT !.sccs = Append(@, SubSeq(left.stack, at, Len(left.stack))),
                          !.stack = SubSeq(@, 1, at - 1)]

(* the components, an edge only leading from one to a later one            *)
MaximalSccs(graph) ==
    LET none == [v \in DOMAIN graph |-> -1]
        start == [next |-> 0, number |-> none, lowest |-> none, stack |-> <<>>, sccs |-> <<>>]
    IN  Reverse(FoldLeft(LAMBDA x, v : IF x.number[v] = -1 THEN Dfs(graph, v, x) ELSE x,
                         start, [v \in DOMAIN graph |-> v]).sccs)

-----------------------------------------------------------------------------
(* Tomita's algorithm: the vertex with most neighbours among the           *)
(* candidates is the pivot; only candidates that are not its neighbours    *)
(* are tried, the largest first.  graph[v] is the set of v's neighbours.   *)

MaximizingVertex(graph, subg, cand) ==
    CHOOSE u \in subg : \A v \in subg \ {u} :
        LET mine == Cardinality(cand \cap graph[u])
            other == Cardinality(cand \cap graph[v])
        IN  mine > other \/ (mine = other /\ u < v)

RECURSIVE ExpandClique(_, _, _, _)
ExpandClique(graph, clique, subg, cand) ==
    LET ext == Reverse(Ascending(cand \ graph[MaximizingVertex(graph, subg, cand)]))
        try(x, q) ==
            [found |-> x.found \o ExpandClique(graph, Append(clique, q), subg \cap graph[q],
                                               x.cand \cap graph[q]),
             cand |-> x.cand \ {q}]
    IN  IF subg = {} THEN <<clique>>
        ELSE FoldLeft(try, [found |-> <<>>, cand |-> cand], ext).found

MaxCliques(graph) == ExpandClique(graph, <<>>, DOMAIN graph, DOMAIN graph)

-----------------------------------------------------------------------------
(* A partition refined by a block: what a block shares with it becomes a   *)
(* block of its own, and an empty block goes.                              *)
Refine(partition, block) ==
    ({b \cap block : b \in partition} \cup {b \ block : b \in partition}) \ {{}}

-----------------------------------------------------------------------------
(* References                                                              *)
ReachableFrom(graph, v) ==
    Fixpoint(LAMBDA R : R \cup UNION {ToSet(graph[w]) : w \in R}, {v})

SameComponent(graph, v, w) == v \in ReachableFrom(graph, w) /\ w \in ReachableFrom(graph, v)

SccsRight(graph) ==
    LET sccs == MaximalSccs(graph)
    IN  /\ \A v, w \in DOMAIN graph :
            SameComponent(graph, v, w) <=>
                \E i \in DOMAIN sccs : {v, w} \subseteq ToSet(sccs[i])
        /\ \A i, j \in DOMAIN sccs : i < j =>
            \A v \in ToSet(sccs[j]) : ToSet(graph[v]) \cap ToSet(sccs[i]) = {}

IsClique(graph, C) == \A v, w \in C : v # w => w \in graph[v]

CliquesRight(graph) ==
    LET found == MaxCliques(graph)
    IN  /\ IsInjective(found)
        /\ {ToSet(found[i]) : i \in DOMAIN found} =
              {C \in SUBSET DOMAIN graph : /\ IsClique(graph, C)
                    /\ \A v \in DOMAIN graph \ C : ~IsClique(graph, C \cup {v})}

-----------------------------------------------------------------------------
(* The bucket-based priority queue of the heuristics: entries <<key,       *)
(* value>> in the order they were pushed.  The smallest key goes first,    *)
(* and of equal keys the one pushed last.  (AdaptiveQueue changes to a     *)
(* heap, which breaks ties in an order of its own, at keys above 100.)     *)

EmptyQueue == <<>>

Push(q, key, value) == Append(q, <<key, value>>)

NextIn(q) == CHOOSE i \in DOMAIN q : \A j \in DOMAIN q :
                 q[i][1] < q[j][1] \/ (q[i][1] = q[j][1] /\ j <= i)

Popped(q) == q[NextIn(q)]
AfterPop(q) == RemoveAt(q, NextIn(q))
=============================================================================
