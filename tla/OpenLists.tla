----------------------------- MODULE OpenLists ------------------------------
(***************************************************************************)
(* The open lists of Fast Downward.  A list is a record of its kind, its   *)
(* evaluators and its contents; buckets is the set of the keys in use with *)
(* their queues.  An evaluation context ctx holds what has been computed   *)
(* for the state to be inserted: g, h, whether h is reliable about dead    *)
(* ends, and whether a preferred operator led to it.  Removals gives every *)
(* [entry, rest] that remove_min may return: random choices are choices.   *)
(***************************************************************************)
EXTENDS PlanningTask

(* evaluators: g(), h, weighted h, sum of both, pref()                     *)
Evaluate(eval, ctx) ==
    CASE eval = "g" -> ctx.g
      [] eval = "h" -> ctx.h
      [] eval = "f" -> Plus(ctx.g, ctx.h)
      [] eval = "wf" -> IF ctx.h = Infinity THEN Infinity ELSE ctx.g + 2 * ctx.h
      [] eval = "pref" -> IF ctx.preferred THEN 0 ELSE 1

IsInfinite(eval, ctx) == Evaluate(eval, ctx) = Infinity

(* g and pref are never infinite, a sum is as reliable as its summands     *)
DeadEndsAreReliable(ctx) == ctx.reliable

Key(list, ctx) == [i \in DOMAIN list.evals |-> Evaluate(list.evals[i], ctx)]

NoBuckets == <<>>

NewList(kind, evals, prefOnly) ==
    [kind |-> kind, evals |-> evals, prefOnly |-> prefOnly, buckets |-> NoBuckets,
     nondominated |-> {}]

Alternation(lists, boost) ==
    [kind |-> "alternation", lists |-> lists, priorities |-> [i \in DOMAIN lists |-> 0],
     boost |-> boost, prefOnly |-> FALSE]

-----------------------------------------------------------------------------
(* Dead ends                                                               *)

IsReliableDeadEndOfOne(list, ctx) ==
    \E i \in DOMAIN list.evals : IsInfinite(list.evals[i], ctx) /\ DeadEndsAreReliable(ctx)

IsDeadEndOfOne(list, ctx) ==
    \/ IsReliableDeadEndOfOne(list, ctx)
    \/ \A i \in DOMAIN list.evals : IsInfinite(list.evals[i], ctx)

(* one sublist is sure, or all sublists agree                              *)
IsDeadEnd(list, ctx) ==
    IF list.kind = "alternation"
    THEN \/ \E i \in DOMAIN list.lists : IsReliableDeadEndOfOne(list.lists[i], ctx)
         \/ \A i \in DOMAIN list.lists : IsDeadEndOfOne(list.lists[i], ctx)
    ELSE IsDeadEndOfOne(list, ctx)

-----------------------------------------------------------------------------
(* Keys of the buckets in lexicographic order, and Pareto dominance        *)

Less(a, b) == \E i \in DOMAIN a : a[i] < b[i] /\ \A j \in 1..(i - 1) : a[j] = b[j]

Dominates(a, b) == a # b /\ \A i \in DOMAIN a : a[i] <= b[i]

IsNondominated(key, keys) == \A k \in keys : ~Dominates(k, key)

PutInBucket(list, key, entry) ==
    [list EXCEPT !.buckets = IF key \in DOMAIN @
                             THEN [@ EXCEPT ![key] = Append(@, entry)]
                             ELSE @ @@ (key :> <<entry>>)]

InsertPareto(list, key, entry) ==
    LET put == PutInBucket(list, key, entry)
    IN  IF key \notin DOMAIN list.buckets /\ IsNondominated(key, list.nondominated)
        THEN [put EXCEPT !.nondominated = {k \in @ : ~Dominates(key, k)} \cup {key}]
        ELSE put

InsertInOne(list, ctx, entry) ==
    IF (list.prefOnly /\ ~ctx.preferred) \/ IsDeadEndOfOne(list, ctx) THEN list
    ELSE IF list.kind = "pareto" THEN InsertPareto(list, Key(list, ctx), entry)
    ELSE PutInBucket(list, Key(list, ctx), entry)

Insert(list, ctx, entry) ==
    IF list.kind # "alternation" THEN InsertInOne(list, ctx, entry)
    ELSE IF IsDeadEnd(list, ctx) THEN list
    ELSE [list EXCEPT !.lists = [i \in DOMAIN @ |-> InsertInOne(@[i], ctx, entry)]]

-----------------------------------------------------------------------------
Drop(buckets, key) == [k \in DOMAIN buckets \ {key} |-> buckets[k]]

(* a bucket without its pos-th entry; an empty bucket goes                 *)
Taken(buckets, key, pos) ==
    IF Len(buckets[key]) = 1 THEN Drop(buckets, key)
    ELSE [buckets EXCEPT ![key] = RemoveAt(@, pos)]

(* when a key goes, what only it dominated moves up                        *)
RemoveKey(list, key) ==
    LET buckets == Drop(list.buckets, key)
        left == list.nondominated \ {key}
        candidates == {k \in DOMAIN buckets \ left : Dominates(key, k) /\ IsNondominated(k, left)}
    IN  [list EXCEPT !.buckets = buckets,
                     !.nondominated = left \cup {k \in candidates : IsNondominated(k, candidates)}]

BestKey(list) == CHOOSE k \in DOMAIN list.buckets :
                     \A l \in DOMAIN list.buckets \ {k} : Less(k, l)

RemoveOldest(list, key) ==
    [entry |-> Head(list.buckets[key]),
     rest |-> [list EXCEPT !.buckets = Taken(@, key, 1)]]

(* any entry of any type; the last entry takes the place of the one taken  *)
RemoveOfType(list, key, pos) ==
    LET bucket == list.buckets[key]
        swapped == [bucket EXCEPT ![pos] = bucket[Len(bucket)]]
    IN  [entry |-> bucket[pos],
         rest |-> [list EXCEPT !.buckets = IF Len(bucket) = 1 THEN Drop(@, key)
                                           ELSE [@ EXCEPT ![key] = Front(swapped)]]]

RemovePareto(list, key) ==
    IF Len(list.buckets[key]) = 1
    THEN [entry |-> Head(list.buckets[key]), rest |-> RemoveKey(list, key)]
    ELSE RemoveOldest(list, key)

Positions(list) == UNION {{k} \X DOMAIN list.buckets[k] : k \in DOMAIN list.buckets}

RemovalsOfOne(list) ==
    CASE list.kind \in {"best first", "tie-breaking"} -> {RemoveOldest(list, BestKey(list))}
      [] list.kind = "epsilon-greedy" ->
           {[entry |-> list.buckets[kp[1]][kp[2]],
             rest |-> [list EXCEPT !.buckets = Taken(@, kp[1], kp[2])]] : kp \in Positions(list)}
      [] list.kind = "type-based" -> {RemoveOfType(list, kp[1], kp[2]) : kp \in Positions(list)}
      [] list.kind = "pareto" -> {RemovePareto(list, k) : k \in list.nondominated}

IsEmptyOne(list) ==
    IF list.kind = "pareto" THEN list.nondominated = {} ELSE DOMAIN list.buckets = {}

IsEmpty(list) ==
    IF list.kind = "alternation" THEN \A i \in DOMAIN list.lists : IsEmptyOne(list.lists[i])
    ELSE IsEmptyOne(list)

EntriesOfOne(list) == UNION {ToSet(list.buckets[k]) : k \in DOMAIN list.buckets}

Entries(list) ==
    IF list.kind = "alternation"
    THEN UNION {EntriesOfOne(list.lists[i]) : i \in DOMAIN list.lists}
    ELSE EntriesOfOne(list)

(* the sublist with the lowest priority that is not empty pays for its turn *)
BestList(list) ==
    LET filled == {i \in DOMAIN list.lists : ~IsEmptyOne(list.lists[i])}
    IN  CHOOSE i \in filled : \A j \in filled \ {i} :
            \/ list.priorities[i] < list.priorities[j]
            \/ list.priorities[i] = list.priorities[j] /\ i < j

Removals(list) ==
    IF list.kind = "alternation"
    THEN LET best == BestList(list)
         IN  {[entry |-> r.entry,
               rest |-> [list EXCEPT !.lists[best] = r.rest, !.priorities[best] = @ + 1]] :
                 r \in RemovalsOfOne(list.lists[best])}
    ELSE RemovalsOfOne(list)

Clear(list) == [list EXCEPT !.buckets = NoBuckets, !.nondominated = {}]

BoostPreferred(list) ==
    IF list.kind = "alternation"
    THEN [list EXCEPT !.priorities = [i \in DOMAIN @ |->
            IF list.lists[i].prefOnly THEN @[i] - list.boost ELSE @[i]]]
    ELSE list

-----------------------------------------------------------------------------
(* How the searches put their lists together                               *)

AlternationOf(evals, preferred, boost) ==
    IF Len(evals) = 1 /\ ~preferred
    THEN NewList("best first", evals, FALSE)
    ELSE Alternation(FlattenSeq([i \in DOMAIN evals |->
             <<NewList("best first", <<evals[i]>>, FALSE)>> \o
             (IF preferred THEN <<NewList("best first", <<evals[i]>>, TRUE)>> ELSE <<>>)]), boost)

GreedyList(preferred, boost) == AlternationOf(<<"h">>, preferred, boost)

WastarEval(weight) ==
    IF weight = 0 THEN "g" ELSE IF weight = 1 THEN "f" ELSE "wf"

WastarList(weight, preferred, boost) == AlternationOf(<<WastarEval(weight)>>, preferred, boost)

AstarList == NewList("tie-breaking", <<"f", "h">>, FALSE)
=============================================================================
