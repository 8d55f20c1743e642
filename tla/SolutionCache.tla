--------------------------- MODULE SolutionCache ---------------------------
(***************************************************************************)
(* The solution_cache and solution_count of a SessionContext: an           *)
(* OrderedDict from solution numbers to solutions, the least recently used *)
(* first and never more than solution_cache_limit() of them, and a count   *)
(* that is learned from #!, from a short answer or from the previews of    *)
(* selectionImpact.  The loops over the solutions of an answer, which put  *)
(* one after the other into the cache or move it to the end, take one step *)
(* per pass; operation_lock keeps everybody else out until the last.       *)
(* Session has the interleavings, and the failures that change nothing     *)
(* here.  FASB numbers the plans of a plan space in a fixed order.         *)
(***************************************************************************)
EXTENDS PlanList, Sequences

Seqs == INSTANCE SequencesExt

CONSTANT Limit      \* solution_cache_limit()

ASSUME CacheAssumption ==
    /\ {MaxPlans, MaxNumber, Limit} \subseteq Nat \ {0} /\ MaxSpaces \in Nat
    /\ NoCount \notin Nat

VARIABLES
    cache,      \* solution_cache: its values in order
    count,      \* solution_count; NoCount: not known
    asked,      \* the last query of a solution
    pending     \* the solutions of its answer still to be put into the cache

cacheVars == <<total, planSpace, reply, cache, count, asked, pending>>

Modes == {"single", "prefix"}
Solutions == [space : 0..MaxSpaces, number : 1..MaxPlans]

NoQuery == [mode |-> "none", number |-> 0]

CacheTypeOK ==
    /\ total \in 1..MaxPlans /\ planSpace \in 0..MaxSpaces
    /\ reply \in [plans : SUBSET Solutions, count : (0..MaxPlans) \cup {NoCount}]
    /\ cache \in Seq(Solutions) /\ pending \in Seq(Solutions)
    /\ count \in (0..MaxPlans) \cup {NoCount}
    /\ asked \in [mode : Modes \cup {"none"}, number : 0..MaxNumber]

CacheInit ==
    /\ ListInit
    /\ cache = <<>> /\ pending = <<>>
    /\ count = NoCount
    /\ asked = NoQuery

-----------------------------------------------------------------------------
(* The OrderedDict *)

CachedNumbers == {cache[i].number : i \in DOMAIN cache}

Without(entries, number) ==
    LET places == {i \in DOMAIN entries : entries[i].number = number}
    IN  IF places = {} THEN entries ELSE Seqs!RemoveAt(entries, CHOOSE i \in places : TRUE)

(* assign the number of a solution and move it to the end *)
Touched(entries, solution) ==
    Append(Without(entries, solution.number), solution)

(* popitem(last=False) while there are too many *)
TrimmedNewest(entries) ==
    IF Len(entries) <= Limit THEN entries ELSE SubSeq(entries, 1, Limit)
Trimmed(entries) ==
    IF Len(entries) <= Limit THEN entries
    ELSE SubSeq(entries, Len(entries) - Limit + 1, Len(entries))

(* _cache_solution *)
Cached(entries, solution) == Trimmed(Touched(entries, solution))

(* the numbers that an answer out of the cache reads and moves to the end *)
Wanted(mode, n) == IF mode = "prefix" THEN 1..n ELSE {n}

EntryOf(n) == CHOOSE s \in Seqs!ToSet(cache) : s.number = n

Recalled(mode, n) ==
    IF mode = "prefix" THEN [i \in 1..n |-> EntryOf(i)] ELSE <<EntryOf(n)>>

-----------------------------------------------------------------------------
(* query("solution", ...) *)

(* what FASB prints for "! n" *)
Printed(n) == [i \in 1..(IF n <= total THEN n ELSE total) |-> Plan(planSpace, i)]

(* a known count cuts a prefix *)
Requested(mode, n) ==
    IF mode = "prefix" /\ count # NoCount /\ count < n THEN count ELSE n

(* _requested_solutions *)
Chosen(mode, n, solutions) ==
    {s \in Seqs!ToSet(solutions) : s.number \in Wanted(mode, n)}

(* a short answer gives the count away *)
CountAfter(n) ==
    IF Len(Printed(n)) < n /\ Printed(n) # <<>> THEN Len(Printed(n)) ELSE count

HasCached(mode, n) == Wanted(mode, n) \subseteq CachedNumbers
PastCount(n) == count # NoCount /\ n > count

(* _run_query_job slices the prefix from solution_start on *)
From(solutions, start) == {s \in solutions : s.number >= start}

FromCache(mode, n, start) ==
    /\ HasCached(mode, n)
    /\ reply' = Reply(From({EntryOf(i) : i \in Wanted(mode, n)}, start), NoCount)
    /\ pending' = Recalled(mode, n)
    /\ UNCHANGED count

PastTheCount(mode, n, start) ==
    /\ ~ HasCached(mode, n) /\ PastCount(n)
    /\ reply' = Reply({}, NoCount)
    /\ UNCHANGED <<count, pending>>

FromFasb(mode, n, start) ==
    /\ ~ HasCached(mode, n) /\ ~ PastCount(n)
    /\ count' = CountAfter(n)
    /\ reply' = Reply(From(Chosen(mode, n, Printed(n)), start), NoCount)
    /\ pending' = Printed(n)

Query(mode, number, start) ==
    LET n == Requested(mode, number)
    IN  /\ pending = <<>>
        /\ \/ FromCache(mode, n, start) \/ PastTheCount(mode, n, start)
           \/ FromFasb(mode, n, start)
        /\ asked' = [mode |-> mode, number |-> number]
        /\ UNCHANGED <<total, planSpace, cache>>

(* one pass of the loop that ends the query: _cache_solution, or           *)
(* move_to_end, after which the cache is no larger than before             *)
Remember ==
    /\ pending # <<>>
    /\ cache' = Cached(cache, Head(pending))
    /\ pending' = Tail(pending)
    /\ UNCHANGED <<total, planSpace, reply, count, asked>>

QuerySingle == \E n \in Numbers : Query("single", n, 1)

QueryPage == \E n \in Numbers : \E start \in 1..n : Query("prefix", n, start)

(* query("solutionCount") *)
QueryCount ==
    /\ pending = <<>>
    /\ count' = IF count = NoCount THEN total ELSE count
    /\ reply' = Reply({}, count')
    /\ asked' = NoQuery
    /\ UNCHANGED <<total, planSpace, cache, pending>>

(* comparable previews of selectionImpact store their sum; a count that is *)
(* known is not asked for again                                            *)
LearnCount ==
    /\ pending = <<>> /\ count = NoCount
    /\ count' = total
    /\ UNCHANGED <<total, planSpace, reply, cache, asked, pending>>

(* apply_selections: another plan space, nothing cached or counted *)
KeepsCache ==
    /\ pending = <<>>
    /\ Select
    /\ count' = NoCount
    /\ asked' = NoQuery
    /\ UNCHANGED <<cache, pending>>

Apply ==
    /\ pending = <<>>
    /\ Select
    /\ cache' = <<>>
    /\ count' = NoCount
    /\ asked' = NoQuery
    /\ UNCHANGED pending

CacheNext ==
    QuerySingle \/ QueryPage \/ Remember \/ QueryCount \/ LearnCount \/ Apply

CacheSpec == CacheInit /\ [][CacheNext]_cacheVars

-----------------------------------------------------------------------------
(* Properties *)

(* Whatever has been asked before, cached, evicted and counted, every      *)
(* answer is the one the list of plans gives: the branches of query(), the *)
(* cut at a known count, the page of a job.                                *)
ImplementsPlanList == ListSpec

(* Eviction spares what was asked for last: repeating a query whose answer *)
(* fits into the cache does not need FASB again (_cache_solution evicts    *)
(* the oldest, every use moves an entry to the end, and a short answer     *)
(* leaves a count that cuts the next prefix).                              *)
NeedsNoFasb(mode, n) == HasCached(mode, n) \/ PastCount(n)

RepeatNeedsNoFasb ==
    (pending = <<>> /\ asked # NoQuery /\ (asked.mode = "prefix" => asked.number <= Limit))
      => NeedsNoFasb(asked.mode, Requested(asked.mode, asked.number))
=============================================================================
