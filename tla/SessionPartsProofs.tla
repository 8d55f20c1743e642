------------------------- MODULE SessionPartsProofs --------------------------
(***************************************************************************)
(* Proofs about the three parts of a session that do not depend on when    *)
(* FASB answers: the loop over a batch is correct for every set of facets, *)
(* for selections of every size and batches of every length; clients that  *)
(* read the session under operation_lock cannot change it on the strength  *)
(* of an old view, however many they are; the solution cache gives the     *)
(* answers of the plain list of plans, and keeps what was asked for last,  *)
(* for any number of plans, revisions and queries and any limit.           *)
(***************************************************************************)
EXTENDS SelectionLoop, SessionReads, SolutionCache, SelectionLemmas, SequenceTheorems

-----------------------------------------------------------------------------
(* The loop over a batch (SelectionLoop)                                   *)

LEMMA LoopTyping == Spec => []TypeOK
<1>1. Init => TypeOK
  <2> SUFFICES ASSUME Init PROVE TypeOK
    OBVIOUS
  <2>1. batch \in Seq(Choices)
    BY BatchesAssumption DEF Init
  <2> QED
    BY <2>1 DEF Init, TypeOK
<1>2. TypeOK /\ [Next]_vars => TypeOK'
  <2> SUFFICES ASSUME TypeOK, [Next]_vars PROVE TypeOK'
    OBVIOUS
  <2>1. CASE Handle
    <3>1. batch \in Seq(Choices)
      BY BatchesAssumption DEF TypeOK
    <3>2. done + 1 \in 1..Len(batch)
      BY <2>1, <3>1 DEF Handle, TypeOK
    <3>3. batch[done + 1] \in Choices
      BY <3>1, <3>2
    <3>4. Updated(updated, batch[done + 1].facet, batch[done + 1].state) \in Selections
      BY <3>3, UpdatedTyped DEF TypeOK, Choices
    <3> QED
      BY <2>1, <3>2, <3>4 DEF Handle, TypeOK
  <2>2. CASE UNCHANGED vars
    BY <2>2 DEF TypeOK, vars
  <2> QED
    BY <2>1, <2>2 DEF Next
<1> QED
  BY <1>1, <1>2, PTL DEF Spec

(* The choices handled so far, one more of them, and the distinctness that *)
(* the REST layer has checked for the whole batch.                         *)
LEMMA HandledPrefix ==
    ASSUME TypeOK, done < Len(batch)
    PROVE  /\ batch \in Seq(Choices) /\ batch[done + 1] \in Choices
           /\ SubSeq(batch, 1, done) \in Seq(Choices)
           /\ SubSeq(batch, 1, done + 1)
                = Append(SubSeq(batch, 1, done), batch[done + 1])
           /\ DistinctFacets(SubSeq(batch, 1, done + 1))
<1>1. batch \in Seq(Choices) /\ DistinctFacets(batch)
  BY BatchesAssumption DEF TypeOK
<1>2. done \in Nat /\ done + 1 \in 1..Len(batch) /\ Len(batch) \in Nat
  BY <1>1 DEF TypeOK
<1>3. batch[done + 1] \in Choices
  BY <1>1, <1>2
<1>4. SubSeq(batch, 1, done) \in Seq(Choices)
  BY <1>1, <1>2
<1>5. SubSeq(batch, 1, done + 1) = Append(SubSeq(batch, 1, done), batch[done + 1])
  BY <1>1, <1>2
<1>6. DistinctFacets(SubSeq(batch, 1, done + 1))
  <2>1. DOMAIN SubSeq(batch, 1, done + 1) = 1..(done + 1)
    BY <1>1, <1>2
  <2>2. \A i \in 1..(done + 1) : SubSeq(batch, 1, done + 1)[i] = batch[i]
    BY <1>1, <1>2
  <2>3. 1..(done + 1) \subseteq DOMAIN batch
    BY <1>1, <1>2
  <2> QED
    BY <1>1, <2>1, <2>2, <2>3 DEF DistinctFacets
<1> QED
  BY <1>1, <1>3, <1>4, <1>5, <1>6

(* Whatever the batch, the loop computes UpdatedSelections. *)
THEOREM LoopCorrect == Spec => []LoopMeetsClosedForm
<1>1. Init => LoopMeetsClosedForm
  <2> SUFFICES ASSUME Init PROVE LoopMeetsClosedForm
    OBVIOUS
  <2>1. SubSeq(batch, 1, 0) = <<>> /\ DOMAIN <<>> = {}
    BY BatchesAssumption DEF Init
  <2>2. before \in Selections
    BY DEF Init
  <2>3. \A g \in Facets : UpdatedSelections(before, <<>>)[g] = before[g]
    BY <2>1 DEF UpdatedSelections, Displaced, Settled
  <2>4. UpdatedSelections(before, <<>>) = before
    BY <2>2, <2>3 DEF UpdatedSelections, Selections
  <2> QED
    BY <2>1, <2>4 DEF Init, LoopMeetsClosedForm
<1>2. TypeOK /\ LoopMeetsClosedForm /\ [Next]_vars => LoopMeetsClosedForm'
  <2> SUFFICES ASSUME TypeOK, LoopMeetsClosedForm, [Next]_vars
               PROVE  LoopMeetsClosedForm'
    OBVIOUS
  <2>1. CASE Handle
    <3> DEFINE choice == batch[done + 1]
               prefix == SubSeq(batch, 1, done)
    <3>1. done < Len(batch)
      BY <2>1 DEF Handle
    <3>2. /\ choice \in Choices /\ prefix \in Seq(Choices)
          /\ SubSeq(batch, 1, done + 1) = Append(prefix, choice)
          /\ DistinctFacets(Append(prefix, choice))
      BY <3>1, HandledPrefix
    <3>3. before \in Selections
      BY DEF TypeOK
    <3>4. UpdatedSelections(before, Append(prefix, choice))
            = Updated(UpdatedSelections(before, prefix), choice.facet, choice.state)
      BY <3>2, <3>3, BatchByOneChoice
    <3>5. updated = UpdatedSelections(before, prefix)
      BY DEF LoopMeetsClosedForm
    <3>6. updated' = UpdatedSelections(before, SubSeq(batch, 1, done + 1))
      BY <2>1, <3>2, <3>4, <3>5 DEF Handle
    <3> QED
      BY <2>1, <3>6 DEF Handle, LoopMeetsClosedForm
  <2>2. CASE UNCHANGED vars
    BY <2>2 DEF LoopMeetsClosedForm, vars
  <2> QED
    BY <2>1, <2>2 DEF Next
<1> QED
  BY <1>1, <1>2, LoopTyping, PTL DEF Spec

(* No pass leaves two positive actions at one fixed timestep. *)
THEOREM LoopNeverTwoPositives == Spec => []NeverTwoPositives
<1>1. Init => NeverTwoPositives
  BY DEF Init, NeverTwoPositives
<1>2. TypeOK /\ NeverTwoPositives /\ [Next]_vars => NeverTwoPositives'
  <2> SUFFICES ASSUME TypeOK, NeverTwoPositives, [Next]_vars
               PROVE  NeverTwoPositives'
    OBVIOUS
  <2>1. CASE Handle
    <3>1. batch[done + 1] \in Choices
      BY <2>1, HandledPrefix DEF Handle
    <3>2. OnePositivePerStep(Updated(updated, batch[done + 1].facet,
                                     batch[done + 1].state))
      BY <3>1, UpdatedKeepsOnePositive DEF TypeOK, NeverTwoPositives, Choices
    <3> QED
      BY <2>1, <3>2 DEF Handle, NeverTwoPositives, OnePositivePerStep
  <2>2. CASE UNCHANGED vars
    BY <2>2 DEF NeverTwoPositives, OnePositivePerStep, vars
  <2> QED
    BY <2>1, <2>2 DEF Next
<1> QED
  BY <1>1, <1>2, LoopTyping, PTL DEF Spec

(* The previews of a comparable facet partition the plan space, whatever   *)
(* the selections.                                                         *)
THEOREM LoopImpactPartitions == Spec => []ImpactPartitions
<1>1. TypeOK => ImpactPartitions
  BY ImpactPartition DEF TypeOK, ImpactPartitions
<1> QED
  BY <1>1, LoopTyping, PTL

-----------------------------------------------------------------------------
(* What clients have seen (SessionReads)                                   *)

Committing == {"setCount", "setRevision"}

Unlocked == {"ready", "getSolution", "getCount", "getRevision"}

(* one thread is under the lock, and only getters read without it *)
Serial ==
    \A c \in Clients :
        /\ at[c] \in Unlocked \ {"ready"} => c \in Getters
        /\ at[c] \notin Unlocked => owner = c

(* the solution is ahead of the revision only in the middle of a commit *)
SolutionInStep ==
    /\ (\A c \in Clients : at[c] \notin Committing) => solution = revision
    /\ \A c \in Clients : at[c] \in Committing => solution = revision + 1

ViewsWhole == \A c \in Clients \ Getters : seen[c].solution = seen[c].revision

Compared ==
    \A c \in Clients :
        /\ at[c] \in {"rebuild", "setSolution"} =>
             seen[c].revision = revision /\ revision < MaxRevision
        /\ at[c] \in Committing => revision < MaxRevision

(* no response shows a solution that has not been there *)
ViewsPast == \A c \in Clients : seen[c].solution <= solution

ReadsInv == ReadsTypeOK /\ Serial /\ SolutionInStep /\ ViewsWhole /\ Compared /\ ViewsPast

LEMMA ReadsInitially == ReadsInit => ReadsInv
  BY SessionReadsAssumption DEF ReadsInit, ReadsInv, ReadsTypeOK, Serial, SolutionInStep, ViewsWhole, Compared,
         ViewsPast, Committing, Places, Revisions, Unlocked, Views

LEMMA ReadsStep == ASSUME ReadsInv, [ReadsNext]_readVars
              PROVE  ReadsInv'
<1> USE SessionReadsAssumption DEF ReadsInv, ReadsTypeOK, Serial, SolutionInStep, ViewsWhole, Compared, ViewsPast, Committing,
        Places, Revisions, Unlocked, Goto, Lock, Unlock, Views, Sees,
        Response
<1>1. CASE UNCHANGED readVars
  BY <1>1 DEF readVars
<1>2. ASSUME NEW c \in Clients, List(c) PROVE ReadsInv'
  BY <1>2 DEF List
<1>3. ASSUME NEW c \in Clients, ListEnd(c) PROVE ReadsInv'
  BY <1>3 DEF ListEnd
<1>4. ASSUME NEW c \in Clients, ApplyBegin(c) PROVE ReadsInv'
  BY <1>4 DEF ApplyBegin
<1>5. ASSUME NEW c \in Clients, Compare(c) PROVE ReadsInv'
  BY <1>5 DEF Compare
<1>6. ASSUME NEW c \in Clients, Rebuilt(c) PROVE ReadsInv'
  BY <1>6 DEF Rebuilt
<1>7. ASSUME NEW c \in Clients, RebuildFails(c) PROVE ReadsInv'
  BY <1>7 DEF RebuildFails
<1>8. ASSUME NEW c \in Clients, SetSolution(c) PROVE ReadsInv'
  BY <1>8 DEF SetSolution
<1>9. ASSUME NEW c \in Clients, SetCount(c) PROVE ReadsInv'
  BY <1>9 DEF SetCount
<1>10. ASSUME NEW c \in Clients, SetRevision(c) PROVE ReadsInv'
  BY <1>10 DEF SetRevision
<1>11. ASSUME NEW c \in Clients, Count(c) PROVE ReadsInv'
  BY <1>11 DEF Count
<1>12. ASSUME NEW c \in Clients, CountEnd(c) PROVE ReadsInv'
  BY <1>12 DEF CountEnd
<1>13. ASSUME NEW c \in Clients, Get(c) PROVE ReadsInv'
  BY <1>13 DEF Get
<1>14. ASSUME NEW c \in Clients, GetSolution(c) PROVE ReadsInv'
  BY <1>14 DEF GetSolution
<1>15. ASSUME NEW c \in Clients, GetCount(c) PROVE ReadsInv'
  BY <1>15 DEF GetCount
<1>16. ASSUME NEW c \in Clients, GetRevision(c) PROVE ReadsInv'
  BY <1>16 DEF GetRevision
<1> QED
  BY <1>1, <1>2, <1>3, <1>4, <1>5, <1>6, <1>7, <1>8, <1>9, <1>10, <1>11, <1>12,
     <1>13, <1>14, <1>15, <1>16 DEF ReadsNext

(* A client that lists the facets, and never uses GET, is refused whenever *)
(* the solution it was shown is not the session's any more, whatever the   *)
(* others do; and one that uses GET is at least never accepted with a      *)
(* solution of a revision still to come.                                   *)
THEOREM StaleClientsRefused == ReadsSpec => []StaleRefused
<1>1. ReadsInv => StaleClientRefused
  BY DEF ReadsInv, SolutionInStep, ViewsWhole, Compared, Serial, Committing,
         Unlocked, StaleClientRefused, Accepted
<1>2. ReadsInv => StaleViewRefused
  <2> SUFFICES ASSUME ReadsInv, NEW c \in Clients, Accepted(c)
               PROVE  seen[c].solution <= revision
    BY DEF StaleViewRefused
  <2>1. owner = c /\ \A d \in Clients : at[d] \notin Unlocked => d = c
    BY DEF ReadsInv, Serial, Accepted, Unlocked
  <2>2. solution = revision
    BY <2>1 DEF ReadsInv, SolutionInStep, Accepted, Committing, Unlocked
  <2> QED
    BY <2>2 DEF ReadsInv, ViewsPast
<1> QED
  BY ReadsInitially, ReadsStep, <1>1, <1>2, PTL DEF ReadsSpec, StaleRefused

-----------------------------------------------------------------------------
(* The solution cache (SolutionCache)                                      *)

(* the plans of the selected plan space *)
Listed == {Plan(planSpace, n) : n \in 1..total}

(* Whatever is kept is true of the selected plan space. *)
PlansListed ==
    /\ cache \in Seq(Listed) /\ pending \in Seq(Listed)
    /\ count \in {NoCount, total}

(* the last number that the answer to the last query can have *)
Goal == IF asked.number <= total THEN asked.number ELSE total

(* A query past the end leaves the count. *)
Counted == asked # NoQuery /\ asked.number > total => count = total

(* What is pending of a prefix is its end; what has been done of it is the *)
(* end of the cache, if all of it fits.                                    *)
Done == Goal - Len(pending)

PrefixFit ==
    asked.mode = "prefix" =>
        /\ Len(pending) <= Goal
        /\ \A i \in 1..Len(pending) : pending[i].number = Done + i

RecentFit ==
    asked.mode = "prefix" /\ asked.number <= Limit =>
        /\ Done <= Len(cache)
        /\ \A i \in 1..Done : cache[Len(cache) - Done + i].number = i

(* A single solution is the last that is pending, then the last cached. *)
SingleFit ==
    asked.mode = "single" /\ asked.number <= total =>
        IF pending = <<>>
        THEN cache # <<>> /\ cache[Len(cache)].number = asked.number
        ELSE pending[Len(pending)].number = asked.number

AskedFit ==
    /\ asked \in [mode : Modes \cup {"none"}, number : 0..MaxNumber]
    /\ asked # NoQuery => asked.mode \in Modes /\ asked.number \in Numbers

CacheInv ==
    /\ total \in 1..MaxPlans /\ planSpace \in Nat
    /\ AskedFit /\ PlansListed /\ Counted /\ PrefixFit /\ RecentFit /\ SingleFit

-----------------------------------------------------------------------------
(* The order of the cache *)

LEMMA Removed ==
    ASSUME NEW S, NEW s \in Seq(S), NEW i \in 1..Len(s),
           NEW t, t = Seqs!RemoveAt(s, i)
    PROVE  /\ t \in Seq(S) /\ Len(t) = Len(s) - 1
           /\ \A j \in 1..Len(t) : t[j] = IF j < i THEN s[j] ELSE s[j + 1]
<1>1. PICK u : u = SubSeq(s, 1, i - 1)
  OBVIOUS
<1>2. PICK v : v = SubSeq(s, i + 1, Len(s))
  OBVIOUS
<1>3. /\ u \in Seq(S) /\ Len(u) = i - 1
      /\ \A j \in 1..(i - 1) : u[j] = s[j]
  BY <1>1
<1>4. /\ v \in Seq(S) /\ Len(v) = Len(s) - i
      /\ \A j \in 1..(Len(s) - i) : v[j] = s[i + j]
  BY <1>2
<1>5. t = u \o v
  BY <1>1, <1>2 DEF Seqs!RemoveAt
<1>6. /\ t \in Seq(S) /\ Len(t) = Len(u) + Len(v)
      /\ \A j \in 1..(Len(u) + Len(v)) :
            t[j] = IF j <= Len(u) THEN u[j] ELSE v[j - Len(u)]
  BY <1>3, <1>4, <1>5, ConcatProperties
<1>7. ASSUME NEW j \in 1..Len(t) PROVE t[j] = IF j < i THEN s[j] ELSE s[j + 1]
  <2>1. CASE j < i
    BY <2>1, <1>3, <1>4, <1>6
  <2>2. CASE ~ (j < i)
    <3>1. v[j - (i - 1)] = s[i + (j - (i - 1))]
      BY <2>2, <1>3, <1>4, <1>6
    <3>2. t[j] = v[j - (i - 1)]
      BY <2>2, <1>3, <1>4, <1>6
    <3>3. i + (j - (i - 1)) = j + 1
      BY <1>3, <1>4, <1>6
    <3> QED
      BY <2>2, <3>1, <3>2, <3>3
  <2> QED
    BY <2>1, <2>2
<1> QED
  BY <1>3, <1>4, <1>6, <1>7

(* A solution that is not among the last d of s. *)
Spares(s, d, x) == \A i \in 1..d : s[Len(s) - d + i].number # x.number

(* The last d of s are in t, from the m-th last on. *)
KeepsEnd(t, m, s, d) ==
    \A i \in 1..d : t[Len(t) - m + i] = s[Len(s) - d + i]

(* The end of a sequence survives, up to the solution that is touched. *)
LEMMA TouchedKeepsEnd ==
    ASSUME NEW S, NEW s \in Seq(S), NEW x \in S, NEW d \in 0..Len(s), Spares(s, d, x),
           NEW t, t = Touched(s, x)
    PROVE  /\ t \in Seq(S) /\ d + 1 <= Len(t)
           /\ t[Len(t)] = x
           /\ KeepsEnd(t, d + 1, s, d)
<1>1. PICK w : w = Without(s, x.number)
  OBVIOUS
<1>2. /\ w \in Seq(S) /\ d <= Len(w)
      /\ \A i \in 1..d : w[Len(w) - d + i] = s[Len(s) - d + i]
  <2>1. PICK places : places = {i \in DOMAIN s : s[i].number = x.number}
    OBVIOUS
  <2>2. w = IF places = {} THEN s ELSE Seqs!RemoveAt(s, CHOOSE i \in places : TRUE)
    BY <1>1, <2>1 DEF Without
  <2>3. CASE places = {}
    BY <2>2, <2>3
  <2>4. CASE places # {}
    <3>1. PICK p \in places : p = CHOOSE i \in places : TRUE
      BY <2>4
    <3>2. p \in 1..Len(s) /\ s[p].number = x.number
      BY <2>1
    <3>3. p <= Len(s) - d
      <4> SUFFICES ASSUME p > Len(s) - d PROVE FALSE
        BY <3>2
      <4>1. p - (Len(s) - d) \in 1..d /\ p = Len(s) - d + (p - (Len(s) - d))
        BY <3>2
      <4> QED
        BY <4>1, <3>2 DEF Spares
    <3>4. w = Seqs!RemoveAt(s, p)
      BY <2>2, <2>4, <3>1
    <3>5. /\ w \in Seq(S) /\ Len(w) = Len(s) - 1
          /\ \A j \in 1..Len(w) : w[j] = IF j < p THEN s[j] ELSE s[j + 1]
      BY <3>2, <3>4, Removed
    <3> QED
      BY <3>2, <3>3, <3>5
  <2> QED
    BY <2>3, <2>4
<1>3. t = Append(w, x)
  BY <1>1 DEF Touched
<1>4. /\ t \in Seq(S) /\ Len(t) = Len(w) + 1
      /\ \A j \in 1..Len(w) : t[j] = w[j]
      /\ t[Len(w) + 1] = x
  BY <1>2, <1>3, AppendProperties
<1>5. Len(w) \in Nat /\ d \in Nat
  BY <1>2
<1>6. ASSUME NEW i \in 1..d PROVE t[Len(t) - (d + 1) + i] = s[Len(s) - d + i]
  <2>1. Len(t) - (d + 1) + i = Len(w) - d + i /\ Len(w) - d + i \in 1..Len(w)
    BY <1>2, <1>4, <1>5
  <2> QED
    BY <2>1, <1>2, <1>4
<1>7. t[Len(t)] = x /\ d + 1 <= Len(t)
  BY <1>2, <1>4, <1>5
<1> QED
  BY <1>4, <1>6, <1>7 DEF KeepsEnd

LEMMA TrimmedKeepsEnd ==
    ASSUME NEW S, NEW s \in Seq(S), NEW d \in 0..Len(s), d <= Limit,
           NEW t, t = Trimmed(s)
    PROVE  t \in Seq(S) /\ d <= Len(t) /\ KeepsEnd(t, d, s, d)
<1> Limit \in Nat \ {0}
  BY CacheAssumption
<1>1. CASE Len(s) <= Limit
  BY <1>1 DEF Trimmed, KeepsEnd
<1>2. CASE ~ (Len(s) <= Limit)
  <2>1. t = SubSeq(s, Len(s) - Limit + 1, Len(s))
    BY <1>2 DEF Trimmed
  <2>2. /\ t \in Seq(S) /\ Len(t) = Limit
        /\ \A i \in 1..Limit : t[i] = s[Len(s) - Limit + i]
    BY <1>2, <2>1
  <2>3. ASSUME NEW i \in 1..d PROVE t[Len(t) - d + i] = s[Len(s) - d + i]
    <3>1. Limit - d + i \in 1..Limit
      OBVIOUS
    <3>2. t[Limit - d + i] = s[Len(s) - Limit + (Limit - d + i)]
      BY <3>1, <2>2
    <3> QED
      BY <3>2, <2>2
  <2> QED
    BY <2>2, <2>3 DEF KeepsEnd
<1> QED
  BY <1>1, <1>2

(* _cache_solution puts a solution last and keeps what it has put before   *)
(* it, as long as the limit allows.                                        *)
LEMMA CachedKeepsEnd ==
    ASSUME NEW S, NEW s \in Seq(S), NEW x \in S, NEW d \in 0..Len(s), d < Limit, Spares(s, d, x),
           NEW t, t = Cached(s, x)
    PROVE  /\ t \in Seq(S) /\ d + 1 <= Len(t)
           /\ t[Len(t)] = x
           /\ KeepsEnd(t, d + 1, s, d)
<1> Limit \in Nat \ {0}
  BY CacheAssumption
<1>1. PICK u : u = Touched(s, x)
  OBVIOUS
<1>2. u \in Seq(S) /\ d + 1 <= Len(u) /\ u[Len(u)] = x
  BY <1>1, TouchedKeepsEnd
<1>3. KeepsEnd(u, d + 1, s, d)
  BY <1>1, TouchedKeepsEnd
<1>4. Len(u) \in Nat /\ d + 1 \in 0..Len(u) /\ d + 1 <= Limit
  BY <1>2
<1>5. t = Trimmed(u)
  BY <1>1 DEF Cached
<1>6. t \in Seq(S) /\ d + 1 <= Len(t) /\ KeepsEnd(t, d + 1, u, d + 1)
  BY <1>2, <1>4, <1>5, TrimmedKeepsEnd
<1>7. t[Len(t)] = x
  <2>1. t[Len(t) - (d + 1) + (d + 1)] = u[Len(u) - (d + 1) + (d + 1)]
    BY <1>6, <1>4 DEF KeepsEnd
  <2>2. Len(t) - (d + 1) + (d + 1) = Len(t) /\ Len(u) - (d + 1) + (d + 1) = Len(u)
    BY <1>6, <1>4
  <2> QED
    BY <2>1, <2>2, <1>2
<1>8. ASSUME NEW i \in 1..d PROVE t[Len(t) - (d + 1) + i] = s[Len(s) - d + i]
  <2>1. i \in 1..(d + 1)
    BY <1>4
  <2> QED
    BY <2>1, <1>3, <1>6 DEF KeepsEnd
<1> QED
  BY <1>6, <1>7, <1>8 DEF KeepsEnd

-----------------------------------------------------------------------------
(* The answers *)

LEMMA Bounds ==
    /\ MaxPlans \in Nat \ {0} /\ MaxNumber \in Nat \ {0} /\ Limit \in Nat \ {0}
    /\ MaxSpaces \in Nat /\ NoCount \notin Nat
BY CacheAssumption

LEMMA CachedAreListed ==
    ASSUME CacheInv, NEW n \in CachedNumbers
    PROVE  n \in 1..total /\ EntryOf(n) = Plan(planSpace, n)
<1>1. PICK i \in 1..Len(cache) : cache[i].number = n
  BY DEF CachedNumbers, CacheInv, PlansListed
<1>2. \A s \in Seqs!ToSet(cache) : s \in Listed
  BY DEF Seqs!ToSet, CacheInv, PlansListed
<1>3. \A s \in Listed : s.number \in 1..total /\ s = Plan(planSpace, s.number)
  BY DEF Listed, Plan
<1>4. cache[i] \in Seqs!ToSet(cache) /\ cache[i].number = n
  BY <1>1 DEF Seqs!ToSet, CacheInv, PlansListed
<1>5. EntryOf(n) \in Seqs!ToSet(cache) /\ EntryOf(n).number = n
  BY <1>4 DEF EntryOf
<1> QED
  BY <1>2, <1>3, <1>5

(* the number a query asks FASB for, and the last one it can answer *)
LEMMA RequestedCut ==
    ASSUME CacheInv, NEW mode \in Modes, NEW number \in Numbers
    PROVE  LET n == Requested(mode, number)
           IN  /\ n \in Nat \ {0} /\ n <= number
               /\ n # number => mode = "prefix" /\ n = total /\ count = total /\ n < number
BY Bounds DEF CacheInv, PlansListed, Requested, Numbers

Cut(n) == IF n <= total THEN n ELSE total

LEMMA PrintedListed ==
    ASSUME CacheInv, NEW n \in Nat \ {0}
    PROVE  /\ Printed(n) \in Seq(Listed) /\ Len(Printed(n)) = Cut(n)
           /\ Cut(n) \in 1..total
           /\ \A i \in 1..Cut(n) : Printed(n)[i] = Plan(planSpace, i)
<1>1. total \in Nat \ {0}
  BY Bounds DEF CacheInv
<1>2. Cut(n) \in Nat \ {0} /\ Cut(n) \in 1..total
  BY <1>1 DEF Cut
<1>3. Printed(n) = [i \in 1..Cut(n) |-> Plan(planSpace, i)]
  BY DEF Printed, Cut
<1>4. \A i \in 1..Cut(n) : Plan(planSpace, i) \in Listed
  BY <1>1, <1>2 DEF Listed
<1> QED
  BY <1>2, <1>3, <1>4

(* the numbers of the plans that the list answers with *)
Answered(mode, number, start) ==
    IF mode = "prefix" THEN start..Cut(number) ELSE {number} \cap 1..total

(* What a query answers, and what it leaves for the cache. *)
QueryRight(mode, number, start) ==
    /\ pending' \in Seq(Listed) /\ count' \in {NoCount, total}
    /\ number > total => count' = total
    /\ mode = "prefix" =>
         /\ Len(pending') = Cut(number)
         /\ \A i \in 1..Cut(number) : pending'[i].number = i
    /\ mode = "single" /\ number <= total =>
         pending' # <<>> /\ pending'[Len(pending')].number = number
    /\ reply' = Reply({Plan(planSpace, i) : i \in Answered(mode, number, start)},
                      NoCount)

LEMMA FromCacheRight ==
    ASSUME CacheInv, NEW mode \in Modes, NEW number \in Numbers, NEW start \in 1..number,
           mode = "single" => start = 1, pending = <<>>,
           FromCache(mode, Requested(mode, number), start)
    PROVE  QueryRight(mode, number, start)
<1>1. PICK n : n = Requested(mode, number)
  OBVIOUS
<1>2. /\ n \in Nat \ {0} /\ n <= number /\ number \in Nat \ {0} /\ total \in Nat \ {0}
      /\ n # number => mode = "prefix" /\ n = total /\ count = total /\ n < number
  BY <1>1, RequestedCut, Bounds DEF Numbers, CacheInv
<1>3. /\ reply' = Reply(From({EntryOf(i) : i \in Wanted(mode, n)}, start), NoCount)
      /\ pending' = Recalled(mode, n) /\ count' = count
      /\ Wanted(mode, n) \subseteq CachedNumbers
  BY <1>1 DEF FromCache, HasCached
<1>4. \A i \in Wanted(mode, n) : i \in 1..total /\ EntryOf(i) = Plan(planSpace, i)
  BY <1>3, CachedAreListed
<1>5. n \in Wanted(mode, n) /\ n <= total
  BY <1>2, <1>4 DEF Wanted
<1>6. number > total => count = total
  BY <1>2, <1>5
<1>7. n = Cut(number)
  BY <1>2, <1>5 DEF Cut
<1>8. From({EntryOf(i) : i \in Wanted(mode, n)}, start)
        = {Plan(planSpace, i) : i \in Answered(mode, number, start)}
  <2>1. {EntryOf(i) : i \in Wanted(mode, n)} = {Plan(planSpace, i) : i \in Wanted(mode, n)}
    BY <1>4
  <2>2. \A i : Plan(planSpace, i).number = i
    BY DEF Plan
  <2>3. CASE mode = "prefix"
    <3>1. \A i : i \in 1..n /\ i >= start <=> i \in start..n
      BY <1>2
    <3>2. Wanted(mode, n) = 1..n /\ Answered(mode, number, start) = start..n
      BY <2>3, <1>7 DEF Wanted, Answered
    <3>3. From({Plan(planSpace, i) : i \in 1..n}, start) = {Plan(planSpace, i) : i \in start..n}
      BY <2>2, <3>1 DEF From
    <3> QED
      BY <2>1, <3>2, <3>3
  <2>4. CASE mode = "single"
    <3>1. n = number /\ start = 1 /\ Wanted(mode, n) = {number} /\ number \in 1..total
      BY <2>4, <1>2, <1>5 DEF Wanted
    <3>2. From({Plan(planSpace, i) : i \in {number}}, start) = {Plan(planSpace, i) : i \in {number}}
      BY <2>2, <3>1, <1>2 DEF From
    <3>3. Answered(mode, number, start) = {number}
      BY <2>4, <3>1 DEF Answered
    <3> QED
      BY <2>1, <3>1, <3>2, <3>3
  <2> QED
    BY <2>3, <2>4 DEF Modes
<1>9. CASE mode = "prefix"
  <2>1. pending' = [i \in 1..n |-> Plan(planSpace, i)]
    BY <1>3, <1>4, <1>9 DEF Recalled, Wanted
  <2>2. \A i \in 1..n : Plan(planSpace, i) \in Listed /\ Plan(planSpace, i).number = i
    BY <1>2, <1>5 DEF Listed, Plan
  <2>3. pending' \in Seq(Listed) /\ Len(pending') = n /\ \A i \in 1..n : pending'[i].number = i
    BY <2>1, <2>2, <1>2
  <2> QED
    BY <2>3, <1>3, <1>6, <1>7, <1>8, <1>9 DEF QueryRight, CacheInv, PlansListed
<1>10. CASE mode = "single"
  <2>1. pending' = <<Plan(planSpace, n)>> /\ n = number
    BY <1>2, <1>3, <1>4, <1>5, <1>10 DEF Recalled
  <2>2. Plan(planSpace, n) \in Listed /\ Plan(planSpace, n).number = n
    BY <1>2, <1>5 DEF Listed, Plan
  <2>3. pending' \in Seq(Listed) /\ pending' # <<>> /\ pending'[Len(pending')].number = n
    BY <2>1, <2>2
  <2> QED
    BY <2>1, <2>3, <1>3, <1>6, <1>8, <1>10 DEF QueryRight, CacheInv, PlansListed
<1> QED
  BY <1>9, <1>10 DEF Modes

LEMMA FromFasbRight ==
    ASSUME CacheInv, NEW mode \in Modes, NEW number \in Numbers, NEW start \in 1..number,
           mode = "single" => start = 1, pending = <<>>,
           FromFasb(mode, Requested(mode, number), start)
    PROVE  QueryRight(mode, number, start)
<1>1. PICK n : n = Requested(mode, number)
  OBVIOUS
<1>2. /\ n \in Nat \ {0} /\ n <= number /\ number \in Nat \ {0} /\ total \in Nat \ {0}
      /\ n # number => mode = "prefix" /\ n = total /\ count = total /\ n < number
  BY <1>1, RequestedCut, Bounds DEF Numbers, CacheInv
<1>3. /\ reply' = Reply(From(Chosen(mode, n, Printed(n)), start), NoCount)
      /\ pending' = Printed(n) /\ count' = CountAfter(n)
  BY <1>1 DEF FromFasb
<1>4. /\ Printed(n) \in Seq(Listed) /\ Len(Printed(n)) = Cut(n) /\ Cut(n) \in 1..total
      /\ \A i \in 1..Cut(n) : Printed(n)[i] = Plan(planSpace, i)
  BY <1>2, PrintedListed
<1>5. Cut(n) = Cut(number) /\ (n <= total => Cut(n) = n)
  BY <1>2 DEF Cut
<1>6. /\ count' \in {NoCount, total}
      /\ number > total => count' = total
  <2>1. count \in {NoCount, total}
    BY DEF CacheInv, PlansListed
  <2>2. CASE n <= total
    <3>1. count' = count
      BY <2>2, <1>2, <1>3, <1>4, <1>5 DEF CountAfter
    <3>2. number > total => n # number
      BY <2>2, <1>2
    <3> QED
      BY <2>1, <3>1, <3>2, <1>2
  <2>3. CASE n > total
    <3>1. Cut(n) = total /\ Printed(n) # <<>>
      BY <2>3, <1>2, <1>4 DEF Cut
    <3> QED
      BY <2>3, <3>1, <1>2, <1>3, <1>4 DEF CountAfter
  <2> QED
    BY <2>2, <2>3, <1>2
<1>7. Seqs!ToSet(Printed(n)) = {Plan(planSpace, i) : i \in 1..Cut(n)}
  BY <1>4 DEF Seqs!ToSet
<1>8. From(Chosen(mode, n, Printed(n)), start)
        = {Plan(planSpace, i) : i \in Answered(mode, number, start)}
  <2>1. \A i : Plan(planSpace, i).number = i
    BY DEF Plan
  <2>2. CASE mode = "prefix"
    <3>1. Chosen(mode, n, Printed(n)) = {Plan(planSpace, i) : i \in 1..Cut(n)}
      <4>1. \A i \in 1..Cut(n) : i \in 1..n
        BY <1>2, <1>4 DEF Cut
      <4> QED
        BY <2>1, <2>2, <4>1, <1>7 DEF Chosen, Wanted
    <3>2. \A i \in 1..Cut(n) : i >= start <=> i \in start..Cut(n)
      BY <1>2, <1>4
    <3>3. start..Cut(n) \subseteq 1..Cut(n)
      BY <1>2, <1>4
    <3> QED
      BY <2>1, <2>2, <3>1, <3>2, <3>3, <1>5 DEF From, Answered
  <2>3. CASE mode = "single"
    <3>1. n = number /\ start = 1 /\ Wanted(mode, n) = {number}
      BY <2>3, <1>2 DEF Wanted
    <3>2. {number} \cap 1..Cut(n) = {number} \cap 1..total
      BY <3>1, <1>2 DEF Cut
    <3>3. Chosen(mode, n, Printed(n)) = {Plan(planSpace, i) : i \in {number} \cap 1..Cut(n)}
      BY <2>1, <3>1, <1>7 DEF Chosen
    <3>4. From(Chosen(mode, n, Printed(n)), start) = Chosen(mode, n, Printed(n))
      BY <2>1, <3>1, <3>3, <1>2, <1>4 DEF From
    <3> QED
      BY <2>3, <3>2, <3>3, <3>4 DEF Answered
  <2> QED
    BY <2>2, <2>3 DEF Modes
<1>9. \A i \in 1..Cut(n) : Printed(n)[i].number = i
  BY <1>4 DEF Plan
<1>10. number <= total => /\ Printed(n) # <<>>
                          /\ mode = "single" => Printed(n)[Len(Printed(n))].number = number
  <2> SUFFICES ASSUME number <= total
               PROVE  Printed(n) # <<>> /\ (mode = "single" => Cut(n) = number)
    BY <1>4, <1>9
  <2> QED
    BY <1>2, <1>4, <1>5
<1> QED
  BY <1>3, <1>4, <1>5, <1>6, <1>8, <1>9, <1>10 DEF QueryRight

LEMMA PastTheCountRight ==
    ASSUME CacheInv, NEW mode \in Modes, NEW number \in Numbers, NEW start \in 1..number,
           mode = "single" => start = 1, pending = <<>>,
           PastTheCount(mode, Requested(mode, number), start)
    PROVE  QueryRight(mode, number, start)
<1>1. PICK n : n = Requested(mode, number)
  OBVIOUS
<1>2. /\ n \in Nat \ {0} /\ n <= number /\ number \in Nat \ {0} /\ total \in Nat \ {0}
      /\ n # number => mode = "prefix" /\ n = total /\ count = total /\ n < number
  BY <1>1, RequestedCut, Bounds DEF Numbers, CacheInv
<1>3. /\ reply' = Reply({}, NoCount) /\ count' = count /\ pending' = pending
      /\ count # NoCount /\ n > count /\ count = total
  BY <1>1 DEF PastTheCount, PastCount, CacheInv, PlansListed
<1>4. n = number /\ number > total
  BY <1>2, <1>3
<1>5. mode = "single"
  <2> SUFFICES ASSUME mode = "prefix" PROVE FALSE
    BY DEF Modes
  <2>1. n = count
    BY <1>1, <1>2, <1>3, <1>4 DEF Requested
  <2> QED
    BY <2>1, <1>2, <1>3
<1>6. Answered(mode, number, start) = {}
  BY <1>2, <1>4, <1>5 DEF Answered
<1>7. {Plan(planSpace, i) : i \in Answered(mode, number, start)} = {}
  BY <1>6
<1>8. pending' \in Seq(Listed) /\ count' \in {NoCount, total} /\ count' = total
  BY <1>3 DEF CacheInv, PlansListed
<1> QED
  <2>1. reply' = Reply({Plan(planSpace, i) : i \in Answered(mode, number, start)}, NoCount)
    BY <1>3, <1>7
  <2>2. ~ (number <= total) /\ mode # "prefix"
    BY <1>2, <1>4, <1>5
  <2> QED
    BY <1>8, <2>1, <2>2 DEF QueryRight

LEMMA QueryCorrect ==
    ASSUME CacheInv, NEW mode \in Modes, NEW number \in Numbers, NEW start \in 1..number,
           mode = "single" => start = 1, Query(mode, number, start)
    PROVE  QueryRight(mode, number, start)
<1>1. /\ pending = <<>>
      /\ \/ FromCache(mode, Requested(mode, number), start)
         \/ PastTheCount(mode, Requested(mode, number), start)
         \/ FromFasb(mode, Requested(mode, number), start)
  BY DEF Query
<1> QED
  BY <1>1, FromCacheRight, PastTheCountRight, FromFasbRight

-----------------------------------------------------------------------------
(* The invariant *)

LEMMA CacheInitially == CacheInit => CacheInv
BY Bounds DEF CacheInit, ListInit, CacheInv, AskedFit, PlansListed, Counted, PrefixFit,
    RecentFit, SingleFit, NoQuery, Modes

LEMMA QueryKeeps ==
    ASSUME CacheInv, NEW mode \in Modes, NEW number \in Numbers, NEW start \in 1..number,
           mode = "single" => start = 1, Query(mode, number, start)
    PROVE  CacheInv'
<1>1. QueryRight(mode, number, start)
  BY QueryCorrect
<1>2. /\ asked' = [mode |-> mode, number |-> number]
      /\ total' = total /\ planSpace' = planSpace /\ cache' = cache
  BY DEF Query
<1>3. /\ number \in Nat \ {0} /\ number \in 0..MaxNumber /\ total \in Nat \ {0}
      /\ Limit \in Nat \ {0}
  BY Bounds DEF Numbers, CacheInv
<1>4. AskedFit'
  BY <1>2, <1>3 DEF AskedFit, Modes
<1>5. Listed' = Listed
  BY <1>2 DEF Listed
<1>6. PlansListed'
  BY <1>1, <1>2, <1>5 DEF QueryRight, PlansListed, CacheInv
<1>7. Counted' /\ SingleFit'
  BY <1>1, <1>2, <1>3 DEF QueryRight, Counted, SingleFit
<1>8. Goal' = Cut(number) /\ Cut(number) \in Nat
  BY <1>2, <1>3 DEF Goal, Cut
<1>9. mode = "prefix" => Len(pending') = Goal' /\ Done' = 0
  BY <1>1, <1>8 DEF QueryRight, Done
<1>10. PrefixFit'
  BY <1>1, <1>2, <1>8, <1>9 DEF QueryRight, PrefixFit
<1>11. RecentFit'
  <2>1. Len(cache') \in Nat
    BY <1>2 DEF CacheInv, PlansListed
  <2> QED
    BY <2>1, <1>2, <1>9 DEF RecentFit
<1> QED
  BY <1>2, <1>4, <1>6, <1>7, <1>10, <1>11 DEF CacheInv

LEMMA RememberKeeps == ASSUME CacheInv, Remember PROVE CacheInv'
<1>1. /\ pending # <<>> /\ cache' = Cached(cache, Head(pending))
      /\ pending' = Tail(pending) /\ count' = count /\ asked' = asked
      /\ total' = total /\ planSpace' = planSpace
  BY DEF Remember
<1>2. PICK x : x = Head(pending)
  OBVIOUS
<1>3. /\ cache \in Seq(Listed) /\ pending \in Seq(Listed) /\ count \in {NoCount, total}
      /\ Listed' = Listed
  BY <1>1 DEF CacheInv, PlansListed, Listed
<1>4. /\ x \in Listed /\ x = pending[1] /\ Len(pending) \in Nat \ {0}
      /\ pending' \in Seq(Listed) /\ Len(pending') = Len(pending) - 1
      /\ \A i \in 1..Len(pending') : pending'[i] = pending[i + 1]
  BY <1>1, <1>2, <1>3
<1>5. total \in Nat \ {0} /\ Limit \in Nat \ {0}
  BY Bounds DEF CacheInv
<1>6. /\ cache' \in Seq(Listed) /\ Len(cache') \in Nat \ {0} /\ cache'[Len(cache')] = x
  <2>1. 0 \in 0..Len(cache) /\ Spares(cache, 0, x) /\ 0 < Limit
    BY <1>3, <1>5 DEF Spares
  <2> QED
    BY <2>1, <1>1, <1>2, <1>3, <1>4, CachedKeepsEnd
<1>7. Goal' = Goal /\ Goal \in Nat /\ (asked # NoQuery => Goal <= asked.number /\ Goal # 0)
  BY <1>1, <1>5 DEF Goal, CacheInv, AskedFit, Numbers
<1>8. Done' = Done + 1 /\ Done \in Int
  BY <1>4, <1>7 DEF Done
<1>9. PrefixFit'
  <2> SUFFICES ASSUME asked.mode = "prefix"
               PROVE  /\ Len(pending') <= Goal
                      /\ \A i \in 1..Len(pending') : pending'[i].number = Done + 1 + i
    BY <1>1, <1>7, <1>8 DEF PrefixFit
  <2>1. /\ Len(pending) <= Goal
        /\ \A i \in 1..Len(pending) : pending[i].number = Done + i
    BY DEF CacheInv, PrefixFit
  <2>2. ASSUME NEW i \in 1..Len(pending') PROVE pending'[i].number = Done + 1 + i
    <3>1. i + 1 \in 1..Len(pending)
      BY <1>4
    <3>2. pending[i + 1].number = Done + (i + 1)
      BY <2>1, <3>1
    <3> QED
      BY <3>2, <1>4, <1>8
  <2> QED
    BY <2>1, <2>2, <1>4, <1>7
<1>10. RecentFit'
  <2> SUFFICES ASSUME asked.mode = "prefix", asked.number <= Limit
               PROVE  /\ Done + 1 <= Len(cache')
                      /\ \A i \in 1..(Done + 1) :
                            cache'[Len(cache') - (Done + 1) + i].number = i
    BY <1>1, <1>7, <1>8 DEF RecentFit
  <2>1. /\ Len(pending) <= Goal /\ pending[1].number = Done + 1
    BY <1>4 DEF CacheInv, PrefixFit
  <2>2. /\ Done \in 0..Len(cache)
        /\ \A i \in 1..Done : cache[Len(cache) - Done + i].number = i
    BY <2>1, <1>3, <1>4, <1>7 DEF CacheInv, RecentFit, Done
  <2>3. Done < Limit
    <3>1. asked # NoQuery
      BY DEF NoQuery
    <3>2. asked.number \in Nat /\ Goal <= asked.number
      BY <3>1, <1>7, Bounds DEF CacheInv, AskedFit, Numbers
    <3> QED
      BY <3>2, <1>4, <1>5, <1>7 DEF Done
  <2>4. Spares(cache, Done, x)
    <3>1. ASSUME NEW i \in 1..Done PROVE cache[Len(cache) - Done + i].number # x.number
      <4>1. cache[Len(cache) - Done + i].number = i /\ x.number = Done + 1
        BY <2>1, <2>2, <1>4
      <4> QED
        BY <4>1, <1>8
    <3> QED
      BY <3>1 DEF Spares
  <2>5. Done + 1 <= Len(cache') /\ KeepsEnd(cache', Done + 1, cache, Done)
    BY <2>2, <2>3, <2>4, <1>1, <1>2, <1>3, <1>4, CachedKeepsEnd
  <2>6. ASSUME NEW i \in 1..(Done + 1)
        PROVE  cache'[Len(cache') - (Done + 1) + i].number = i
    <3>1. CASE i = Done + 1
      <4>1. Len(cache') - (Done + 1) + i = Len(cache')
        BY <3>1, <1>6, <1>8
      <4> QED
        BY <4>1, <3>1, <2>1, <1>4, <1>6
    <3>2. CASE i # Done + 1
      <4>1. i \in 1..Done
        BY <3>2, <1>8
      <4> QED
        BY <4>1, <2>2, <2>5 DEF KeepsEnd
    <3> QED
      BY <3>1, <3>2
  <2> QED
    BY <2>5, <2>6
<1>11. SingleFit'
  <2> SUFFICES ASSUME asked.mode = "single", asked.number <= total
               PROVE  IF pending' = <<>>
                      THEN cache' # <<>> /\ cache'[Len(cache')].number = asked.number
                      ELSE pending'[Len(pending')].number = asked.number
    BY <1>1 DEF SingleFit
  <2>0. SingleFit
    BY DEF CacheInv
  <2>1. pending[Len(pending)].number = asked.number
    BY <2>0, <1>1 DEF SingleFit
  <2>2. CASE pending' = <<>>
    <3>1. Len(pending) = 1
      BY <2>2, <1>4
    <3>2. x.number = asked.number
      BY <2>1, <3>1, <1>4
    <3>3. cache' # <<>>
      BY <1>6
    <3> QED
      BY <2>2, <3>2, <3>3, <1>6
  <2>3. CASE pending' # <<>>
    <3>1. Len(pending') \in 1..Len(pending')
      BY <2>3, <1>4
    <3>2. pending'[Len(pending')] = pending[Len(pending)]
      BY <3>1, <1>4
    <3> QED
      BY <2>1, <2>3, <3>2
  <2> QED
    BY <2>2, <2>3
<1> QED
  BY <1>1, <1>3, <1>4, <1>6, <1>9, <1>10, <1>11
  DEF CacheInv, AskedFit, PlansListed, Counted

LEMMA Keeps == ASSUME CacheInv, [CacheNext]_cacheVars PROVE CacheInv'
<1>1. CASE QuerySingle
  <2>1. PICK n \in Numbers : Query("single", n, 1)
    BY <1>1 DEF QuerySingle
  <2>2. 1 \in 1..n /\ "single" \in Modes
    BY Bounds DEF Numbers, Modes
  <2> QED
    BY <2>1, <2>2, QueryKeeps
<1>2. CASE QueryPage
  <2>1. PICK n \in Numbers : \E start \in 1..n : Query("prefix", n, start)
    BY <1>2 DEF QueryPage
  <2>2. PICK start \in 1..n : Query("prefix", n, start)
    BY <2>1
  <2> QED
    BY <2>2, QueryKeeps DEF Modes
<1>3. CASE Remember
  BY <1>3, RememberKeeps
<1>4. CASE QueryCount
  <2>1. /\ pending' = pending /\ cache' = cache /\ total' = total /\ planSpace' = planSpace
        /\ count' \in {count, total} /\ asked' = NoQuery
    BY <1>4 DEF QueryCount
  <2>2. PlansListed'
    BY <2>1 DEF CacheInv, PlansListed, Listed
  <2>3. AskedFit' /\ Counted' /\ PrefixFit' /\ RecentFit' /\ SingleFit'
    BY <2>1, Bounds
    DEF CacheInv, AskedFit, Counted, PrefixFit, RecentFit, SingleFit, NoQuery, Modes
  <2> QED
    BY <2>1, <2>2, <2>3 DEF CacheInv
<1>5. CASE LearnCount
  BY <1>5 DEF LearnCount, CacheInv, AskedFit, PlansListed, Counted, PrefixFit,
            RecentFit, SingleFit, Goal, Done, Listed
<1>6. CASE Apply
  BY <1>6, Bounds DEF Apply, Select, NoQuery, Modes, CacheInv, AskedFit, PlansListed, Counted, PrefixFit,
            RecentFit, SingleFit, Goal, Done, Listed
<1>7. CASE UNCHANGED cacheVars
  BY <1>7 DEF cacheVars, CacheInv, AskedFit, PlansListed, Counted, PrefixFit,
            RecentFit, SingleFit, Goal, Done, Listed
<1> QED
  BY <1>1, <1>2, <1>3, <1>4, <1>5, <1>6, <1>7 DEF CacheNext

THEOREM CacheRight == CacheSpec => []CacheInv
BY CacheInitially, Keeps, PTL DEF CacheSpec

(* Whatever has been asked, evicted and counted before, the cache, the     *)
(* known count and FASB answer as the numbered list of plans does: every   *)
(* branch of query("solution"), the page of a job, the three ways to learn *)
(* a count.                                                                *)
THEOREM PlanListImplemented == CacheSpec => ImplementsPlanList
<1>1. CacheInit => ListInit
  BY DEF CacheInit
<1>2. ASSUME CacheInv, [CacheNext]_cacheVars PROVE [ListNext]_listVars
  <2>1. CASE QuerySingle
    <3>1. PICK n \in Numbers : Query("single", n, 1)
      BY <2>1 DEF QuerySingle
    <3>2. 1 \in 1..n /\ "single" \in Modes /\ n \in Nat \ {0} /\ total \in Nat
      BY Bounds, <1>2 DEF Numbers, Modes, CacheInv
    <3>3. QueryRight("single", n, 1)
      BY <1>2, <3>1, <3>2, QueryCorrect
    <3>4. Answered("single", n, 1) = IF n <= total THEN {n} ELSE {}
      BY <3>2 DEF Answered
    <3>5. {Plan(planSpace, i) : i \in Answered("single", n, 1)}
            = IF n <= total THEN {Plan(planSpace, n)} ELSE {}
      BY <3>4
    <3>6. reply' = Reply(IF n <= total THEN {Plan(planSpace, n)} ELSE {}, NoCount)
      BY <3>3, <3>5 DEF QueryRight
    <3> QED
      BY <3>1, <3>6 DEF Query, ListNext, AskOne
  <2>2. CASE QueryPage
    <3>0. PICK n \in Numbers : \E start \in 1..n : Query("prefix", n, start)
      BY <2>2 DEF QueryPage
    <3>1. PICK start \in 1..n : Query("prefix", n, start)
      BY <3>0
    <3>2. QueryRight("prefix", n, start)
      BY <1>2, <3>1, QueryCorrect DEF Modes
    <3>3. reply' = Reply(Page(start, IF n <= total THEN n ELSE total), NoCount)
      BY <3>2 DEF QueryRight, Answered, Page, Cut
    <3> QED
      BY <3>1, <3>3 DEF Query, ListNext, AskPage
  <2>3. CASE Remember
    BY <2>3 DEF Remember, listVars
  <2>4. CASE QueryCount
    BY <2>4, <1>2, Bounds DEF QueryCount, ListNext, AskCount, CacheInv, PlansListed
  <2>5. CASE LearnCount
    BY <2>5 DEF LearnCount, listVars
  <2>6. CASE Apply
    BY <2>6 DEF Apply, ListNext
  <2>7. CASE UNCHANGED cacheVars
    BY <2>7 DEF cacheVars, listVars
  <2> QED
    BY <1>2, <2>1, <2>2, <2>3, <2>4, <2>5, <2>6, <2>7 DEF CacheNext
<1> QED
  BY <1>1, <1>2, CacheRight, PTL DEF CacheSpec, ImplementsPlanList, ListSpec

(* Eviction never takes what was asked for last, if it fits: repeating a   *)
(* query needs no FASB, be its answer in the cache or beyond a count that  *)
(* the query itself has given away.                                        *)
THEOREM RepeatIsFree == CacheSpec => []RepeatNeedsNoFasb
<1>1. ASSUME CacheInv PROVE RepeatNeedsNoFasb
  <2> SUFFICES ASSUME pending = <<>>, asked # NoQuery,
                      asked.mode = "prefix" => asked.number <= Limit
               PROVE  NeedsNoFasb(asked.mode, Requested(asked.mode, asked.number))
    BY DEF RepeatNeedsNoFasb
  <2>1. PICK n : n = Requested(asked.mode, asked.number)
    OBVIOUS
  <2>2. /\ asked.mode \in Modes /\ asked.number \in Nat \ {0} /\ total \in Nat \ {0}
        /\ count \in {NoCount, total} /\ Len(cache) \in Nat /\ NoCount # total
    BY <1>1, Bounds DEF CacheInv, AskedFit, Numbers, PlansListed
  <2>3. CASE asked.mode = "prefix"
    <3>1. Done = Goal /\ Goal \in 1..Len(cache)
      BY <1>1, <2>2, <2>3 DEF CacheInv, RecentFit, Done, Goal
    <3>2. \A i \in 1..Goal : cache[Len(cache) - Goal + i].number = i
      BY <1>1, <2>3, <3>1 DEF CacheInv, RecentFit
    <3>3. ASSUME NEW i \in 1..Goal PROVE i \in CachedNumbers
      <4>1. Len(cache) - Goal + i \in DOMAIN cache
        BY <1>1, <2>2, <3>1 DEF CacheInv, PlansListed
      <4> QED
        BY <4>1, <3>2 DEF CachedNumbers
    <3>4. n = Goal
      BY <1>1, <2>1, <2>2, <2>3 DEF CacheInv, Counted, Requested, Goal
    <3> QED
      BY <2>1, <2>3, <3>3, <3>4 DEF NeedsNoFasb, HasCached, Wanted
  <2>4. CASE asked.mode = "single"
    <3>1. n = asked.number
      BY <2>1, <2>4 DEF Requested
    <3>2. CASE n <= total
      <4>1. cache # <<>> /\ cache[Len(cache)].number = n
        BY <1>1, <2>4, <3>1, <3>2 DEF CacheInv, SingleFit
      <4>2. Len(cache) \in DOMAIN cache
        BY <1>1, <4>1 DEF CacheInv, PlansListed
      <4> QED
        BY <2>1, <2>4, <4>1, <4>2 DEF NeedsNoFasb, HasCached, Wanted, CachedNumbers
    <3>3. CASE ~ (n <= total)
      BY <1>1, <2>1, <2>2, <3>1, <3>3 DEF CacheInv, Counted, NeedsNoFasb, PastCount
    <3> QED
      BY <3>2, <3>3
  <2> QED
    BY <2>2, <2>3, <2>4 DEF Modes
<1> QED
  BY <1>1, CacheRight, PTL
=============================================================================
