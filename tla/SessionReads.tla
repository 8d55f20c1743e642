---------------------------- MODULE SessionReads ----------------------------
(***************************************************************************)
(* What clients have seen of a session when they change it.  A response is *)
(* read attribute by attribute (to_response): under operation_lock by the  *)
(* listing of facets, by queries and by apply_selections itself, without   *)
(* it by GET.  apply_selections assigns the new solution, the count and    *)
(* the revision one after the other, so GET may see some of them only.     *)
(*                                                                         *)
(* Plan spaces are numbered by the revision that selects them, and a       *)
(* solution, and a count, by the plan space it belongs to.                 *)
(***************************************************************************)
EXTENDS Integers

CONSTANTS
    Clients,        \* threads that each serve the requests of one client
    Getters,        \* those whose client uses GET
    MaxRevision,    \* bound: selections applied
    None

ASSUME SessionReadsAssumption ==
    Getters \subseteq Clients /\ None \notin Clients \cup Int /\ MaxRevision \in Nat

VARIABLES
    solution,       \* the plan space of solution
    solutionCount,  \* the plan space counted in solution_count, or None
    revision,       \* selection_revision
    owner,          \* who holds operation_lock
    at,             \* where each thread is
    seen            \* the response each client has seen last, or is being read

readVars == <<solution, solutionCount, revision, owner, at, seen>>

Revisions == 0..MaxRevision
Views == [solution : Revisions, count : Revisions \cup {None}, revision : Revisions]

Places == {"ready", "getSolution", "getCount", "getRevision", "list", "compare",
           "rebuild", "setSolution", "setCount", "setRevision", "count"}

ReadsTypeOK ==
    /\ solution \in Revisions /\ revision \in Revisions
    /\ solutionCount \in Revisions \cup {None}
    /\ owner \in Clients \cup {None}
    /\ at \in [Clients -> Places]
    /\ seen \in [Clients -> Views]

(* create_session has answered every client *)
ReadsInit ==
    /\ solution = 0 /\ solutionCount = None /\ revision = 0
    /\ owner = None
    /\ at = [c \in Clients |-> "ready"]
    /\ seen = [c \in Clients |-> [solution |-> 0, count |-> None, revision |-> 0]]

Goto(c, from, to) == at[c] = from /\ at' = [at EXCEPT ![c] = to]
Lock(c) == owner = None /\ owner' = c
Unlock(c) == owner = c /\ owner' = None
Sees(c, view) == seen' = [seen EXCEPT ![c] = view]

(* to_response under the lock *)
Response == [solution |-> solution, count |-> solutionCount, revision |-> revision]

-----------------------------------------------------------------------------
(* GET: to_response without the lock, which no one waits for *)

Get(c) ==
    /\ c \in Getters
    /\ Goto(c, "ready", "getSolution")
    /\ UNCHANGED <<solution, solutionCount, revision, owner, seen>>

GetSolution(c) ==
    /\ Goto(c, "getSolution", "getCount")
    /\ Sees(c, [seen[c] EXCEPT !.solution = solution])
    /\ UNCHANGED <<solution, solutionCount, revision, owner>>

GetCount(c) ==
    /\ Goto(c, "getCount", "getRevision")
    /\ Sees(c, [seen[c] EXCEPT !.count = solutionCount])
    /\ UNCHANGED <<solution, solutionCount, revision, owner>>

GetRevision(c) ==
    /\ Goto(c, "getRevision", "ready")
    /\ Sees(c, [seen[c] EXCEPT !.revision = revision])
    /\ UNCHANGED <<solution, solutionCount, revision, owner>>

-----------------------------------------------------------------------------
(* list_facets_response *)

List(c) ==
    /\ Goto(c, "ready", "list")
    /\ Lock(c)
    /\ UNCHANGED <<solution, solutionCount, revision, seen>>

ListEnd(c) ==
    /\ Goto(c, "list", "ready")
    /\ Unlock(c)
    /\ Sees(c, Response)
    /\ UNCHANGED <<solution, solutionCount, revision>>

(* query_response of a "solutionCount" *)
Count(c) ==
    /\ Goto(c, "ready", "count")
    /\ Lock(c)
    /\ solutionCount' = revision
    /\ UNCHANGED <<solution, revision, seen>>

CountEnd(c) ==
    /\ Goto(c, "count", "ready")
    /\ Unlock(c)
    /\ Sees(c, Response)
    /\ UNCHANGED <<solution, solutionCount, revision>>

-----------------------------------------------------------------------------
(* apply_selections, with the revision the client has seen last *)

ApplyBegin(c) ==
    /\ Goto(c, "ready", "compare")
    /\ Lock(c)
    /\ UNCHANGED <<solution, solutionCount, revision, seen>>

NeverCompares(c) ==
    /\ revision < MaxRevision
    /\ Goto(c, "compare", "rebuild")
    /\ UNCHANGED <<solution, solutionCount, revision, owner, seen>>

Compare(c) ==
    /\ IF seen[c].revision = revision /\ revision < MaxRevision
       THEN Goto(c, "compare", "rebuild") /\ UNCHANGED owner
       ELSE Goto(c, "compare", "ready") /\ Unlock(c)
    /\ UNCHANGED <<solution, solutionCount, revision, seen>>

(* FASB has loaded the new selections and listed their facets *)
Rebuilt(c) ==
    /\ Goto(c, "rebuild", "setSolution")
    /\ UNCHANGED <<solution, solutionCount, revision, owner, seen>>

(* or not: nothing has been assigned that a response shows *)
RebuildFails(c) ==
    /\ Goto(c, "rebuild", "ready")
    /\ Unlock(c)
    /\ UNCHANGED <<solution, solutionCount, revision, seen>>

SetSolution(c) ==
    /\ Goto(c, "setSolution", "setCount")
    /\ solution' = revision + 1
    /\ UNCHANGED <<solutionCount, revision, owner, seen>>

SetCount(c) ==
    /\ Goto(c, "setCount", "setRevision")
    /\ solutionCount' = None
    /\ UNCHANGED <<solution, revision, owner, seen>>

(* the revision, and the response of apply_selections *)
SetRevision(c) ==
    /\ Goto(c, "setRevision", "ready")
    /\ Unlock(c)
    /\ revision' = revision + 1
    /\ Sees(c, [Response EXCEPT !.revision = revision + 1])
    /\ UNCHANGED <<solution, solutionCount>>

-----------------------------------------------------------------------------
ReadsNext == \E c \in Clients :
    \/ Get(c) \/ GetSolution(c) \/ GetCount(c) \/ GetRevision(c)
    \/ List(c) \/ ListEnd(c) \/ Count(c) \/ CountEnd(c)
    \/ ApplyBegin(c) \/ Compare(c) \/ Rebuilt(c) \/ RebuildFails(c)
    \/ SetSolution(c) \/ SetCount(c) \/ SetRevision(c)

ReadsSpec == ReadsInit /\ [][ReadsNext]_readVars

-----------------------------------------------------------------------------
(* Properties *)

(* apply_selections has found that the client knows the present revision *)
Accepted(c) == at[c] \in {"rebuild", "setSolution"}

(* A client whose responses were all built under operation_lock is refused *)
(* whenever the solution it was shown is not the session's any more        *)
(* (session_registry.py:219-227).                                          *)
StaleClientRefused ==
    \A c \in Clients \ Getters : Accepted(c) => seen[c].solution = solution

(* A client that has read the session with GET may hold an old solution    *)
(* with the present revision; but a solution that it has read in the       *)
(* middle of a commit is committed before apply_selections compares its    *)
(* revision (session_registry.py:219-227, 259-263).                        *)
StaleViewRefused ==
    \A c \in Clients : Accepted(c) => seen[c].solution <= revision

(* Both, for clients of either kind at once. *)
StaleRefused == StaleClientRefused /\ StaleViewRefused
=============================================================================
