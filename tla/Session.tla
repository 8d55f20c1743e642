------------------------------- MODULE Session -------------------------------
(***************************************************************************)
(* One SessionContext of session_registry.py and the threads that share    *)
(* it: the HTTP requests of one session, the threads of its query jobs,    *)
(* and whoever retires it (DELETE, expiry, cleanup, shutdown).             *)
(*                                                                         *)
(* operation_lock serialises everything that talks to FASB, except         *)
(* stop_fasb, which stop() and cancel_query_job() call without it.  A call *)
(* to the PlanPilot service is one step with a nondeterministic outcome:   *)
(* an answer, PlanpilotCapacityError or another error, each with FASB      *)
(* killed or left running.                                                 *)
(***************************************************************************)
EXTENDS Selections

CONSTANTS
    Requests,    \* HTTP requests; each is served once, by a thread of its own
    Jobs,        \* query jobs; each has a thread of its own
    Serves,      \* the kinds of request the clients send
    Queries,     \* the queries they ask
    JobLimit,    \* query_job_history_limit()
    Faults,      \* how a service call may fail: "capacity", "error"
    None

Threads == Requests \cup Jobs

QueryTypes == {"facets", "probe", "solutionCount", "solution", "selectionImpact"}
JobTypes == {"solutionCount", "solution", "selectionImpact"}
RequestKinds == {"apply", "query", "start", "cancel", "stop"}

ASSUME SessionAssumption ==
    /\ Requests \cap Jobs = {}
    /\ None \notin Threads
    /\ None \notin Selections
    /\ Serves \subseteq RequestKinds
    /\ Queries \subseteq [type : QueryTypes, facet : Facets \cup {None},
                          number : Nat]
    /\ JobLimit \in Nat \ {0}
    /\ Faults \subseteq {"capacity", "error"}
    /\ \E p \in Models(NoSelections) : Displayable(p)

VARIABLES
    registered,     \* the session is in SessionRegistry._sessions
    available,      \* solver_available
    stopping,       \* the stopping event
    applied,        \* applied_selections
    revision,       \* selection_revision
    baseline,       \* baseline_solution
    solution,       \* solution
    solutionCount,  \* solution_count
    cached,         \* solution_cache
    facets,         \* facets: which are visible, which of them selectable
    known,          \* keys of facet_timesteps and facet_catalog
    solver,         \* the selections loaded in the running FASB; None: no FASB
    jobs,           \* each job's status, revision and events
    table,          \* the jobs dict, in the order of creation
    owner,          \* the thread that holds operation_lock
    op,             \* the local variables of that thread
    pc,             \* where each thread is
    call,           \* what each thread was asked to do
    outcome         \* the response of a request, the result of a job

selectionVars == <<applied, revision, solution, cached, facets, known>>
jobVars == <<jobs, table>>
lifeVars == <<registered, stopping>>
vars == <<registered, available, stopping, applied, revision, baseline,
          solution, solutionCount, cached, facets, known, solver, jobs, table,
          owner, op, pc, call, outcome>>

-----------------------------------------------------------------------------
(* Requests, replies and the state of an operation. *)

Calls ==
    [kind : {"apply"}, batch : Batches, expected : Nat \cup {None}]
      \cup [kind : {"query"}, query : Queries]
      \cup [kind : {"start"}, query : {q \in Queries : q.type \in JobTypes},
            expected : Nat \cup {None}]
      \cup [kind : {"cancel"}, job : Jobs]
      \cup [kind : {"stop"}]

Statuses == {"none", "ok", "accepted", "notFound", "invalid", "conflict",
             "noPlan", "capacity", "error"}

Counts == Nat \cup {None}

(* total: a solution count or totalPlans; require, forbid: plansRemaining *)
Replies == [status : Statuses, plans : SUBSET Plans, total : Counts,
            require : Counts, forbid : Counts]

Reply(status) == [status |-> status, plans |-> {}, total |-> None,
                  require |-> None, forbid |-> None]

Stages == {"none", "apply", "facets", "answer", "require", "forbid",
           "tryRequire", "tryForbid", "restore", "recover"}

(* target: the selections being loaded; before: previous_selections;       *)
(* draft: the new solution; reply: the response, once it is decided        *)
Operations == [stage : Stages, target : Selections, before : Selections,
               draft : SUBSET Facets, reply : Replies]

NoOperation == [stage |-> "none", target |-> NoSelections,
                before |-> NoSelections, draft |-> {}, reply |-> Reply("none")]

JobStatuses == {"unborn", "queued", "running", "succeeded", "failed", "cancelled"}
ActiveStatuses == {"queued", "running"}
TerminalStatuses == {"succeeded", "failed", "cancelled"}
JobRecords == [status : JobStatuses, revision : Nat, cancel : BOOLEAN,
               finished : BOOLEAN]

InSession == {"restart", "load", "ask", "record", "settle"}
Places == InSession \cup {"idle", "lock", "check", "create", "mark", "kill",
                          "stop", "stopKill", "stopWait", "unborn", "begin",
                          "done"}

TypeOK ==
    /\ registered \in BOOLEAN /\ available \in BOOLEAN /\ stopping \in BOOLEAN
    /\ applied \in Selections /\ revision \in Nat
    /\ baseline \subseteq Facets /\ solution \subseteq Facets
    /\ solutionCount \in Counts /\ cached \subseteq Plans
    /\ facets \in [visible : SUBSET Facets, selectable : SUBSET Facets]
    /\ known \subseteq Facets
    /\ solver \in Selections \cup {None}
    /\ jobs \in [Jobs -> JobRecords]
    /\ table \in Seq(Jobs)
    /\ owner \in Threads \cup {None}
    /\ op \in Operations
    /\ pc \in [Threads -> Places]
    /\ call \in [Threads -> Calls \cup {None}]
    /\ outcome \in [Threads -> Replies]

(* create_session: FASB runs with nothing selected and has shown a plan *)
Init ==
    /\ registered = TRUE /\ available = TRUE /\ stopping = FALSE
    /\ applied = NoSelections /\ revision = 0
    /\ \E p \in Models(NoSelections) :
          Displayable(p) /\ baseline = Displayed(p)
    /\ solution = baseline /\ solutionCount = None /\ cached = {}
    /\ facets = ComposedFacets(NoSelections, NoSelections, solution, {})
    /\ known = facets.visible
    /\ solver = NoSelections
    /\ jobs = [j \in Jobs |-> [status |-> "unborn", revision |-> 0,
                               cancel |-> FALSE, finished |-> FALSE]]
    /\ table = <<>>
    /\ owner = None /\ op = NoOperation
    /\ pc = [t \in Threads |-> IF t \in Jobs THEN "unborn" ELSE "idle"]
    /\ call = [t \in Threads |-> None]
    /\ outcome = [t \in Threads |-> Reply("none")]

At(t, place) == pc[t] = place
GoTo(t, place) == pc' = [pc EXCEPT ![t] = place]
Respond(t, reply) == outcome' = [outcome EXCEPT ![t] = reply]

(* a step of t inside its operation *)
Holds(t, place) == owner = t /\ At(t, place)
InStage(t, place, stages) == Holds(t, place) /\ op.stage \in stages

-----------------------------------------------------------------------------
(* The registry's side: a request obtains the session, drops it because    *)
(* its solver is gone, or retires it.                                      *)

(* jobs that no start request in flight may still need: a bound on starts  *)
JobLeft == Cardinality({r \in Requests : pc[r] \in {"check", "create"}})
             < Cardinality({j \in Jobs : At(j, "unborn")})

FirstPlace(kind) == CASE kind = "start" -> "check"
                      [] kind = "cancel" -> "mark"
                      [] OTHER -> "lock"

(* get_session succeeds; a client knows revisions and jobs of the past *)
Enter(r) ==
    /\ At(r, "idle") /\ registered /\ available
    /\ \E c \in [kind : {"apply"} \cap Serves, batch : Batches,
                 expected : 0..revision \cup {None}]
             \cup [kind : {"query"} \cap Serves, query : Queries]
             \cup [kind : {"start"} \cap Serves,
                   query : {q \in Queries : q.type \in JobTypes},
                   expected : 0..revision \cup {None}]
             \cup [kind : {"cancel"} \cap Serves,
                   job : {j \in Jobs : ~ At(j, "unborn")}] :
          /\ c.kind = "start" => JobLeft
          /\ call' = [call EXCEPT ![r] = c]
          /\ GoTo(r, FirstPlace(c.kind))
    /\ UNCHANGED <<lifeVars, available, selectionVars, baseline, solutionCount,
                   solver, jobVars, owner, op, outcome>>

(* get_session finds that the solver could not be restored: the session is *)
(* popped and the request answered 404; nothing is stopped                 *)
DropUnavailable(r) ==
    /\ At(r, "idle") /\ registered /\ ~ available
    /\ Serves \ {"stop"} # {}
    /\ registered' = FALSE
    /\ GoTo(r, "done")
    /\ Respond(r, Reply("notFound"))
    /\ UNCHANGED <<stopping, available, selectionVars, baseline, solutionCount,
                   solver, jobVars, owner, op, call>>

(* DELETE, expiry, cleanup or shutdown takes the session out of the registry *)
Retire(r) ==
    /\ At(r, "idle") /\ registered /\ "stop" \in Serves
    /\ registered' = FALSE
    /\ call' = [call EXCEPT ![r] = [kind |-> "stop"]]
    /\ GoTo(r, "stop")
    /\ UNCHANGED <<stopping, available, selectionVars, baseline, solutionCount,
                   solver, jobVars, owner, op, outcome>>

-----------------------------------------------------------------------------
(* SessionContext.stop() *)

MarkedCancelled(job) == [job EXCEPT !.status = "cancelled", !.cancel = TRUE]

StopMark(r) ==
    /\ At(r, "stop")
    /\ stopping' = TRUE
    /\ jobs' = [j \in Jobs |-> IF jobs[j].status \in ActiveStatuses
                               THEN MarkedCancelled(jobs[j]) ELSE jobs[j]]
    /\ GoTo(r, "stopKill")
    /\ UNCHANGED <<registered, available, selectionVars, baseline, solutionCount,
                   solver, table, owner, op, call, outcome>>

(* stop_fasb, without the operation lock *)
StopKill(r) ==
    /\ At(r, "stopKill")
    /\ solver' = None
    /\ GoTo(r, "stopWait")
    /\ UNCHANGED <<lifeVars, available, selectionVars, baseline, solutionCount,
                   jobVars, owner, op, call, outcome>>

(* the operation lock is taken and released; then the finished events *)
StopFinish(r) ==
    /\ At(r, "stopWait") /\ owner = None
    /\ available' = FALSE
    /\ jobs' = [j \in Jobs |->
                  [jobs[j] EXCEPT !.finished = @ \/ jobs[j].status = "cancelled"]]
    /\ GoTo(r, "done")
    /\ Respond(r, Reply("ok"))
    /\ UNCHANGED <<lifeVars, selectionVars, baseline, solutionCount, solver,
                   table, owner, op, call>>

-----------------------------------------------------------------------------
(* Jobs: creation, cancellation, and the thread that runs one. *)

(* the revision check of start_query_job, which holds no lock *)
StartCheck(r) ==
    /\ At(r, "check")
    /\ IF call[r].expected \in {None, revision}
       THEN GoTo(r, "create") /\ UNCHANGED outcome
       ELSE GoTo(r, "done") /\ Respond(r, Reply("conflict"))
    /\ UNCHANGED <<lifeVars, available, selectionVars, baseline, solutionCount,
                   solver, jobVars, owner, op, call>>

AnotherRuns == \E j \in Jobs : jobs[j].status = "running"
JobActive == \E j \in Jobs : jobs[j].status \in ActiveStatuses

(* _trim_jobs_locked: every job is terminal here, the oldest ones go *)
TrimmedTable == IF Len(table) < JobLimit THEN table
                ELSE SubSeq(table, Len(table) - JobLimit + 2, Len(table))

(* the jobs_lock block of start_query_job, and the start of the thread *)
StartCreate(r) ==
    /\ At(r, "create")
    /\ IF JobActive
       THEN /\ GoTo(r, "done")
            /\ Respond(r, Reply("conflict"))
            /\ UNCHANGED <<jobVars, call>>
       ELSE \E j \in Jobs :
              /\ At(j, "unborn")
              /\ jobs' = [jobs EXCEPT ![j] = [@ EXCEPT !.status = "queued",
                                                       !.revision = revision]]
              /\ table' = Append(TrimmedTable, j)
              /\ call' = [call EXCEPT ![j] = [kind |-> "query",
                                              query |-> call[r].query]]
              /\ pc' = [pc EXCEPT ![r] = "done", ![j] = "begin"]
              /\ Respond(r, Reply("accepted"))
    /\ UNCHANGED <<lifeVars, available, selectionVars, baseline, solutionCount,
                   solver, owner, op>>

InTable(j) == \E i \in DOMAIN table : table[i] = j

(* the jobs_lock block of cancel_query_job *)
CancelMark(r) ==
    /\ At(r, "mark")
    /\ LET j == call[r].job
       IN  \/ /\ ~ InTable(j)
              /\ GoTo(r, "done") /\ Respond(r, Reply("notFound"))
              /\ UNCHANGED jobs
           \/ /\ InTable(j) /\ jobs[j].status \in TerminalStatuses
              /\ GoTo(r, "done") /\ Respond(r, Reply("ok"))
              /\ UNCHANGED jobs
           \/ /\ InTable(j) /\ jobs[j].status = "queued"
              /\ jobs' = [jobs EXCEPT ![j] = [MarkedCancelled(@) EXCEPT !.finished = TRUE]]
              /\ GoTo(r, "done") /\ Respond(r, Reply("ok"))
           \/ /\ InTable(j) /\ jobs[j].status = "running"
              /\ jobs' = [jobs EXCEPT ![j].cancel = TRUE]
              /\ GoTo(r, "kill") /\ UNCHANGED outcome
    /\ UNCHANGED <<lifeVars, available, selectionVars, baseline, solutionCount,
                   solver, table, owner, op, call>>

(* stop_fasb, without any lock; the wait for the finished event that       *)
(* follows gives up after two seconds and changes nothing                  *)
CancelKill(r) ==
    /\ At(r, "kill")
    /\ solver' = None
    /\ GoTo(r, "done") /\ Respond(r, Reply("ok"))
    /\ UNCHANGED <<lifeVars, available, selectionVars, baseline, solutionCount,
                   jobVars, owner, op, call>>

(* the first jobs_lock block of _run_query_job *)
CancelledBeforeStart(j) == jobs[j].cancel

JobBegin(j) ==
    /\ At(j, "begin")
    /\ IF CancelledBeforeStart(j)
       THEN /\ jobs' = [jobs EXCEPT ![j] = [@ EXCEPT !.status = "cancelled",
                                                     !.finished = TRUE]]
            /\ GoTo(j, "done")
       ELSE /\ jobs' = [jobs EXCEPT ![j].status = "running"]
            /\ GoTo(j, "lock")
    /\ UNCHANGED <<lifeVars, available, selectionVars, baseline, solutionCount,
                   solver, table, owner, op, call, outcome>>

(* the status a finished query gives its job *)
RecordsResult(j) == IF outcome[j].status = "ok" THEN "succeeded" ELSE "failed"
FinalStatus(j) == IF jobs[j].cancel THEN "cancelled"
                  ELSE IF outcome[j].status = "ok" THEN "succeeded" ELSE "failed"

JobRecord(j) ==
    /\ Holds(j, "record")
    /\ jobs' = [jobs EXCEPT ![j].status = FinalStatus(j)]
    /\ GoTo(j, "settle")
    /\ UNCHANGED <<lifeVars, available, selectionVars, baseline, solutionCount,
                   solver, table, owner, op, call, outcome>>

(* the end of _run_query_job: the finished event and the lock's release *)
FinishesWithoutEvent(j) ==
    /\ UNCHANGED jobs
    /\ owner' = None /\ op' = NoOperation
    /\ GoTo(j, "done")

FinishJob(j) ==
    /\ jobs' = [jobs EXCEPT ![j].finished = TRUE]
    /\ owner' = None /\ op' = NoOperation
    /\ GoTo(j, "done")

(* a cancelled job restores the FASB that the cancellation has killed,     *)
(* unless the session is being stopped                                     *)
JobSettle(j) ==
    /\ Holds(j, "settle")
    /\ IF jobs[j].cancel /\ ~ stopping
       THEN /\ op' = [NoOperation EXCEPT !.stage = "recover", !.target = applied]
            /\ GoTo(j, "restart")
            /\ UNCHANGED <<jobs, owner>>
       ELSE FinishJob(j)
    /\ UNCHANGED <<lifeVars, available, selectionVars, baseline, solutionCount,
                   solver, table, call, outcome>>

-----------------------------------------------------------------------------
(* Operations under the operation lock. *)

IsQuery(t) == call[t] # None /\ call[t].kind = "query"
IsApply(t) == call[t] # None /\ call[t].kind = "apply"

(* a request answers and releases the lock; a job records first *)
KeepsLock(t, reply) ==
    /\ Respond(t, reply)
    /\ op' = NoOperation
    /\ IF t \in Jobs THEN GoTo(t, "record") ELSE GoTo(t, "done")
    /\ UNCHANGED owner

Conclude(t, reply) ==
    /\ Respond(t, reply)
    /\ op' = NoOperation
    /\ IF t \in Jobs
       THEN GoTo(t, "record") /\ UNCHANGED owner
       ELSE GoTo(t, "done") /\ owner' = None

(* restart_FASB is called next, to load the selections "target" *)
StartRoute(t, stage, target, reply) ==
    /\ op' = [op EXCEPT !.stage = stage, !.target = target, !.reply = reply]
    /\ GoTo(t, "restart")

(* _restore_solver_process: reload sel, then end with reply *)
RestoresNothing(t, sel, reply) == StartRoute(t, "restore", NoSelections, reply)
Restore(t, sel, reply) == StartRoute(t, "restore", sel, reply)

Restart(t) ==
    /\ Holds(t, "restart")
    /\ solver' = NoSelections
    /\ GoTo(t, "load")
    /\ UNCHANGED <<lifeVars, available, selectionVars, baseline, solutionCount,
                   jobVars, owner, op, call, outcome>>

(* the new FASB is ready and takes every selection of the route *)
Load(t) ==
    /\ Holds(t, "load") /\ op.stage \notin {"restore", "recover"}
    /\ solver # None
    /\ solver' = op.target
    /\ GoTo(t, "ask")
    /\ UNCHANGED <<lifeVars, available, selectionVars, baseline, solutionCount,
                   jobVars, owner, op, call, outcome>>

Restored(t) ==
    /\ InStage(t, "load", {"restore"})
    /\ solver # None
    /\ solver' = op.target
    /\ available' = TRUE
    /\ Conclude(t, op.reply)
    /\ UNCHANGED <<lifeVars, selectionVars, baseline, solutionCount, jobVars, call>>

Recovered(j) ==
    /\ InStage(j, "load", {"recover"})
    /\ solver # None
    /\ solver' = op.target
    /\ available' = TRUE
    /\ FinishJob(j)
    /\ UNCHANGED <<lifeVars, selectionVars, baseline, solutionCount, table,
                   call, outcome>>

-----------------------------------------------------------------------------
(* apply_selections *)

RevisionAccepted(expected) == expected \in {None, revision}

(* every facet is part of the session, and selectable where it is listed *)
FacetsAccepted(batch) ==
    \A i \in DOMAIN batch :
        /\ batch[i].facet \in known
        /\ batch[i].facet \in facets.visible => batch[i].facet \in facets.selectable

Refusal(c) == CASE ~ RevisionAccepted(c.expected) -> "conflict"
                [] ~ FacetsAccepted(c.batch) -> "invalid"
                [] ~ PreviousStatesHold(applied, c.batch) -> "conflict"
                [] OTHER -> "none"

ApplyRefused(r) ==
    /\ At(r, "lock") /\ IsApply(r) /\ owner = None
    /\ Refusal(call[r]) # "none"
    /\ Respond(r, Reply(Refusal(call[r])))
    /\ GoTo(r, "done")
    /\ UNCHANGED <<lifeVars, available, selectionVars, baseline, solutionCount,
                   solver, jobVars, owner, op, call>>

ApplyBegin(r) ==
    /\ At(r, "lock") /\ IsApply(r) /\ owner = None
    /\ Refusal(call[r]) = "none"
    /\ owner' = r
    /\ op' = [NoOperation EXCEPT
                !.stage = "apply", !.before = applied,
                !.target = UpdatedSelections(applied, call[r].batch)]
    /\ GoTo(r, "restart")
    /\ UNCHANGED <<lifeVars, available, selectionVars, baseline, solutionCount,
                   solver, jobVars, call, outcome>>

(* _rebuild_with_selections needs no answer when nothing is selected *)
AlwaysKeepsBaseline(target) == TRUE
KeepsBaseline(target) == target = NoSelections

(* the rebuilt FASB shows the plan p; applied_selections is assigned *)
Adopt(displayed) ==
    /\ applied' = op.target
    /\ op' = [op EXCEPT !.stage = "facets", !.draft = displayed]
    /\ UNCHANGED <<lifeVars, available, revision, solution, cached, facets, known,
                   baseline, solutionCount, solver, jobVars, owner, pc, call,
                   outcome>>

ApplySolve(r) ==
    /\ InStage(r, "ask", {"apply"})
    /\ ~ KeepsBaseline(op.target)
    /\ solver # None
    /\ \E p \in Models(solver) : Displayable(p) /\ Adopt(Displayed(p))

ApplyKeepBaseline(r) ==
    /\ InStage(r, "ask", {"apply"})
    /\ KeepsBaseline(op.target)
    /\ Adopt(baseline)

(* the rollback of apply_selections, and the restoration of the solver *)
KeepsTarget(r, reply) ==
    /\ Restore(r, applied, reply)
    /\ UNCHANGED applied

Rollback(r, reply) ==
    /\ applied' = op.before
    /\ Restore(r, op.before, reply)

(* the first plan has no action, or there is none *)
ApplyFindsNoPlan(r) ==
    /\ InStage(r, "ask", {"apply"})
    /\ ~ KeepsBaseline(op.target)
    /\ solver # None
    /\ Models(solver) = {} \/ \E p \in Models(solver) : ~ Displayable(p)
    /\ Rollback(r, Reply("noPlan"))
    /\ UNCHANGED <<lifeVars, available, revision, solution, cached, facets, known,
                   baseline, solutionCount, solver, jobVars, owner, call, outcome>>

KeptCount == solutionCount
CountAfterCommit == None
CacheAfterCommit == {}

(* FASB lists the facets; the new state of the session is published *)
ApplyCommit(r) ==
    /\ InStage(r, "ask", {"facets"})
    /\ solver # None
    /\ facets' = ComposedFacets(solver, applied, op.draft, known)
    /\ known' = known \cup facets'.visible
    /\ solution' = op.draft
    /\ solutionCount' = CountAfterCommit
    /\ cached' = CacheAfterCommit
    /\ revision' = revision + 1
    /\ Conclude(r, Reply("ok"))
    /\ UNCHANGED <<lifeVars, available, applied, baseline, solver, jobVars, call>>

-----------------------------------------------------------------------------
(* query and list_facets, for a request or a job *)

QueryBegin(t) ==
    /\ At(t, "lock") /\ IsQuery(t) /\ owner = None
    /\ owner' = t
    /\ op' = [NoOperation EXCEPT !.stage = "answer"]
    /\ GoTo(t, "ask")
    /\ UNCHANGED <<lifeVars, available, selectionVars, baseline, solutionCount,
                   solver, jobVars, call, outcome>>

Query(t) == call[t].query
Answers(t, type) == InStage(t, "ask", {"answer"}) /\ Query(t).type = type

(* the number of solutions to show, cut at the count when that is known *)
Requested(q) ==
    IF solutionCount # None /\ solutionCount < q.number THEN solutionCount
    ELSE q.number

(* answers that need no FASB: the stored count, cached solutions, and the  *)
(* refusal to preview a facet that cannot be selected                      *)
InMemory(q) ==
    \/ q.type = "solutionCount" /\ solutionCount # None
    \/ q.type = "solution" /\ Requested(q) <= Cardinality(cached)
    \/ q.type = "selectionImpact" /\ q.facet \notin facets.selectable

AnswerFromMemory(t) ==
    /\ InStage(t, "ask", {"answer"})
    /\ InMemory(Query(t))
    /\ \/ /\ Query(t).type = "solutionCount"
          /\ Conclude(t, [Reply("ok") EXCEPT !.total = solutionCount])
       \/ /\ Query(t).type = "solution"
          /\ \E shown \in SUBSET cached :
                /\ Cardinality(shown) = Requested(Query(t))
                /\ Conclude(t, [Reply("ok") EXCEPT !.plans = shown])
       \/ /\ Query(t).type = "selectionImpact"
          /\ Conclude(t, Reply("invalid"))
    /\ UNCHANGED <<lifeVars, available, selectionVars, baseline, solutionCount,
                   solver, jobVars, call>>

(* facetCount, facetReduction, impliedFacets, solutionReduction, and "!" *)
AnswerProbe(t) ==
    /\ Answers(t, "probe")
    /\ solver # None
    /\ Conclude(t, Reply("ok"))
    /\ UNCHANGED <<lifeVars, available, selectionVars, baseline, solutionCount,
                   solver, jobVars, call>>

AnswerFacets(t) ==
    /\ Answers(t, "facets")
    /\ solver # None
    /\ facets' = ComposedFacets(solver, applied, solution, known)
    /\ known' = known \cup facets'.visible
    /\ Conclude(t, Reply("ok"))
    /\ UNCHANGED <<lifeVars, available, applied, revision, solution, cached,
                   baseline, solutionCount, solver, jobVars, call>>

(* a count of zero contradicts a displayed plan *)
AnswerCount(t) ==
    /\ Answers(t, "solutionCount") /\ ~ InMemory(Query(t))
    /\ solver # None
    /\ LET count == CountModels(solver)
       IN  IF count = 0 /\ solution # {}
           THEN Conclude(t, Reply("noPlan")) /\ UNCHANGED solutionCount
           ELSE /\ solutionCount' = count
                /\ Conclude(t, [Reply("ok") EXCEPT !.total = count])
    /\ UNCHANGED <<lifeVars, available, selectionVars, baseline, solver, jobVars,
                   call>>

(* fewer solutions than asked for give away the count *)
CountsAlways(shown, asked) == Cardinality(shown)
CountAfterSolutions(shown, asked) ==
    IF Cardinality(shown) < asked /\ shown # {} THEN Cardinality(shown)
    ELSE solutionCount

AnswerSolutions(t) ==
    /\ Answers(t, "solution") /\ ~ InMemory(Query(t))
    /\ solver # None
    /\ LET asked == Requested(Query(t))
       IN  \E shown \in SUBSET Models(solver) :
             /\ IF CountModels(solver) < asked THEN shown = Models(solver)
                ELSE Cardinality(shown) = asked
             /\ solutionCount' = CountAfterSolutions(shown, asked)
             /\ cached' = shown
             /\ Conclude(t, [Reply("ok") EXCEPT !.plans = shown])
    /\ UNCHANGED <<lifeVars, available, applied, revision, solution, facets, known,
                   baseline, solver, jobVars, call>>

-----------------------------------------------------------------------------
(* _selection_impact: count both routes, or else look for a plan in each *)

ImpactBegin(t) ==
    /\ Answers(t, "selectionImpact") /\ ~ InMemory(Query(t))
    /\ StartRoute(t, "require", RequireRoute(applied, Query(t).facet), Reply("ok"))
    /\ UNCHANGED <<lifeVars, available, selectionVars, baseline, solutionCount,
                   solver, jobVars, owner, call, outcome>>

ImpactRequired(t) ==
    /\ InStage(t, "ask", {"require"})
    /\ solver # None
    /\ StartRoute(t, "forbid", ForbidRoute(applied, Query(t).facet),
                  [Reply("ok") EXCEPT !.require = CountModels(solver)])
    /\ UNCHANGED <<lifeVars, available, selectionVars, baseline, solutionCount,
                   solver, jobVars, owner, call, outcome>>

(* total, and solution_count when the routes partition the plan space *)
ImpactForbidden(t) ==
    /\ InStage(t, "ask", {"forbid"})
    /\ solver # None
    /\ LET forbid == CountModels(solver)
           sum    == op.reply.require + forbid
           total  == IF Comparable(applied, Query(t).facet) THEN sum ELSE None
       IN  /\ solutionCount' = IF total # None /\ sum > 0 THEN total
                               ELSE solutionCount
           /\ Restore(t, applied,
                      [op.reply EXCEPT !.forbid = forbid, !.total = total])
    /\ UNCHANGED <<lifeVars, available, selectionVars, baseline, solver, jobVars,
                   owner, call, outcome>>

ImpactTried(t) ==
    /\ InStage(t, "ask", {"tryRequire", "tryForbid"})
    /\ solver # None
    /\ IF op.stage = "tryRequire"
       THEN StartRoute(t, "tryForbid", ForbidRoute(applied, Query(t).facet), op.reply)
       ELSE Restore(t, applied,
                    [op.reply EXCEPT !.total =
                       IF Comparable(applied, Query(t).facet) THEN solutionCount
                       ELSE None])
    /\ UNCHANGED <<lifeVars, available, selectionVars, baseline, solutionCount,
                   solver, jobVars, owner, call, outcome>>

-----------------------------------------------------------------------------
(* A service call that fails.  Without a FASB to talk to, because another  *)
(* thread has stopped it, a command always ends in an error, and the wait  *)
(* for a new FASB to become ready may end in PlanpilotCapacityError too.   *)

CallsService(t) ==
    \/ Holds(t, "restart")
    \/ Holds(t, "load")
    \/ InStage(t, "ask", {"apply"}) /\ ~ KeepsBaseline(op.target)
    \/ InStage(t, "ask", {"answer"}) /\ ~ InMemory(Query(t))
                                     /\ Query(t).type # "selectionImpact"
    \/ InStage(t, "ask", {"facets", "require", "forbid", "tryRequire", "tryForbid"})

Interrupted(t) == solver = None /\ ~ At(t, "restart")

Interruptions(t) == IF ~ Interrupted(t) THEN {}
                    ELSE {"error"} \cup (IF At(t, "load") THEN {"capacity"} ELSE {})

(* the call ends in the error "why", with FASB killed or left as it is *)
Fails(t, why) ==
    /\ CallsService(t)
    /\ why \in Faults \cup Interruptions(t)
    /\ solver' \in {None, solver}

FailApply(r, why) ==
    /\ Fails(r, why) /\ op.stage \in {"apply", "facets"}
    /\ Rollback(r, Reply(why))
    /\ UNCHANGED <<lifeVars, available, revision, solution, cached, facets, known,
                   baseline, solutionCount, jobVars, owner, call, outcome>>

(* a plain query restores FASB after a capacity error only *)
FailAnswer(t, why) ==
    /\ Fails(t, why) /\ op.stage = "answer"
    /\ IF why = "capacity"
       THEN Restore(t, applied, Reply(why)) /\ UNCHANGED <<owner, outcome>>
       ELSE Conclude(t, Reply(why))
    /\ UNCHANGED <<lifeVars, available, selectionVars, baseline, solutionCount,
                   jobVars, call>>

(* a count that takes too long falls back to looking for a plan *)
FailImpact(t, why) ==
    /\ Fails(t, why)
    /\ \/ /\ op.stage \in {"require", "forbid"} /\ why = "capacity"
          /\ StartRoute(t, "tryRequire", RequireRoute(applied, Query(t).facet),
                        Reply("ok"))
       \/ /\ op.stage \in {"require", "forbid"} /\ why = "error"
          /\ Restore(t, applied, Reply(why))
       \/ /\ op.stage \in {"tryRequire", "tryForbid"}
          /\ Restore(t, applied, Reply(why))
    /\ UNCHANGED <<lifeVars, available, selectionVars, baseline, solutionCount,
                   jobVars, owner, call, outcome>>

PreviewsImpact(t) == IsQuery(t) /\ Query(t).type = "selectionImpact"

(* the solver cannot be restored: the session becomes unavailable *)
FailRestore(t, why) ==
    /\ Fails(t, why) /\ op.stage \in {"restore", "recover"}
    /\ solver' = None
    /\ available' = FALSE
    /\ IF op.stage = "recover"
       THEN FinishJob(t) /\ UNCHANGED outcome
       ELSE /\ Conclude(t, IF PreviewsImpact(t) THEN Reply("capacity") ELSE op.reply)
            /\ UNCHANGED jobs
    /\ UNCHANGED <<lifeVars, selectionVars, baseline, solutionCount, table, call>>

CallFails(t) ==
    \E why \in {"capacity", "error"} :
        FailApply(t, why) \/ FailAnswer(t, why) \/ FailImpact(t, why)
          \/ FailRestore(t, why)

-----------------------------------------------------------------------------
Arrive(r) == Enter(r) \/ DropUnavailable(r) \/ Retire(r)

Operate(t) ==
    \/ QueryBegin(t) \/ Restart(t) \/ Load(t) \/ Restored(t)
    \/ AnswerFromMemory(t) \/ AnswerProbe(t) \/ AnswerFacets(t) \/ AnswerCount(t)
    \/ AnswerSolutions(t)
    \/ ImpactBegin(t) \/ ImpactRequired(t) \/ ImpactForbidden(t) \/ ImpactTried(t)
    \/ CallFails(t)

RequestStep(r) ==
    \/ StopMark(r) \/ StopKill(r) \/ StopFinish(r)
    \/ StartCheck(r) \/ StartCreate(r) \/ CancelMark(r) \/ CancelKill(r)
    \/ ApplyRefused(r) \/ ApplyBegin(r) \/ ApplySolve(r) \/ ApplyKeepBaseline(r)
    \/ ApplyFindsNoPlan(r) \/ ApplyCommit(r)
    \/ Operate(r)

JobStep(j) == JobBegin(j) \/ JobRecord(j) \/ JobSettle(j) \/ Recovered(j) \/ Operate(j)

Next == \/ \E r \in Requests : Arrive(r) \/ RequestStep(r)
        \/ \E j \in Jobs : JobStep(j)

Spec == Init /\ [][Next]_vars

(* Every thread the operating system runs goes on, every wait for FASB has *)
(* a timeout, and a thread that waits for a free lock gets it in the end.  *)
Fairness == /\ \A r \in Requests : WF_vars(RequestStep(r))
            /\ \A j \in Jobs : WF_vars(JobStep(j))

FairSpec == Spec /\ Fairness

-----------------------------------------------------------------------------
(* Safety. *)

(* The selections that clients have been told of: apply_selections assigns *)
(* applied_selections before the facets are read and may still take it back *)
Selected == IF op.stage = "facets" THEN op.before ELSE applied

(* Whenever operation_lock is free and FASB runs, it has exactly the       *)
(* applied selections loaded: every path through previews, rollbacks,      *)
(* timeouts and interruptions leads back to them.                          *)
SolverInSync == owner = None /\ solver # None => solver = applied

(* The displayed solution is a plan of the selected plan space. *)
SolutionFits == \E p \in Models(Selected) : solution = Displayed(p)

(* The stored solution count is the number of plans under the current      *)
(* selections, whichever of the three paths has stored it.                 *)
CountExact == solutionCount \in {None, CountModels(Selected)}

(* The listed facets are those of the current selections and the displayed *)
(* solution, and every explicit selection is among them and can be undone. *)
ViewFits == facets = View(Selected, solution)

(* At most one job of a session is queued or running (API.md:81), and      *)
(* trimming the table to the history limit never drops it, so that it can  *)
(* always be found and cancelled.                                          *)
OneActiveJob ==
    LET active == {j \in Jobs : jobs[j].status \in ActiveStatuses}
    IN /\ Cardinality(active) <= 1
       /\ Len(table) <= JobLimit
       /\ \A j \in active : InTable(j)

(* A job that has ended keeps its status, although stop, cancellation and  *)
(* the job's own thread all write it, and a job whose cancellation was     *)
(* accepted never succeeds.                                                *)
TerminalIsFinal ==
    [][\A j \in Jobs :
         /\ jobs[j].status \in TerminalStatuses => jobs'[j].status = jobs[j].status
         /\ jobs[j].cancel => jobs'[j].status # "succeeded"]_vars

(* What an answer says is true of the selections it is given for. *)
Truthful(q, reply) ==
    /\ q.type = "solutionCount" => reply.total = CountModels(applied)
    /\ q.type = "solution" =>
         /\ reply.plans \subseteq Models(applied)
         /\ Cardinality(reply.plans) =
              IF CountModels(applied) < q.number THEN CountModels(applied)
              ELSE q.number
    /\ q.type = "selectionImpact" =>
         /\ reply.total \in {None, CountModels(applied)}
         /\ reply.require \in {None, CountModels(RequireRoute(applied, q.facet))}
         /\ reply.forbid \in {None, CountModels(ForbidRoute(applied, q.facet))}

(* Every successful answer, from FASB, from memory or from a preview, is   *)
(* exact for the selections at that moment.                                *)
AnswersTruthful ==
    [][\A t \in Threads :
         outcome'[t] # outcome[t] /\ IsQuery(t) /\ outcome'[t].status = "ok"
           => Truthful(Query(t), outcome'[t])]_vars

Store == INSTANCE SelectionStore WITH selections <- Selected

(* Clients see selections and revision change as SelectionStore says: one  *)
(* batch at a time, as a whole, one revision each.                         *)
ImplementsStore == Store!Spec

-----------------------------------------------------------------------------
(* Liveness. *)

(* Every request that obtained the session is answered. *)
RequestsEnd == \A r \in Requests : ~ At(r, "idle") ~> At(r, "done")

(* Every job ends with a final status and its finished event set, whether  *)
(* it runs, is cancelled, or its session is stopped.                       *)
JobsEnd == \A j \in Jobs :
    At(j, "begin") ~> jobs[j].finished /\ jobs[j].status \in TerminalStatuses

-----------------------------------------------------------------------------
(* Claims of the documentation and the tests that the code does not meet. *)

Quiet == \A t \in Threads : pc[t] \in {"idle", "unborn", "done"}

(* A session that is stopped, expired or dropped leaves no FASB behind     *)
(* (test_session_lifecycle.py:147, README.md:3-5).                         *)
NoSolverLeft == Quiet /\ ~ registered => solver = None

(* A session keeps its solver until it is stopped or expires, as long as   *)
(* no service call fails of itself (README.md:3-5).                        *)
SolverKept == Quiet /\ registered => solver # None

(* A job's result belongs to the revision it is reported with (API.md:64). *)
JobAnswersItsRevision ==
    \A j \in Jobs : Holds(j, "record") /\ outcome[j].status = "ok"
                      => jobs[j].revision = revision
=============================================================================
