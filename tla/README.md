# Verification of the PlanPilot service

TLA+ models of the PlanPilot service (`src/app`) and of the search component of
Fast Downward it runs (`src/lib/downward/src/search`), the TLC runs that check
them on small instances, and TLAPS proofs of what matters most about the service
for instances of any size. References of the form `session_registry.py:269` are
relative to `src/app/service/`, those with the ending `.cc` to
`src/lib/downward/src/search/`, unless a directory is given.

## 1. The system

The service keeps *sessions*. A session is a planning task translated to a logic
program, one FASB process that answers questions about the program's answer sets
(the plans within a horizon), and the facets the client has selected so far. A
facet is an atom that some plans have and others lack; selecting one positively
or negatively restricts the plan space. Selecting, previewing and recovering all
work the same way: kill FASB, start it again, send one command per selection. The
horizon of a session is the length of a plan that Fast Downward finds.

### Components

| Component | Source | State | Operations |
| --- | --- | --- | --- |
| Selections | `_updated_selections`, `_compose_facets`, `_selection_impact` (`session_registry.py:283-406, 628-658`), `validate_apply_facets_payload` (`rest/sessions.py:492`) | `applied_selections`, `facet_timesteps`, `facet_catalog`, `facets` | apply a batch of choices, list facets, derive the two previewed routes |
| Session | `SessionContext` (`session_registry.py:143-969`) | selections, revision, solution, count, solution cache, facets, `solver_available`, jobs, two locks, two events per job, the `stopping` event | `apply_selections`, `list_facets`, `query`, `start_query_job`, `cancel_query_job`, `_run_query_job`, `stop`, `_restore_solver_process` |
| Solution cache | `session_registry.py:508-626` | the `OrderedDict` of solutions, `solution_count` | answer from the cache, from FASB or from a known count; evict |
| SessionRegistry | `session_registry.py:972-1178` | the dict of sessions, creation slots, counter of active creations, the shutdown event | create, get, stop, expire, clean up, shut down |
| FASB service | `planpilot_service.py:60-363, 490-540` | process handle, reader threads, output buffers | start, restart, send a command, stop |
| Logic-program cache | `planpilot_service.py:365-488` | one `.lp` file per task and mode, one lock per path | generate and publish |
| Task cache | `fastdownward_service.py` | a database row and a directory per task hash, one lock per hash | run Fast Downward once per task, reuse, rebuild |
| Fast Downward, search component | `src/lib/downward/src/search` | state registry, search nodes, open list; tables of heuristics | the searches; heuristics, abstractions, landmarks, pruning |
| REST layer | `rest/sessions.py`, `rest/auth.py` | none | validate payloads, call the registry, map errors to status codes |
| Contract and parsing | `service/session_contract.py`, `utils/parsing.py` | none | FASB's text to facets, counts and solutions and back |
| Set-up, encodings, translator, plasp | `app/__init__.py`, `run.py`, `lib/` | none of the service's own | configuration; answer set programs; programs run as processes |

### How they interact

A Flask thread serves each request. It looks the session up under the registry
lock and then works on it under the session's `operation_lock`, which one thread
holds from the first FASB command of an operation to the last. A job has a thread
of its own that takes the same lock. Three things happen outside that lock:

* `stop()` and `cancel_query_job()` call `stop_fasb()` on purpose, to interrupt the
  thread that holds it;
* `start_query_job()` reads `selection_revision` and creates the job under
  `jobs_lock` only;
* `to_response()` of `GET /sessions/{id}` reads the session with no lock at all.

`stop()` is called by DELETE, and by expiry and cleanup from inside the registry
lock. The registry drops a session whose solver could not be restored.

A creation runs Fast Downward under the lock of its task, unless a row of the
database vouches for the files an earlier one has left, then plasp under the lock
of its program, then starts FASB. It holds nothing between the two. The service
calls Fast Downward with `astar(lmcut())` only (`fastdownward_service.py:115-116`);
the rest of the search component is part of this repository and is modelled as
the library it is.

### What is hard about it

* An operation is a long sequence of service calls, each of which may time out, be
  interrupted, or fail, with FASB killed or alive. Whatever happens, the session
  must afterwards be one that the client was told of, and FASB must hold exactly
  its selections.
* `solution_count`, the solution cache and the facet list are caches of FASB's
  answers. Three paths store a count, one of them by adding up two previews.
* A job's status is written by three threads (its own, a canceller, whoever stops
  the session) and FASB is killed under a thread that does not expect it.
* FASB prints no prompt: the end of a response is found by counting lines that hold
  a number, while another thread may clear the process handle.
* A batch is applied by a loop that edits the dict it walks over.
* Everything waits for `operation_lock`: it must always come free.
* Files, a database row and processes that outlive their parents survive what
  creates them; each step between them may be the last.
* A search reopens states, replaces parents, evaluates a state more than once and
  may be stopped after any step; an abstraction is refined, merged or shrunk in
  place while its tables of transitions and distances must stay those of its states.

`PROJECT.json` lists each hazard at its line, with the properties that cover it.

### What makes each component correct

| Component | Properties |
| --- | --- |
| Selections | a batch has the effect its closed form says; never two positive actions at one timestep; comparable previews partition the plan space |
| Session | FASB in sync with the selections; solution, count and facet list true of them; answers exact; batches atomic; stale clients refused; one active job; final statuses; every request and job ends; no FASB outlives its session |
| Solution cache | answers as the numbered list of plans does; what was asked for last stays |
| SessionRegistry | never more sessions than allowed; slots returned on every path; a session stopped by one thread only; none forgotten with its FASB running; every request ends; expired sessions go |
| FASB service | a response belongs to its command; an acknowledged selection is loaded; no handle is lost; every call returns |
| Logic-program cache | readers see a whole program or none |
| Task cache | a row points at whole artifacts; horizons are those of the request; the cache repairs itself; creations end |
| Fast Downward | plans are plans; A* is optimal; estimates admissible, consistent and ordered; pruning spares a cheapest plan; landmarks are landmarks on every path; searches end |

## 2. The modules

| Module | What it is |
| --- | --- |
| `Selections` | the algebra: selections, batches, plans, FASB's answers about them |
| `SelectionLoop` | the loop of `_updated_selections`, one pass per step, against the closed form |
| `SelectionStore` | what a session promises about selections: atomic batches, one revision each |
| `Session` | one `SessionContext` and the threads around it; `ImplementsStore` maps it to `SelectionStore` |
| `SessionReads` | clients that read the session with and without the lock, and what they may then change |
| `PlanList` | what a session promises about solution queries: a numbered list of plans |
| `SolutionCache` | the ordered cache and the count; implements `PlanList` |
| `SessionRegistry` | the registry of all sessions, each seen from outside |
| `FasbService` | `PlanpilotService`: handle, pipes, reader threads, framing of responses |
| `TaskCache` | the preparation of a task: Fast Downward's artifacts, the row, the logic programs |
| `MCSessionParts`, `MCSession`, `MCSessionRegistry` | constants for TLC; the first runs `SelectionLoop`, `SessionReads` and `SolutionCache` side by side |
| `SelectionLemmas`, `SessionPartsProofs`, `SessionProofs`, `SessionRegistryProofs`, `FasbServiceProofs`, `TaskCacheProofs` | the theorems about them (`SessionPartsProofs`: about the parts that `MCSessionParts` runs) |
| `PlanningTask`, `TaskTransformations` | tasks as the search component reads them, axioms, state transitions, the successor generator, the causal graph and variable orders; derived tasks |
| `SearchAlgorithm`, `EagerSearch`, `LazySearch`, `IteratedSearch`, `OpenLists` | the searches and their open lists |
| `SearchSpace`, `SearchSpaceProofs` | what every search, and A*, does to the nodes of the search space; every search implements it; theorems about it |
| `Relaxation`, `LandmarkCut`, `CausalGraphHeuristics` | estimates computed from the state: blind, goal count, h^m, delete relaxation, LM-cut, causal graphs |
| `LandmarkCuts`, `LandmarkCutsProofs` | what the rounds of LM-cut do, whatever the order of its queues; LM-cut implements it; theorems about it, and about A* guided by it |
| `PatternDatabases`, `PatternGenerators` | pattern databases and their generators |
| `TransitionSystems`, `Shrinking`, `MergeAndShrink`, `CartesianAbstractions` | the other abstractions |
| `Landmarks`, `LandmarkHeuristics`, `StubbornSets`, `GraphAlgorithms` | landmark graphs and their status; pruning; shared algorithms |
| `Downward`, `DownwardTables`, `MCDownward` | the searches and walks over the state space composed with all of them; small tasks |

### Selections

`Facets`, `StateFacets` (identifiers that start with `holds(`), `AbstractFacets`
and `StepOf` are the static facts of a task; `Plans` is the set of answer sets, a
plan being the set of facets true in it. FASB is external. It is modelled from the
commands the code sends: `Models(sel)` are the plans that satisfy the selections
sent so far, `CountModels` answers `#!`, `Open` answers `?`, `ImpliedAbstract` is
what the session keeps of `|= %`.

`Updated` is one pass of the loop in `_updated_selections`; `UpdatedSelections` is
the whole loop in closed form. `DistinctFacets` is what
`validate_apply_facets_payload` guarantees and is an assumption on `Batches`.
`ComposedFacets` is `_compose_facets`: the open and implied facets, the displayed
solution, and the selections the catalog knows. `Comparable` is the condition
under which `_selection_impact` adds its two counts.

`_is_action_facet_id` treats every identifier that does not start with `holds(`
as an action, abstract facets included; those have no timestep (`NoStep`) and so
compete with nothing.

### Session

Variables stand for the attributes of the same name; `solver` is the set of
selections the running FASB has been sent, or `None` when no process runs. `known`
is the common key set of `facet_timesteps` and `facet_catalog`, `facets` keeps of
each listed facet whether it is selectable. `op` holds the local variables of the
thread under `operation_lock` (`target` is the dict being loaded, `before` is
`previous_selections`, `draft` the new solution, `reply` the answer once decided).
`pc` says where each thread is:

    request   idle -> lock -> restart -> load -> ask -> done      apply, query
              idle -> check -> create -> done                     start a job
              idle -> mark -> kill -> done                        cancel a job
              idle -> stop -> stopKill -> stopWait -> done        stop()
    job       unborn -> begin -> lock -> ... -> record -> settle -> done

One request is served by one thread once; more clients are more requests.

| Actions | Code |
| --- | --- |
| `Enter`, `DropUnavailable`, `Retire` | `get_session`, `stop_session`, expiry, cleanup, `shutdown`, for one session |
| `StopMark`, `StopKill`, `StopFinish` | `SessionContext.stop` |
| `StartCheck`, `StartCreate` | `start_query_job`: the unlocked revision check, then the `jobs_lock` block with `_trim_jobs_locked` |
| `CancelMark`, `CancelKill` | `cancel_query_job`: the `jobs_lock` block, then `stop_fasb` |
| `JobBegin`, `JobRecord`, `JobSettle`, `Recovered` | `_run_query_job` around its query |
| `ApplyRefused`, `ApplyBegin`, `ApplySolve`, `ApplyKeepBaseline`, `ApplyFindsNoPlan`, `ApplyCommit` | `apply_selections` and `_rebuild_with_selections` |
| `QueryBegin`, `AnswerFromMemory`, `AnswerProbe`, `AnswerFacets`, `AnswerCount`, `AnswerSolutions` | `query`, `list_facets` |
| `ImpactBegin`, `ImpactRequired`, `ImpactForbidden`, `ImpactTried` | `_selection_impact`, `_count_route`, `_route_has_plan` |
| `Restart`, `Load`, `Restored` | `restart_FASB`, the loops that send the selections, `_restore_solver_process` |
| `FailApply`, `FailAnswer`, `FailImpact`, `FailRestore` | the `except` branches, by kind of error |

Decisions worth knowing:

* **A call to the FASB service is one step with a nondeterministic outcome.** It
  answers, or fails with `PlanpilotCapacityError` ("capacity") or with another
  exception ("error"), and FASB is dead or alive afterwards. The combination
  "capacity, FASB alive" happens when a preview's deadline has passed before the
  next command. A command without a process fails with "error"; a process stopped
  before it was ready is waited for and ends in "capacity"
  (`planpilot_service.py:352`).
* **`Faults` chooses which failures may happen of themselves.** With `Faults = {}`
  the only failures left are those another thread causes.
* The loop that sends the selections of a route is one step (`Load`). A failure
  inside it leaves a partly loaded FASB that nobody can ask: every path from there
  restarts FASB or stops it, before `operation_lock` is released.
* `stop()` sets `stopping` and marks the jobs in one step; `_run_query_job` reads
  `cancel_event` and `stopping` in one step.
* `cancel_query_job` waits at most two seconds for the finished event and ignores
  the outcome, so the wait is no step of its own.
* Jobs are trimmed in order of creation. The code sorts by completion; with one
  active job at a time the orders differ only for a job that a stop has marked and
  whose own thread writes its completion time once more.
* The solution cache is the set of the cached plans, and every `solution` query is
  of the prefix kind. Numbering, single mode and eviction are in `SolutionCache`.
* A plan with several actions at a timestep, or outside the horizon, which
  `_validate_representative_solution` rejects as a defect of the encoding, is not
  in `Plans`. A plan without any action is, and cannot be displayed.

### SessionReads

`apply_selections` assigns the new solution, the count and the revision one after the
other (`session_registry.py:259-263`), and `GET /sessions/{id}` reads them one after
the other without a lock. The module has one action per assignment and per read, and
keeps of a plan space only its number: `solution` and `solutionCount` are numbers of
plan spaces. `seen` is the response each client has seen last. `Compare` is the check of
`expectedSelectionRevision`. `Clients` that are not `Getters` read under the lock only.

### SolutionCache

`cache` is the `OrderedDict` as a sequence, least recently used first; `pending` holds
the solutions of an answer that the loop at `session_registry.py:548` (or 578) has not
yet put into the cache or moved to its end, one per step (`Remember`). `QuerySingle` and
`QueryPage` take one of the branches `FromCache`, `PastTheCount` and `FromFasb` of
`query("solution")`; a page is what `_run_query_job` slices out of a prefix.
`QueryCount`, `LearnCount` (two comparable previews) and `Apply` are the others that
touch the count or the cache. `PlanList` is the abstract specification: plans are
numbered, a query gets the plans with its numbers.

### SessionRegistry

Variables: `sessions` (the keys of `_sessions`), `slots` (`_creation_slots`),
`creations` (`_active_creations`), `exiting` (`_shutdown_event`). The registry lock is
a variable only where it is held across a wait: `lock` is the thread that stops
sessions inside the lock's block (cleanup, expiry at a lookup), `doomed` its
`expired_ids`, `goal` the method it will go on with. Every other block of the lock is
one step that needs `lock = None`. Of a session the module keeps what the registry
can tell: whether FASB runs (`solver`), `solver_available` (`available`), whether
`expires_at` has passed (`expired`), who holds its `operation_lock` (`worker`).

| Actions | Code |
| --- | --- |
| `EnterCreation`, `CountIn`, `EnsureCapacity`, `Prepare`, `PrepareFails`, `Register`, `Discard`, `CountOut`, `ReleaseSlot` | `create_session`, `_ensure_active_capacity`, `_register_session` |
| `Sweep`, `SweepNext` | `_cleanup_expired_locked`, at the start of five methods |
| `Stop`, `Kill`, `Wait` | `SessionContext.stop` in the calling thread |
| `Lookup`, `ReportExpired`, `Operate`, `Operated` | `get_session` and the operation after it |
| `Remove`, `Snapshot` | `stop_session`, `capacity_snapshot` |
| `Wake`, `Cleaned` | `_cleanup_loop` |
| `BeginShutdown`, `EmptyRegistry`, `CloseNext` | `shutdown` |

`Effects` chooses what operations may do to FASB: leave it, start it anew
("restart"), restore it and so make the session available again ("restore"), lose
it unnoticed ("lose"), fail to restore it ("giveUp"). `touch()` needs no step: it
happens only at the lookup of a session that has not expired, and `Expire` may
follow at any time. Identifiers are never reused, as those of `uuid4`.

`SolverAccounted` says of a running FASB that `InCharge` or the dict keeps charge of it.
It speaks of sessions that are `available`: `get_session` drops those that are not, and
the operation that made one unavailable may start FASB again afterwards (see below).

### FasbService

Each access to a shared attribute is a step. `process` is `self.process`; processes are
numbered in the order they start, `NoProcess` being none; each has pipes (`fasb[g].stdin`,
`.stdout`), an output buffer and a reader thread of its own (`ReadLine`), as the code's
closures do. `work` holds the locals of the worker, the thread under `operation_lock`;
`seen` what a thread of `_stop_current_process` has taken from `self.process`.

| Actions | Code |
| --- | --- |
| `Restart`, `RestartFails`, `Spawn`, `SeesBanner`, `NotReady` | `start_fasb`, `restart_FASB`, `_wait_for_fasb_ready` |
| `Begin`, `EnterCommand`, `Write` | `send_command` up to the command and its marker `#?` |
| `Look`, `CheckSame`, `Poll`, `StillTime`, `GiveUp` | its loop: the buffer, the handle, the process, the deadline |
| `Stop` | `stop_fasb` in any thread: read the handle, clear it, terminate the process |
| `Boot`, `Serve`, `Die`, `DeadlinePasses` | FASB and the clock (external) |

`ExpectedNumbers` is how many lines with a number end a response: one more if the command
prints one itself. The bounded `join` of a reader thread changes
nothing and is left out.

### TaskCache

One task, which is all that its lock knows of. `row` is the database row, `sas` and
`plan` are the two files, `lp` and `temp` the programs and their temporary files, each
absent, partial or whole. A creation is a record of its place, arguments and results.
`Lookup` to `Insert` are `_run_fastdownward_for_hash`, step by step between the points
where Fast Downward or the service may die; `FindRow` to `StartFasb` are the rest of a
creation with `_ensure_lp_file`. `Fault` is a failure or a timeout of the step at hand,
`Crash` ends the service (locks and creations go, files and the row stay), `Vanish`
deletes files, `OrphanWrites` is a translator that outlives the driver a timeout has
killed. `hurt` marks creations that a fault has met.

### Fast Downward

A state is the sequence of the values of the variables, an id its place in the registry.
The searches are state machines with one step per iteration of `step()`: `EagerSearch`
(with A*), `LazySearch` (with enforced hill-climbing in a mode of its own) and
`IteratedSearch` around them. Their configuration is the variable `config`, whose tables
give the estimates; which tables, `MCDownward` computes with the heuristics' modules.
What the code draws at random is a choice; a time limit may strike after any step.

`SearchSpace` is what the searches have in common: `problem` is the task as a search sees
it (the arcs of each state, the price of an operator, what the evaluator may say of a
state, the bound, and which promises this search makes), `nodes` the information per
state, `pending` the edges a lazy search has yet to follow, `answers` the plan. `Downward`
maps its own variables to them (`SearchProblem`, `SearchNodes`, `PendingEdges`,
`Stations`): a step of a search is a step from one expanded state, or an `OpenInitial` of
a lazy search.

The heuristics, abstractions, landmark factories and pruning methods are algorithms
without concurrency. They are operators that follow the code's loops in its order (the
queue, the worklist, the buckets), because what they return depends on it: an estimate
is compared with its definition over all states, never assumed to be it. `Downward`
composes everything: a behaviour is either one search or a walk through the states of a
task, or a walk that keeps the status of landmarks along its path.
`DownwardTables` holds, for each task, what all components compute for all its states.

`LandmarkCuts` is LM-cut without its queues. `relaxed` is the task it sees in a state,
`price` what is left of the cost of each operator, `labels` who is reached, at what h^max,
with which supporter; they are any that meet what `validate_h_max` asks and what a price
is (`IsLabelled`). The zones are given as least sets, not by a search: `GoalZone` is what
`mark_goal_plateau` marks, `BeforeGoalZone` what `second_exploration` does, `FoundCut` the
operators between them. One `FindCut` is one pass of the loop of `compute_landmarks` with
the repair of h^max at its end. In `Downward` a walk on a task that LM-cut accepts goes
through the rounds of each state it comes to (`NextCut`), as `LandmarkCut` computes them
(`CutRounds`), and `CutRules` maps them to the variables of `LandmarkCuts`.

Where a hash map decides an order (labels of equal cost, pairs of abstract states), the
order is fixed to that of the keys. Generators that draw at random or may be cut off by a
time limit give the set of all results they can have.

## 3. The runs

| Run | Instance | Question and properties |
| --- | --- | --- |
| `session_parts` | loop: 5 facets, every legal set of selections, every batch of one choice, of two among the facets with a step, and those of three in the orders in which actions compete; reads: 3 clients, one with GET, 2 revisions; cache: 5 plans, numbers up to 6, limit 3, 1 change of the plan space | does the loop compute its closed form (`LoopMeetsClosedForm`, `NeverTwoPositives`, `ImpactPartitions`)? are stale clients refused (`StaleRefused`)? does the cache answer as a list (`ImplementsPlanList`) and keep the last answer (`RepeatNeedsNoFasb`)? |
| `session_requests` | 3 requests (apply, query, stop), all query types, both kinds of fault | is everything the session stores and answers true of one revision? `SolverInSync`, `SolutionFits`, `ViewFits`, `AnswersTruthful`, `ImplementsStore` |
| `session_jobs` | 3 requests (apply, start, cancel, stop), 2 jobs that count or preview, one batch, history of 1, both kinds of fault | do the three writers of a job agree, and do jobs leave the session intact? `OneActiveJob`, `TerminalIsFinal`, `CountExact` |
| `session_liveness` | 3 requests, 1 job, one batch, previews | does everything end? `RequestsEnd`, `JobsEnd` |
| `registry` | 4 requests (create, use, delete), 2 sessions, limit 1, 2 creation slots, every effect of an operation | are the limit, the slots and the ownership of sessions kept? `WithinLimit`, `SlotsConserved`, `StoppedByOne`, `SolverAccounted` |
| `registry_liveness` | 2 requests (health too), 1 session, 1 creation slot | does every request end, and every expired session go? `ClientsEnd`, `ExpiredGo` |
| `fasb_service` | 1 stopper, 2 processes, 2 commands, FASB may die, a program may be missing | `AnswerBelongs`, `AcknowledgedIsLoaded`, `WorkerKeepsProcess`, `CallsEnd` |
| `task_cache` | 2 creations, 2 modes, with and without a representative plan, all five faults | `RowNeverPartial`, `HorizonRight`, `LpNeverPartial`, `UnhurtSucceeds`, `CreationsEnd` |
| `downward` | six tasks, see below | `SearchSound`, `ImplementsSearchSpace`, `ImplementsLandmarkCuts`, `Ordered`, `Faithful`, `AbstractionsAdmissible`, `CollectionsSound`, `LandmarksSound`, `Terminates` |
| `stop_leaves_solver`, `cancel_loses_solver`, `job_of_another_revision` | 2-3 requests, 0-1 jobs | counterexamples to documented claims, see below |

The task of the session runs has two competing actions and a state facet at one
timestep and four plans, one of which has no action. It is the smallest in which a
batch displaces a selection, a preview is comparable before a selection and not
after it, a choice leaves no plan at all, and a choice leaves a plan that cannot be
displayed.

The tasks of the `downward` run have unit costs, costs with zeros, axioms (one of them
with a variable whose default needs axioms of its own), conditional effects, and dead
ends; simple ones have none of the last three and are what pattern databases and pruning
accept.

### Properties

Of the data of a session, in every reachable state:

* `SolverInSync`: when `operation_lock` is free and FASB runs, it holds exactly
  `applied_selections`.
* `SolutionFits`, `CountExact`, `ViewFits`: the displayed solution is a plan of the
  selected plan space, the stored count is its number of plans, the facet list is its
  facet list and keeps every explicit selection selectable.
* `OneActiveJob`: one active job, listed in the table, which keeps its limit.
* `StaleRefused`: a client whose responses were all built under the lock is refused
  unless it was shown the present solution; one that uses GET may have been shown an old
  solution with the present revision, but none that is not committed.
* `RepeatNeedsNoFasb`: eviction spares what was asked for last, if it fits.

Of its steps and answers:

* `AnswersTruthful`: every successful answer (from FASB, from memory or from a
  preview) is exact for the selections at that moment.
* `TerminalIsFinal`: a job keeps its final status, and a job whose cancellation was
  accepted never succeeds.
* `ImplementsStore`: with `Selected` (the selections a client may observe) for
  `selections`, every behaviour is one of `SelectionStore`: a batch happens as a
  whole, only with plans left, one revision each.
* `ImplementsPlanList`: every behaviour of the cache is one of `PlanList`.

Of the registry:

* `WithinLimit`, `SlotsConserved`: the limit holds although creations run without the
  lock between its two checks; slots and the counter of creations agree with the
  creations under way.
* `StoppedByOne`: no two threads stop one session, and none stops a registered one.
* `SolverAccounted`: no step of the registry forgets a session whose FASB runs and that
  is available: who has charge of it hands it on.

Of FASB and the caches:

* `AnswerBelongs`: a successful response is the whole output of its own command;
  `AcknowledgedIsLoaded`: a selection whose command returned has reached a FASB;
  `WorkerKeepsProcess`: only `stop_fasb` of another thread can leave a running process
  that no handle names.
* `RowNeverPartial`, `HorizonRight`, `LpNeverPartial`, `UnhurtSucceeds`: a row vouches
  for whole files (an orphaned translator excepted), a session's horizon is that of its
  own request, no partial program has its final name, and whatever earlier creations
  have left, one without faults of its own succeeds. The last is said of plain creations
  beside any others, and of one with a representative plan if all have one (`Relies`):
  otherwise a plain creation may delete the translation it needs (see below).

Of Fast Downward:

* `SearchSound`: a plan is executable and reaches the goal; if the search
  counts what operators cost it stays under the bound; only enforced hill-climbing gives
  up while there is a plan, unless the search has a bound and does not reopen, or does not
  count the bound's costs; A* returns a cheapest plan; each plan of an iterated search is
  cheaper than the last. The two conditions are needed: with another cost type an eager
  search replaces a parent by one that is cheaper in the costs it counts and dearer in
  those of the task, and what hangs below goes over the bound unnoticed, although the
  option's description (`search_algorithm.cc:184-188`) has the cut-offs "always performed
  according to real cost"; and a search that keeps a dear path to a state it has closed
  cuts off at the bound what a cheaper path would have reached.
* `ImplementsSearchSpace`: every search, with every open list, alone or as a phase of an
  iterated search, does to its nodes what `SearchSpace` says: a state is reached once and
  its parent replaced for a cheaper path only. A search without pruning that looks at
  every successor (eager or lazy, with any open list) closes a state with its successors
  covered or their edges in the open list, and fails when neither is left. A* (as the
  service runs it) also takes open states in order.
* `ImplementsLandmarkCuts`: in every state, each round of LM-cut is one of `LandmarkCuts`:
  h^max, which is repaired after a cut and not computed anew, is what a new computation
  may give, supporters are dearest facts, and the cut is the one between the zones.
* `Ordered`: h^max under LM-cut under the cost of a cheapest relaxed plan, none over
  the true cost where it may not be; every arc of the task is a step of its relaxation, as
  the theorem on A* and LM-cut assumes; what the causal graph heuristic has cached does not
  change what it says.
* `Faithful`: the successor generator, domain abstraction, default axioms and pruning
  agree with the task. `AbstractionsAdmissible`, `CollectionsSound`: the abstractions
  are admissible and consistent, perfect where promised, and their generators keep to
  their limits. `LandmarksSound`: on every path to a state, the landmarks still to come
  are landmarks of that state.

Of whole behaviours, under fairness: `RequestsEnd` and `JobsEnd` of one session,
`ClientsEnd` and `ExpiredGo` of the registry, `CallsEnd` of the FASB service,
`CreationsEnd` of the task cache, `Terminates` of the searches.

Each property has a mutant in `PROJECT.json`: a plausible bug of the code that the run
finds with that property.

### Bounds

Requests and jobs are served once, so their number bounds revisions, previews and
faults; no state is cut off by a constraint. `JobLeft` keeps a start request from
arriving when no unborn job is left for it. Three requests are enough for every
pair of operations to race with a third that retires the session or loses a
revision check; with two jobs one can be trimmed while it is still finishing, and one
started after a cancellation. One batch is enough in `session_jobs`, whose question is
who writes a job. A client sends only revisions the session has had and cancels only
jobs that exist, since others are refused at once.

A limit of 3 with 5 plans and numbers up to 6 makes every case of the cache: a prefix
that fits, one that does not and evicts its own beginning, a number past the end. In the
`session_parts` run each part has initial states of its own and the others stand still.

In the registry runs two creation slots and a limit of one let two creations pass
the first check and meet at the second; with the fourth request and the two threads
of the service, three threads can reach for one session at a time. In the liveness run
one request works on the session while it expires and the cleanup thread, or the other
request, stops it under the registry lock and waits for it.

Two FASB processes are a restart; two commands are enough for a late answer to meet the
next command. Two creations and the crash between them are enough for each step of one
to meet each state the other can leave; their number is that of the locks' contenders.

In the `downward` run the tasks have up to five variables. Costs are searched with
bounds 4 and none; open lists that draw at random run on the two smallest tasks, pruning
on the simple ones. Pattern databases have up to 6 states, collections 10, refined
patterns 7; Cartesian abstractions are refined up to 6, 8, 9 or 100 states; the cache of
the causal graph heuristic has limit 0, 6 or 100 entries, filled in two orders of the
states. `Parts`, the number costs are multiplied with so that shared costs are
integers, is 2520.

### Fairness

`FairSpec` of `Session` assumes weak fairness of each thread's next step. Every wait for
FASB ends at a timeout in `send_command` or `_wait_for_fasb_ready`, so no step blocks
for ever; `fasb_service` checks that (`CallsEnd`), with fairness of the worker, the
stoppers and the clock and none of FASB. A thread that waits for `operation_lock` is
enabled whenever the lock is free; requests and jobs are finite in number, so the lock is
eventually free for good and weak fairness is enough. Under an endless stream of clients
Python's locks promise no order, and neither does the model. The same holds of the locks
of `TaskCache`, where Fast Downward and plasp end by themselves or are timed out.

`SessionRegistry` assumes strong fairness instead, since its cleanup thread takes
the registry lock again and again for ever. It sleeps at least a second in between
(`session_registry.py:989`), in which any thread that waits for the lock gets it;
the requests are finite in number. `ExpiredGo` says nothing after shutdown has
begun: the cleanup thread ends then, and a session that registers later stays.

A search is one thread: `Downward` assumes that it goes on as long as it runs.

### What the code does not meet

Three runs expect a violation of what the documentation or a test says:

* **A stopped session can keep a FASB process** (`stop_leaves_solver`). `stop()`
  kills FASB first and waits for `operation_lock` afterwards; the apply it interrupts
  rolls back, which starts FASB again, and nothing stops it after that.
* **A cancellation can cost a session its solver** (`cancel_loses_solver`). The job may
  end between the `jobs_lock` block of `cancel_query_job` and its `stop_fasb`; the
  call then hits the FASB that the job's thread is restoring, or has restored.
* **A job can report another revision's result** (`job_of_another_revision`). The
  revision is compared and stamped when the job is created, and its query runs
  under whatever selections are applied when the job gets the lock.

The models also have these behaviours, for which no claim of the repository was found
or which the properties are worded around:

* `get_session` drops a session whose solver could not be restored; an operation that was
  already waiting then starts FASB in a session that no request can reach. A stopper
  that clears `self.process` after the worker has put another process there loses that
  one. `GET` may show an old solution with the present revision. A translator that
  outlives its driver writes into a task that a row vouches for, the exception
  `RowNeverPartial` names. A session may be shown as ready without a solver.
* A creation with a representative plan leaves a row without a plan file; a plain creation
  of the same task takes that row for stale and deletes the translation, also while the
  first one has yet to read it and then fails (`fastdownward_service.py:124`).
* `search()` may report a timeout although its last step found a plan
  (`search_algorithm.cc:113-118`). A* minimises cost, while the service takes the plan's
  length for the shortest (`session_registry.py:69`). A parent that is updated for a
  closed node leaves the g values below it as they are (`eager_search.cc:268-274`).
* `state_uniform_selection` of the Pareto list is documented the other way round
  (`pareto_open_list.cc:166`), as is `rank_preferred_first`
  (`enforced_hill_climbing_search.cc:48`).
* Some preconditions are only asserted in debug builds: the empty pattern in dominance
  pruning (`dominance_pruning.cc:75-82`), unreached facts in the ratings of splits
  (`split_selector.cc:56-61`), inapplicable preferred operators of the context-enhanced
  heuristic where axioms cost nothing (`cea_heuristic.cc:371`, `heuristic.cc:98-101`).
  Bisimulation may start with more groups than its limit (`shrink_bisimulation.cc:253`),
  and `simplify_labels` keeps the last, not the cheapest, of labels with one condition
  (`domain_transition_graph.cc:251`).
* RPG/SAS+ landmarks may be false where conditional effects share a condition
  (`landmark_factory_rpg_sasp.cc:115-142`), and the estimate of cost partitioning exceeds
  the true cost there; the case does not arise in the tasks of the run.

## 4. The proofs

The theorems hold for any facets, plans, batches, requests, jobs, clients, sessions,
creations and commands that satisfy the named assumptions: `FacetsAssumption`,
`PlansAssumption` (plans are sets of facets, finitely many), `BatchesAssumption` (distinct
facets in a batch), `SessionAssumption`, `SessionReadsAssumption`, `CacheAssumption`,
`RegistryAssumption`, `FasbAssumption` and `TaskCacheAssumption` (the sets of threads are
disjoint, `None` is none of the values, bounds are natural numbers). TLC evaluates them
in every run. Every safety property of the service that a run checks is a theorem.
`SearchSpace` and `LandmarkCuts` have no constants: the task is a variable, of which
`IsProblem` or `IsRelaxed` is assumed.

* **`LoopCorrect`** (`SessionPartsProofs`): the loop of `_updated_selections` computes
  its closed form. `SelectionLoop` keeps the selections after `done` choices; the
  invariant is that they are the closed form of the first `done` choices, and
  `BatchByOneChoice` (`SelectionLemmas`) is its step. That lemma needs the distinct
  facets of a batch: otherwise the closed form would have to say which of two choices
  counts. `LoopNeverTwoPositives` and `LoopImpactPartitions` follow the same loop;
  `ImpactPartition` says for all selections that comparable previews add up.

* **`Typing`** (`SessionProofs`): the type invariant. `TypeOK` alone is not inductive:
  a start request must carry a query its job can run (`StartsFit`), and the second
  preview adds to a count the first has left in `op.reply` (`TallyFits`).

* **`InSync`** (`SessionProofs`): `SolverInSync`. While an operation runs, FASB holds
  something else, so the invariant `SyncInv` says what it holds at each point: the thread
  with the lock is inside an operation (`HolderInside`); when it is asked on a route, FASB
  is gone or holds `op.target` (`LoadedWithTarget`); while the facets of an apply are
  read, `applied_selections` is already the target (`TargetApplied`); a reload aims at
  the applied selections and nothing but a route or a reload restarts FASB
  (`ReloadsApplied`); before an answer and after it, FASB is in sync or gone
  (`InSyncAtRest`). The proof has one lemma for the steps outside the lock, which can
  only take FASB away, and one for each group of steps under it.

* **`SolutionFitting`**, **`ViewFitting`**, **`CountsExact`** (`SessionProofs`): the data
  invariants, from one inductive invariant `DataInv` on top of `SyncInv`. What the session
  stores belongs to `Selected`, the selections its clients know of (`StoreFits`, which adds
  the cached solutions, the baseline shown without selections, and the catalog). In the
  middle of an apply `applied_selections` is already the new one while the solution is
  still the old one, so the second half, `OperationFits`, says what the thread under the
  lock has in its locals: what an apply goes back to, what the first preview has counted
  and how it relates to the second, and that a reply decided before the solver is
  restored is a true one (`ReplyFits`). **`TruthfulAnswers`** follows from it and from
  `SyncInv`: an answer is given where FASB is in sync, or comes from memory that is.

* **`Refines`** (`SessionProofs`): `Session` implements `SelectionStore` under the mapping
  of `selections` to `Selected`. Every step is a commit or leaves the mapped variables
  alone; that a commit is one of the store's batches needs `SyncInv` (FASB was asked about
  the target) and that a request that began as an apply still is one.

* **`OneJob`**, **`FinalStatuses`** (`SessionProofs`): from `JobInv`, which relates the
  status of each job to the place of its thread (`JobPlaces`: a withdrawn job is never
  recorded as a success), says that one job is active, and that active jobs are in the
  table (`Listed`): trimming could otherwise drop one, and the next start would not see it.

* **`StaleClientsRefused`** (`SessionPartsProofs`): the solution is ahead of the revision
  only in the middle of a commit (`SolutionInStep`), whose thread has the lock (`Serial`);
  views of clients that never use GET are of one revision (`ViewsWhole`), all views are
  of the past (`ViewsPast`).

* **`PlanListImplemented`**, **`RepeatIsFree`** (`SessionPartsProofs`): the cache and the
  count implement `PlanList`, and eviction spares the last answer. All that is cached or
  pending is a plan of the selected plan space under its own number, and a known count is
  right (`PlansListed`); that is enough for every branch of a query to answer as the list
  does (`FromCacheRight`, `FromFasbRight`, `PastTheCountRight`). For the second theorem the
  invariant follows the loop of `_cache_solution`: what has been put into the cache of a
  prefix that fits is its end, in order (`RecentFit`), what is pending is the rest of the
  prefix (`PrefixFit`), and whoever asked past the end has left the count (`Counted`).
  `CachedKeepsEnd` is the lemma on `move_to_end` and `popitem` that its step needs.

* **`Limit`**, **`Slots`**, **`StoppedOnce`**, `RegistryTyping` (`SessionRegistryProofs`):
  one inductive invariant, `IInv`. `PlacesFit` relates each thread's place to the registry
  lock and says where a thread that stops a session goes on; from it follows which
  clients hold a slot in the middle of a sweep. `SlotMoves` shows that each step moves
  at most one client into or out of the two sets that are counted. `OneOwner` gives
  every session at most one owner (the dict, the shutdown, a stopping thread, an
  unregistered creation), for which `DoomedFit` keeps what is doomed registered.

* **`NoneForgotten`** (`SessionRegistryProofs`): `SolverAccounted`, a property of steps.
  It needs `FateInv`: nobody else knows the session of a creation that has not answered
  (`KnownFit`, `Untold`), so that none can start its FASB behind its back, and while the
  slot is held a running FASB is in the dict, about to be stopped or still being prepared
  (`Guarded`): the slot is released last.

* **`AnswersBelong`**, **`Acknowledged`**, **`NoneLost`**, `FasbTyping`
  (`FasbServiceProofs`): `FasbInv`. `HandleInv` says that `self.process` is the newest
  process or none although stoppers clear it without a lock. `Pipes` follows a command
  through the pipes of that process: a command begins with all of them empty (`Quiet`),
  then it and its marker are unanswered, answered or marked (`UnderWay`), with its effect
  executed before its answer appears. `NumbersInOne` and its relatives show that counting
  numbers finds the marker and nothing before it. `Outcomes` keeps what has been returned.

* **`RowVouches`**, **`HorizonsRight`**, **`ProgramsWhole`**, **`CacheRepairs`**,
  `CacheTyping` (`TaskCacheProofs`): `TaskInv` says who may be amid the files: only the
  holder of the lock (`OneInTask`, `OneInProgram`), with the row gone before the first
  file is touched and back after the last (`RowFits`, `SasFits`, `PlanFits`); a partial
  task beside a row is the work of an orphan, and whoever has not ended by then is hurt
  (`ByOrphan`). `RepairInv` adds what a creation without faults may count on:
  once it has left the task nobody finds fault with the row (`Ready`), for a plain one has
  put a plan beside it, and where all bring plans nobody asks for one.

* **`SpaceInvariant`**, **`TracingEnds`**, **`AnswersArePlans`**, **`PlansKeepBound`**,
  **`ThoroughIsComplete`**, **`AStarIsOptimal`**, **`NoneReopened`**
  (`SearchSpaceProofs`): of `SearchSpace`, for every task, bound, evaluator and number of
  states. The search keeps one parent and one operator for each state and replaces them
  while other states descend from it, also where operators cost nothing and, without
  reopening, where g values of descendants are left behind. That parents still form a tree
  is stated without a transitive closure (`Grounded`): a nonempty set of states that holds
  the parents of its members has a member that no operator has created. It is preserved
  (`StaysGrounded`) because a new parent comes with a strictly lower g and the links
  never rise (`Linked`). From it follows that `trace_path` ends (`HasTrace`) and gives a
  plan whose cost is at most the g of its end (`TraceIsPath`); g values are below the bound
  (`WithinBound`), hence so is the plan (`PlansKeepBound`), and what has been answered
  stays so when parents change no more. `TidyOrder` says that a closed state of a thorough
  search has its successors covered (`Expanded`) or their edges pending, and a dead end is
  lost; once no edge is pending, along any plan (of a search that reopens: any below the
  bound) there is then an open state, known at no more than the plan pays for it if the
  search reopens (`Frontier`). A safe evaluator (`Safe`) loses no state of a plan, so that a
  search with nothing left has missed none (`NothingMissed`, `ThoroughIsComplete`). The
  state A* takes is no dearer than what the open one promises (`TakenIsCheapest`).
  The evaluator need only be admissible (`Admissible`), not
  consistent. With a consistent one (`IsConsistent`) no closed state comes after an open
  one (`IsOrdered`), so that none is reopened: the comment at `eager_search.cc:255-261`
  asks for a test of that. Induction along a path is replaced by a least element: of the
  stations for
  which a claim fails, the first (`Least`, `UpTo`). TLC checks that the searches implement
  `SearchSpace` (`ImplementsSearchSpace`); that step is not proved, the modules of the
  searches being recursive.

* **`CutInvariant`**, **`LmCutAdmissible`**, **`CutsHold`**, **`LmCutDominatesHMax`**,
  **`RoundsFree`** (`LandmarkCutsProofs`): of `LandmarkCuts`, for every relaxed task, every
  choice of supporters and every way to repair h^max. A fact of the goal zone costs no less
  than the goal (`ZoneIsDear`), so that none of the state is in it, and the zones are apart
  (`Apart`); the cut is not empty, for otherwise the goal would cost nothing
  (`CutNotEmpty`), and an operator of it has a price, or its supporter would be in the goal
  zone (`CutHasPrice`). A relaxed plan has to cross from one zone to the other, and does it
  by an operator of the cut (`CutOnPlan`). The invariant is therefore not only that the
  estimate is below every plan, which a round would not preserve, but that the plan can
  still pay what is left out of the difference (`Explained`): the price the round takes off
  is paid at least once (`SavesTheCut`). Its second half relates the estimate to h^max
  (`Dominates`): a round lowers h^max of the goal by no more than it adds
  (`GoalKeepsItsPrice`), also where a fact is reached through several operators of the
  cut: h^max as it was, cut off at what is left of the goal's, is nowhere above the h^max
  there is now (`NoneAbove`). h^max itself is determined by what is asked of the labels
  (`OneHMax`), so that it does not matter that the code repairs it. Each round leaves one
  more operator without a price (`RoundFrees`): there are no more rounds than operators.

* **`CheapestByLmCut`** (`LandmarkCutsProofs`): `AStarIsOptimal` and `LmCutAdmissible`
  together: the search the service runs, `astar(lmcut())`, finds a cheapest plan (that the
  service takes its length for the shortest is another matter, see above). `GuidedByCuts` says that the estimates of the problem are values of runs
  of LM-cut and `Relaxes` that the relaxed task is one of the problem; a plan of the
  problem is then one of the relaxed task (`PathIsRelaxedPlan`), so that the evaluator is
  admissible (`CutsAreAdmissible`). TLC checks both hypotheses of the tasks of its run
  (`ImplementsLandmarkCuts`, `Ordered`); they are not proved of the code's LM-cut, whose
  module is recursive.

Model-checked only:

* liveness (`RequestsEnd`, `JobsEnd`, `ClientsEnd`, `ExpiredGo`, `CallsEnd`,
  `CreationsEnd`, `Terminates`): temporal reasoning under fairness needs ENABLED, which the
  prover does not handle;
* the properties of the `downward` run. What they say is what recursive definitions
  compute (fixpoints over tasks, searches of abstractions): the modules declare
  RECURSIVE operators, about which the prover can show nothing. They hold for the six
  tasks and all their states. `SearchSpace` takes from the searches what can be said
  without recursion, so that their plans and the optimality of A* are theorems of it, and
  `LandmarkCuts` takes as much from LM-cut.

## 5. Not modelled

* Response formatting, authentication, regular expressions over FASB's output, Flask and
  database set-up: they keep no state. `get_query_job` changes nothing.
* The answer set programs, FASB and plasp: external; the models have what the code that
  calls them relies on.
* Fast Downward's driver and translator, which hand the search component a file. What
  the service sees of them is in `TaskCache`.
* In the search component: potential heuristics, operator counting, optimal cost
  partitioning and diverse potentials, which hand the work to an LP solver; the parser,
  the plugin system, the packing of states into words, hash sets, logging, timers and
  option parsing. They are most of the lines that no definition stands for.

What is left to prove: lemmas about the operators of the Fast Downward modules that have
a closed form (`TaskTransformations`, the queues of `OpenLists`), once they are split
from those that recurse.
