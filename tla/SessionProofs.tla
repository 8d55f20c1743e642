---------------------------- MODULE SessionProofs ----------------------------
(***************************************************************************)
(* Safety of Session for any number of requests and jobs, any facets and   *)
(* any plans, in four inductive invariants:                                *)
(*   TypeInv  the types of the variables;                                  *)
(*   SyncInv  which selections FASB has loaded at each point of an         *)
(*            operation, for SolverInSync;                                 *)
(*   DataInv  what the session stores belongs to the selections its        *)
(*            clients know of, for SolutionFits, ViewFits, CountExact,     *)
(*            AnswersTruthful and the refinement of SelectionStore;        *)
(*   JobInv   which status a job has at each place of its thread, for      *)
(*            OneActiveJob and TerminalIsFinal.                            *)
(***************************************************************************)
EXTENDS Session, SelectionLemmas

-----------------------------------------------------------------------------
(* Typing *)

StartCalls == [kind : {"start"}, query : {q \in Queries : q.type \in JobTypes},
               expected : Nat \cup {None}]

(* What TypeOK needs to be inductive: a start request carries a query for  *)
(* its job, and a preview has counted the first route before the second.   *)
StartsFit == \A r \in Requests : pc[r] \in {"check", "create"} => call[r] \in StartCalls
TallyFits == op.stage = "forbid" => op.reply.require \in Nat

TypeInv == TypeOK /\ StartsFit /\ TallyFits

-----------------------------------------------------------------------------
LEMMA ReplyTyped ==
    ASSUME NEW s \in Statuses PROVE Reply(s) \in Replies
BY DEF Reply, Replies, Counts

LEMMA NoOperationTyped == NoOperation \in Operations /\ NoOperation.stage = "none"
<1>1. NoSelections \in Selections
  BY DEF NoSelections, Selections, States
<1>2. Reply("none") \in Replies
  BY ReplyTyped DEF Statuses
<1> QED
  BY <1>1, <1>2 DEF NoOperation, Operations, Stages

LEMMA GoToTyped ==
    ASSUME TypeOK, NEW t \in Threads, NEW place \in Places, GoTo(t, place)
    PROVE  pc' \in [Threads -> Places]
BY DEF TypeOK, GoTo

(* A step that moves t outside the start protocol keeps StartsFit. *)
LEMMA GoToKeepsStarts ==
    ASSUME TypeOK, StartsFit, NEW t \in Threads,
           NEW place \in Places \ {"check", "create"}, GoTo(t, place), call' = call
    PROVE  StartsFit'
BY DEF TypeOK, StartsFit, GoTo, Threads

LEMMA RespondTyped ==
    ASSUME TypeOK, NEW t \in Threads, NEW reply \in Replies, Respond(t, reply)
    PROVE  outcome' \in [Threads -> Replies]
BY DEF TypeOK, Respond

LEMMA ConcludeTyped ==
    ASSUME TypeInv, NEW t \in Threads, NEW reply \in Replies, Conclude(t, reply),
           call' = call
    PROVE  /\ outcome' \in [Threads -> Replies]
           /\ op' \in Operations
           /\ pc' \in [Threads -> Places]
           /\ owner' \in Threads \cup {None}
           /\ StartsFit' /\ TallyFits'
<1>1. outcome' \in [Threads -> Replies]
  BY RespondTyped DEF Conclude, TypeInv
<1>2. op' \in Operations /\ TallyFits'
  BY NoOperationTyped DEF Conclude, TallyFits
<1>3. pc' \in [Threads -> Places] /\ StartsFit'
  <2>1. CASE t \in Jobs
    <3>1. GoTo(t, "record") /\ "record" \in Places \ {"check", "create"}
      BY <2>1 DEF Conclude, Places, InSession
    <3> QED
      BY <3>1, GoToTyped, GoToKeepsStarts DEF TypeInv
  <2>2. CASE t \notin Jobs
    <3>1. GoTo(t, "done") /\ "done" \in Places \ {"check", "create"}
      BY <2>2 DEF Conclude, Places, InSession
    <3> QED
      BY <3>1, GoToTyped, GoToKeepsStarts DEF TypeInv
  <2> QED
    BY <2>1, <2>2
<1>4. owner' \in Threads \cup {None}
  BY DEF Conclude, TypeInv, TypeOK
<1> QED
  BY <1>1, <1>2, <1>3, <1>4

LEMMA StartRouteTyped ==
    ASSUME TypeInv, NEW t \in Threads, NEW stage \in Stages,
           NEW target \in Selections, NEW reply \in Replies,
           stage = "forbid" => reply.require \in Nat,
           StartRoute(t, stage, target, reply), call' = call
    PROVE  /\ op' \in Operations
           /\ pc' \in [Threads -> Places]
           /\ StartsFit' /\ TallyFits'
<1>1. op' \in Operations /\ op'.stage = stage /\ op'.reply = reply
  BY DEF StartRoute, TypeInv, TypeOK, Operations
<1>2. TallyFits'
  BY <1>1 DEF TallyFits
<1>3. GoTo(t, "restart") /\ "restart" \in Places \ {"check", "create"}
  BY DEF StartRoute, Places, InSession
<1> QED
  BY <1>1, <1>2, <1>3, GoToTyped, GoToKeepsStarts DEF TypeInv

LEMMA FinishJobTyped ==
    ASSUME TypeInv, NEW j \in Jobs, FinishJob(j), call' = call
    PROVE  /\ jobs' \in [Jobs -> JobRecords]
           /\ op' \in Operations
           /\ owner' \in Threads \cup {None}
           /\ pc' \in [Threads -> Places]
           /\ StartsFit' /\ TallyFits'
<1>1. jobs' \in [Jobs -> JobRecords]
  BY DEF FinishJob, TypeInv, TypeOK, JobRecords
<1>2. op' \in Operations /\ TallyFits'
  BY NoOperationTyped DEF FinishJob, TallyFits
<1>3. j \in Threads /\ GoTo(j, "done") /\ "done" \in Places \ {"check", "create"}
  BY DEF FinishJob, Threads, Places, InSession
<1> QED
  BY <1>1, <1>2, <1>3, GoToTyped, GoToKeepsStarts DEF FinishJob, TypeInv

-----------------------------------------------------------------------------
LEMMA InitTyped == Init => TypeInv
<1> SUFFICES ASSUME Init PROVE TypeInv
  OBVIOUS
<1>1. NoSelections \in Selections
  BY DEF NoSelections, Selections, States
<1>2. baseline \in SUBSET Facets /\ solution \in SUBSET Facets
  BY DisplayedTyped DEF Init
<1>3. facets \in [visible : SUBSET Facets, selectable : SUBSET Facets]
  BY <1>2, ComposedFacetsTyped DEF Init
<1>4. known \in SUBSET Facets
  BY <1>3 DEF Init
<1>5. jobs \in [Jobs -> JobRecords]
  BY DEF Init, JobRecords, JobStatuses
<1>6. table \in Seq(Jobs)
  BY DEF Init
<1>7. pc \in [Threads -> Places] /\ StartsFit
  <2>1. \A r \in Requests : r \in Threads /\ r \notin Jobs
    BY SessionAssumption DEF Threads
  <2> QED
    BY <2>1 DEF Init, Places, StartsFit
<1>8. call \in [Threads -> Calls \cup {None}]
  BY DEF Init
<1>9. outcome \in [Threads -> Replies]
  BY ReplyTyped DEF Init, Statuses
<1>10. op \in Operations /\ TallyFits
  BY NoOperationTyped DEF Init, TallyFits
<1> QED
  BY <1>1, <1>2, <1>3, <1>4, <1>5, <1>6, <1>7, <1>8, <1>9, <1>10
  DEF Init, TypeInv, TypeOK, Counts

-----------------------------------------------------------------------------
(* A step of each kind. *)

LEMMA ReplyWithTotal ==
    ASSUME NEW n \in Counts PROVE [Reply("ok") EXCEPT !.total = n] \in Replies
BY ReplyTyped DEF Reply, Replies, Statuses

LEMMA ReplyWithPlans ==
    ASSUME NEW P \in SUBSET Plans PROVE [Reply("ok") EXCEPT !.plans = P] \in Replies
BY ReplyTyped DEF Reply, Replies, Statuses

LEMMA ArriveTyped ==
    ASSUME TypeInv, NEW r \in Requests, Arrive(r)
    PROVE  TypeInv'
<1>0. r \in Threads
  BY DEF Threads
<1>1. CASE Enter(r)
  <2>1. PICK c \in [kind : {"apply"} \cap Serves, batch : Batches,
                    expected : 0..revision \cup {None}]
             \cup [kind : {"query"} \cap Serves, query : Queries]
             \cup [kind : {"start"} \cap Serves,
                   query : {q \in Queries : q.type \in JobTypes},
                   expected : 0..revision \cup {None}]
             \cup [kind : {"cancel"} \cap Serves,
                   job : {j \in Jobs : ~ At(j, "unborn")}] :
              /\ call' = [call EXCEPT ![r] = c]
              /\ GoTo(r, FirstPlace(c.kind))
    BY <1>1 DEF Enter
  <2>2. 0..revision \subseteq Nat
    BY DEF TypeInv, TypeOK
  <2>3. c \in Calls /\ (c.kind = "start" => c \in StartCalls)
    BY <2>2 DEF Calls, StartCalls
  <2>4. FirstPlace(c.kind) \in Places
        /\ (c.kind # "start" => FirstPlace(c.kind) \notin {"check", "create"})
    BY DEF FirstPlace, Places, InSession
  <2>5. call' \in [Threads -> Calls \cup {None}]
    BY <2>1, <2>3 DEF TypeInv, TypeOK
  <2>6. pc' \in [Threads -> Places]
    BY <1>0, <2>1, <2>4, GoToTyped DEF TypeInv
  <2>7. StartsFit'
    BY <1>0, <2>1, <2>3, <2>4 DEF StartsFit, TypeInv, TypeOK, GoTo, Threads
  <2> QED
    BY <1>1, <2>5, <2>6, <2>7
    DEF Enter, TypeInv, TypeOK, TallyFits, lifeVars, selectionVars, jobVars
<1>2. CASE DropUnavailable(r)
  <2>1. Reply("notFound") \in Replies /\ "done" \in Places \ {"check", "create"}
    BY ReplyTyped DEF Statuses, Places, InSession
  <2>2. pc' \in [Threads -> Places] /\ StartsFit'
    BY <1>0, <1>2, <2>1, GoToTyped, GoToKeepsStarts DEF DropUnavailable, TypeInv
  <2>3. outcome' \in [Threads -> Replies]
    BY <1>0, <1>2, <2>1, RespondTyped DEF DropUnavailable, TypeInv
  <2> QED
    BY <1>2, <2>2, <2>3
    DEF DropUnavailable, TypeInv, TypeOK, TallyFits, selectionVars, jobVars
<1>3. CASE Retire(r)
  <2>1. "stop" \in Places \ {"check", "create"}
    BY DEF Places, InSession
  <2>2. pc' \in [Threads -> Places]
    BY <1>0, <1>3, <2>1, GoToTyped DEF Retire, TypeInv
  <2>3. call' \in [Threads -> Calls \cup {None}]
    BY <1>0, <1>3 DEF Retire, TypeInv, TypeOK, Calls
  <2>4. StartsFit'
    BY <1>0, <1>3 DEF Retire, StartsFit, TypeInv, TypeOK, GoTo, Threads
  <2> QED
    BY <1>3, <2>2, <2>3, <2>4
    DEF Retire, TypeInv, TypeOK, TallyFits, selectionVars, jobVars
<1> QED
  BY <1>1, <1>2, <1>3 DEF Arrive

LEMMA StopTyped ==
    ASSUME TypeInv, NEW r \in Requests, StopMark(r) \/ StopKill(r) \/ StopFinish(r)
    PROVE  TypeInv'
<1>0. r \in Threads /\ {"stopKill", "stopWait", "done"} \subseteq Places \ {"check", "create"}
  BY DEF Threads, Places, InSession
<1>1. CASE StopMark(r)
  <2>1. jobs' \in [Jobs -> JobRecords]
    BY <1>1 DEF StopMark, MarkedCancelled, TypeInv, TypeOK, JobRecords, JobStatuses
  <2>2. pc' \in [Threads -> Places] /\ StartsFit'
    BY <1>0, <1>1, GoToTyped, GoToKeepsStarts DEF StopMark, TypeInv
  <2> QED
    BY <1>1, <2>1, <2>2 DEF StopMark, TypeInv, TypeOK, TallyFits, selectionVars
<1>2. CASE StopKill(r)
  <2>1. pc' \in [Threads -> Places] /\ StartsFit'
    BY <1>0, <1>2, GoToTyped, GoToKeepsStarts DEF StopKill, TypeInv
  <2> QED
    BY <1>2, <2>1
    DEF StopKill, TypeInv, TypeOK, TallyFits, lifeVars, selectionVars, jobVars
<1>3. CASE StopFinish(r)
  <2>1. jobs' \in [Jobs -> JobRecords]
    BY <1>3 DEF StopFinish, TypeInv, TypeOK, JobRecords
  <2>2. pc' \in [Threads -> Places] /\ StartsFit'
    BY <1>0, <1>3, GoToTyped, GoToKeepsStarts DEF StopFinish, TypeInv
  <2>3. outcome' \in [Threads -> Replies]
    BY <1>0, <1>3, ReplyTyped, RespondTyped DEF StopFinish, Statuses, TypeInv
  <2> QED
    BY <1>3, <2>1, <2>2, <2>3
    DEF StopFinish, TypeInv, TypeOK, TallyFits, lifeVars, selectionVars
<1> QED
  BY <1>1, <1>2, <1>3

LEMMA JobUpdated ==
    ASSUME TypeOK, NEW j, NEW record, j \in Jobs => record \in JobRecords
    PROVE  [jobs EXCEPT ![j] = record] \in [Jobs -> JobRecords]
BY DEF TypeOK

LEMMA CreateTyped ==
    ASSUME TypeInv, NEW r \in Requests, StartCheck(r) \/ StartCreate(r)
    PROVE  TypeInv'
<1>0. /\ r \in Threads /\ Requests \cap Jobs = {}
      /\ {"done", "begin"} \subseteq Places \ {"check", "create"}
      /\ "create" \in Places
      /\ {"accepted", "conflict"} \subseteq Statuses
  BY SessionAssumption DEF Threads, Places, InSession, Statuses
<1>1. CASE StartCheck(r)
  <2>1. pc' \in [Threads -> Places]
    BY <1>0, <1>1, GoToTyped DEF StartCheck, TypeInv
  <2>2. outcome' \in [Threads -> Replies]
    BY <1>0, <1>1, ReplyTyped, RespondTyped DEF StartCheck, TypeInv, TypeOK
  <2>3. StartsFit'
    <3>1. call' = call /\ pc[r] = "check"
          /\ \A s \in Requests : s # r => pc'[s] = pc[s]
      <4>1. call' = call /\ pc[r] = "check" /\ (GoTo(r, "create") \/ GoTo(r, "done"))
        BY <1>1 DEF StartCheck, At
      <4> QED
        BY <1>0, <4>1 DEF GoTo, TypeInv, TypeOK, Threads
    <3> QED
      BY <3>1 DEF StartsFit, TypeInv
  <2> QED
    BY <1>1, <2>1, <2>2, <2>3
    DEF StartCheck, TypeInv, TypeOK, TallyFits, lifeVars, selectionVars, jobVars
<1>2. CASE StartCreate(r)
  <2>1. CASE JobActive
    <3>1. GoTo(r, "done") /\ Respond(r, Reply("conflict")) /\ UNCHANGED <<jobVars, call>>
      BY <1>2, <2>1 DEF StartCreate
    <3>2. pc' \in [Threads -> Places] /\ StartsFit'
      BY <1>0, <3>1, GoToTyped, GoToKeepsStarts DEF TypeInv
    <3>3. outcome' \in [Threads -> Replies]
      BY <1>0, <3>1, ReplyTyped, RespondTyped DEF TypeInv
    <3> QED
      BY <1>2, <3>1, <3>2, <3>3
      DEF StartCreate, TypeInv, TypeOK, TallyFits, lifeVars, selectionVars, jobVars
  <2>2. CASE ~ JobActive
    <3>1. PICK j \in Jobs :
             /\ jobs' = [jobs EXCEPT ![j] = [@ EXCEPT !.status = "queued",
                                                      !.revision = revision]]
             /\ table' = Append(TrimmedTable, j)
             /\ call' = [call EXCEPT ![j] = [kind |-> "query",
                                             query |-> call[r].query]]
             /\ pc' = [pc EXCEPT ![r] = "done", ![j] = "begin"]
             /\ Respond(r, Reply("accepted"))
      BY <1>2, <2>2 DEF StartCreate
    <3>2. jobs' \in [Jobs -> JobRecords]
      BY <3>1 DEF TypeInv, TypeOK, JobRecords, JobStatuses
    <3>3. table' \in Seq(Jobs)
      <4>1. TrimmedTable \in Seq(Jobs)
        <5>1. table \in Seq(Jobs) /\ JobLimit \in Nat \ {0}
          BY SessionAssumption DEF TypeInv, TypeOK
        <5>2. CASE Len(table) < JobLimit
          BY <5>1, <5>2 DEF TrimmedTable
        <5>3. CASE ~ Len(table) < JobLimit
          <6>1. TrimmedTable = SubSeq(table, Len(table) - JobLimit + 2, Len(table))
            BY <5>3 DEF TrimmedTable
          <6>2. Len(table) \in Nat /\ Len(table) - JobLimit + 2 \in 1..(Len(table) + 1)
            BY <5>1, <5>3
          <6> QED
            BY <5>1, <6>1, <6>2
        <5> QED
          BY <5>2, <5>3
      <4> QED
        BY <3>1, <4>1
    <3>4. call[r].query \in Queries
      BY <1>2 DEF StartCreate, At, TypeInv, StartsFit, StartCalls
    <3>5. call' \in [Threads -> Calls \cup {None}]
      BY <3>1, <3>4 DEF TypeInv, TypeOK, Calls
    <3>6. pc' \in [Threads -> Places]
      BY <1>0, <3>1 DEF TypeInv, TypeOK
    <3>7. StartsFit'
      <4>1. \A s \in Requests : call'[s] = call[s]
                                /\ (pc'[s] = "done" \/ pc'[s] = pc[s])
        BY <1>0, <3>1 DEF TypeInv, TypeOK, Threads
      <4> QED
        BY <4>1 DEF StartsFit, TypeInv
    <3>8. outcome' \in [Threads -> Replies]
      BY <1>0, <3>1, ReplyTyped, RespondTyped DEF TypeInv
    <3> QED
      BY <1>2, <3>2, <3>3, <3>5, <3>6, <3>7, <3>8
      DEF StartCreate, TypeInv, TypeOK, TallyFits, lifeVars, selectionVars
  <2> QED
    BY <2>1, <2>2
<1> QED
  BY <1>1, <1>2

LEMMA CancelTyped ==
    ASSUME TypeInv, NEW r \in Requests, CancelMark(r) \/ CancelKill(r)
    PROVE  TypeInv'
<1>0. /\ r \in Threads
      /\ {"kill", "done"} \subseteq Places \ {"check", "create"}
      /\ {"ok", "notFound"} \subseteq Statuses
  BY DEF Threads, Places, InSession, Statuses
<1>1. CASE CancelMark(r)
  <2>1. jobs' \in [Jobs -> JobRecords]
    <3> DEFINE k == call[r].job
    <3>1. \/ UNCHANGED jobs
          \/ jobs' = [jobs EXCEPT ![k] = [MarkedCancelled(@) EXCEPT !.finished = TRUE]]
          \/ jobs' = [jobs EXCEPT ![k].cancel = TRUE]
      BY <1>1 DEF CancelMark
    <3> DEFINE ended == [MarkedCancelled(jobs[k]) EXCEPT !.finished = TRUE]
               asked == [jobs[k] EXCEPT !.cancel = TRUE]
    <3> HIDE DEF k
    <3>2. k \in Jobs => ended \in JobRecords
      BY DEF MarkedCancelled, TypeInv, TypeOK, JobRecords, JobStatuses
    <3>3. k \in Jobs => asked \in JobRecords
      BY DEF TypeInv, TypeOK, JobRecords
    <3>4. \/ jobs' = jobs
          \/ jobs' = [jobs EXCEPT ![k] = ended]
          \/ jobs' = [jobs EXCEPT ![k] = asked]
      BY <3>1
    <3> HIDE DEF ended, asked
    <3> QED
      BY <3>2, <3>3, <3>4, JobUpdated DEF TypeInv, TypeOK
  <2>2. (GoTo(r, "done") \/ GoTo(r, "kill")) /\ call' = call
    BY <1>1 DEF CancelMark
  <2>3. pc' \in [Threads -> Places] /\ StartsFit'
    BY <1>0, <2>2, GoToTyped, GoToKeepsStarts DEF TypeInv
  <2>4. \/ Respond(r, Reply("ok")) \/ Respond(r, Reply("notFound"))
        \/ UNCHANGED outcome
    BY <1>1 DEF CancelMark
  <2>5. outcome' \in [Threads -> Replies]
    BY <1>0, <2>4, ReplyTyped, RespondTyped DEF TypeInv, TypeOK
  <2> QED
    BY <1>1, <2>1, <2>3, <2>5
    DEF CancelMark, TypeInv, TypeOK, TallyFits, lifeVars, selectionVars
<1>2. CASE CancelKill(r)
  <2>1. pc' \in [Threads -> Places] /\ StartsFit'
    BY <1>0, <1>2, GoToTyped, GoToKeepsStarts DEF CancelKill, TypeInv
  <2>2. outcome' \in [Threads -> Replies]
    BY <1>0, <1>2, ReplyTyped, RespondTyped DEF CancelKill, TypeInv
  <2> QED
    BY <1>2, <2>1, <2>2
    DEF CancelKill, TypeInv, TypeOK, TallyFits, lifeVars, selectionVars, jobVars
<1> QED
  BY <1>1, <1>2

LEMMA JobThreadTyped ==
    ASSUME TypeInv, NEW j \in Jobs,
           JobBegin(j) \/ JobRecord(j) \/ JobSettle(j) \/ Recovered(j)
    PROVE  TypeInv'
<1>0. /\ j \in Threads
      /\ {"done", "lock", "settle", "restart"} \subseteq Places \ {"check", "create"}
  BY DEF Threads, Places, InSession
<1>1. CASE JobBegin(j)
  <2>1. jobs' \in [Jobs -> JobRecords]
    <3> DEFINE ended == [jobs[j] EXCEPT !.status = "cancelled", !.finished = TRUE]
               begun == [jobs[j] EXCEPT !.status = "running"]
    <3>1. ended \in JobRecords /\ begun \in JobRecords
      BY DEF TypeInv, TypeOK, JobRecords, JobStatuses
    <3>2. \/ jobs' = [jobs EXCEPT ![j] = ended]
          \/ jobs' = [jobs EXCEPT ![j] = begun]
      BY <1>1 DEF JobBegin
    <3> HIDE DEF ended, begun
    <3> QED
      BY <3>1, <3>2, JobUpdated DEF TypeInv
  <2>2. pc' \in [Threads -> Places] /\ StartsFit'
    BY <1>0, <1>1, GoToTyped, GoToKeepsStarts DEF JobBegin, TypeInv
  <2> QED
    BY <1>1, <2>1, <2>2
    DEF JobBegin, TypeInv, TypeOK, TallyFits, lifeVars, selectionVars
<1>2. CASE JobRecord(j)
  <2>1. jobs' \in [Jobs -> JobRecords]
    <3>1. FinalStatus(j) \in JobStatuses
      BY DEF FinalStatus, JobStatuses
    <3> HIDE DEF FinalStatus
    <3> QED
      BY <1>2, <3>1 DEF JobRecord, TypeInv, TypeOK, JobRecords
  <2>2. pc' \in [Threads -> Places] /\ StartsFit'
    BY <1>0, <1>2, GoToTyped, GoToKeepsStarts DEF JobRecord, TypeInv
  <2> QED
    BY <1>2, <2>1, <2>2
    DEF JobRecord, TypeInv, TypeOK, TallyFits, lifeVars, selectionVars
<1>3. CASE JobSettle(j)
  <2>1. CASE jobs[j].cancel /\ ~ stopping
    <3>1. /\ op' = [NoOperation EXCEPT !.stage = "recover", !.target = applied]
          /\ GoTo(j, "restart") /\ UNCHANGED <<jobs, owner>>
      BY <1>3, <2>1 DEF JobSettle
    <3>2. op' \in Operations /\ TallyFits'
      BY <3>1, NoOperationTyped DEF TypeInv, TypeOK, Operations, Stages, TallyFits
    <3>3. pc' \in [Threads -> Places] /\ StartsFit'
      BY <1>0, <1>3, <3>1, GoToTyped, GoToKeepsStarts DEF JobSettle, TypeInv
    <3> QED
      BY <1>3, <3>1, <3>2, <3>3
      DEF JobSettle, TypeInv, TypeOK, lifeVars, selectionVars
  <2>2. CASE ~ (jobs[j].cancel /\ ~ stopping)
    <3>1. FinishJob(j) /\ call' = call
      BY <1>3, <2>2 DEF JobSettle
    <3> QED
      BY <1>3, <3>1, FinishJobTyped
      DEF JobSettle, TypeInv, TypeOK, lifeVars, selectionVars
  <2> QED
    BY <2>1, <2>2
<1>4. CASE Recovered(j)
  <2>1. FinishJob(j) /\ call' = call
    BY <1>4 DEF Recovered
  <2>2. solver' \in Selections
    BY <1>4 DEF Recovered, TypeInv, TypeOK, Operations
  <2> QED
    BY <1>4, <2>1, <2>2, FinishJobTyped
    DEF Recovered, TypeInv, TypeOK, lifeVars, selectionVars
<1> QED
  BY <1>1, <1>2, <1>3, <1>4

-----------------------------------------------------------------------------
(* apply_selections *)

LEMMA RollbackTyped ==
    ASSUME TypeInv, NEW r \in Threads, NEW reply \in Replies, Rollback(r, reply),
           call' = call
    PROVE  /\ applied' \in Selections /\ op' \in Operations
           /\ pc' \in [Threads -> Places] /\ StartsFit' /\ TallyFits'
<1>1. op.before \in Selections /\ "restore" \in Stages /\ "restore" # "forbid"
  BY DEF TypeInv, TypeOK, Operations, Stages
<1>2. applied' = op.before /\ StartRoute(r, "restore", op.before, reply)
  BY DEF Rollback, Restore
<1> QED
  BY <1>1, <1>2, StartRouteTyped

LEMMA AdoptTyped ==
    ASSUME TypeInv, NEW displayed \in SUBSET Facets, Adopt(displayed)
    PROVE  TypeInv'
<1>1. applied' \in Selections
  BY DEF Adopt, TypeInv, TypeOK, Operations
<1>2. op' \in Operations /\ op'.stage = "facets"
  BY DEF Adopt, TypeInv, TypeOK, Operations, Stages
<1>3. TallyFits'
  BY <1>2 DEF TallyFits
<1>4. StartsFit'
  BY DEF Adopt, StartsFit, TypeInv
<1> QED
  BY <1>1, <1>2, <1>3, <1>4
  DEF Adopt, TypeInv, TypeOK, lifeVars, jobVars

LEMMA ApplyTyped ==
    ASSUME TypeInv, NEW r \in Requests,
           \/ ApplyRefused(r) \/ ApplyBegin(r) \/ ApplySolve(r)
           \/ ApplyKeepBaseline(r) \/ ApplyFindsNoPlan(r) \/ ApplyCommit(r)
    PROVE  TypeInv'
<1>0. /\ r \in Threads
      /\ {"done", "restart"} \subseteq Places \ {"check", "create"}
      /\ {"conflict", "invalid", "none", "noPlan", "ok"} \subseteq Statuses
  BY DEF Threads, Places, InSession, Statuses
<1>1. CASE ApplyRefused(r)
  <2>1. Refusal(call[r]) \in Statuses
    BY <1>0 DEF Refusal
  <2>2. Reply(Refusal(call[r])) \in Replies
    BY <2>1, ReplyTyped
  <2>3. outcome' \in [Threads -> Replies]
    BY <1>0, <1>1, <2>2, RespondTyped DEF ApplyRefused, TypeInv
  <2>4. pc' \in [Threads -> Places] /\ StartsFit'
    BY <1>0, <1>1, GoToTyped, GoToKeepsStarts DEF ApplyRefused, TypeInv
  <2> QED
    BY <1>1, <2>3, <2>4
    DEF ApplyRefused, TypeInv, TypeOK, TallyFits, lifeVars, selectionVars, jobVars
<1>2. CASE ApplyBegin(r)
  <2>1. call[r].batch \in Batches
    <3>1. call[r] \in Calls /\ call[r].kind = "apply"
      BY <1>0, <1>2 DEF ApplyBegin, IsApply, TypeInv, TypeOK
    <3> QED
      BY <3>1 DEF Calls
  <2>2. UpdatedSelections(applied, call[r].batch) \in Selections
    BY <2>1, BatchesAssumption, UpdatedSelectionsTyped DEF TypeInv, TypeOK
  <2>3. op' \in Operations /\ op'.stage = "apply"
    BY <1>2, <2>2, NoOperationTyped
    DEF ApplyBegin, TypeInv, TypeOK, Operations, Stages
  <2>4. TallyFits'
    BY <2>3 DEF TallyFits
  <2>5. pc' \in [Threads -> Places] /\ StartsFit'
    BY <1>0, <1>2, GoToTyped, GoToKeepsStarts DEF ApplyBegin, TypeInv
  <2> QED
    BY <1>0, <1>2, <2>3, <2>4, <2>5
    DEF ApplyBegin, TypeInv, TypeOK, lifeVars, selectionVars, jobVars
<1>3. CASE ApplySolve(r)
  BY <1>3, DisplayedTyped, AdoptTyped DEF ApplySolve
<1>4. CASE ApplyKeepBaseline(r)
  BY <1>4, AdoptTyped DEF ApplyKeepBaseline, TypeInv, TypeOK
<1>5. CASE ApplyFindsNoPlan(r)
  <2>1. Rollback(r, Reply("noPlan")) /\ Reply("noPlan") \in Replies /\ call' = call
    BY <1>0, <1>5, ReplyTyped DEF ApplyFindsNoPlan
  <2> QED
    BY <1>0, <1>5, <2>1, RollbackTyped
    DEF ApplyFindsNoPlan, TypeInv, TypeOK, lifeVars, jobVars
<1>6. CASE ApplyCommit(r)
  <2>1. op.draft \in SUBSET Facets
    BY DEF TypeInv, TypeOK, Operations
  <2>2. facets' \in [visible : SUBSET Facets, selectable : SUBSET Facets]
    BY <1>6, <2>1, ComposedFacetsTyped DEF ApplyCommit
  <2>3. known' \in SUBSET Facets /\ revision' \in Nat
    BY <1>6, <2>2 DEF ApplyCommit, TypeInv, TypeOK
  <2>4. solutionCount' \in Counts /\ cached' \subseteq Plans
    BY <1>6 DEF ApplyCommit, CountAfterCommit, CacheAfterCommit, Counts
  <2>5. Conclude(r, Reply("ok")) /\ Reply("ok") \in Replies /\ call' = call
    BY <1>0, <1>6, ReplyTyped DEF ApplyCommit
  <2> QED
    BY <1>0, <1>6, <2>1, <2>2, <2>3, <2>4, <2>5, ConcludeTyped
    DEF ApplyCommit, TypeInv, TypeOK, lifeVars, jobVars
<1> QED
  BY <1>1, <1>2, <1>3, <1>4, <1>5, <1>6

-----------------------------------------------------------------------------
(* Queries, previews and the restoration of FASB *)

LEMMA LoadTyped ==
    ASSUME TypeInv, NEW t \in Threads,
           QueryBegin(t) \/ Restart(t) \/ Load(t) \/ Restored(t)
    PROVE  TypeInv'
<1>0. /\ {"ask", "load"} \subseteq Places \ {"check", "create"}
      /\ NoSelections \in Selections
      /\ op.target \in Selections /\ op.reply \in Replies
  BY DEF Places, InSession, NoSelections, Selections, States, TypeInv, TypeOK,
         Operations
<1>1. CASE QueryBegin(t)
  <2>1. op' \in Operations /\ TallyFits'
    BY <1>1, NoOperationTyped DEF QueryBegin, Operations, Stages, TallyFits
  <2>2. pc' \in [Threads -> Places] /\ StartsFit'
    BY <1>0, <1>1, GoToTyped, GoToKeepsStarts DEF QueryBegin, TypeInv
  <2> QED
    BY <1>1, <2>1, <2>2
    DEF QueryBegin, TypeInv, TypeOK, lifeVars, selectionVars, jobVars
<1>2. CASE Restart(t)
  <2>1. pc' \in [Threads -> Places] /\ StartsFit'
    BY <1>0, <1>2, GoToTyped, GoToKeepsStarts DEF Restart, TypeInv
  <2> QED
    BY <1>0, <1>2, <2>1
    DEF Restart, TypeInv, TypeOK, TallyFits, lifeVars, selectionVars, jobVars
<1>3. CASE Load(t)
  <2>1. pc' \in [Threads -> Places] /\ StartsFit'
    BY <1>0, <1>3, GoToTyped, GoToKeepsStarts DEF Load, TypeInv
  <2> QED
    BY <1>0, <1>3, <2>1
    DEF Load, TypeInv, TypeOK, TallyFits, lifeVars, selectionVars, jobVars
<1>4. CASE Restored(t)
  <2>1. Conclude(t, op.reply) /\ call' = call
    BY <1>4 DEF Restored
  <2> QED
    BY <1>0, <1>4, <2>1, ConcludeTyped
    DEF Restored, TypeInv, TypeOK, lifeVars, selectionVars, jobVars
<1> QED
  BY <1>1, <1>2, <1>3, <1>4

LEMMA AnswerTyped ==
    ASSUME TypeInv, NEW t \in Threads,
           \/ AnswerFromMemory(t) \/ AnswerProbe(t) \/ AnswerFacets(t)
           \/ AnswerCount(t) \/ AnswerSolutions(t)
    PROVE  TypeInv'
<1>0. Reply("ok") \in Replies /\ Reply("invalid") \in Replies
      /\ Reply("noPlan") \in Replies
  BY ReplyTyped DEF Statuses
<1>1. CASE AnswerFromMemory(t)
  <2>1. PICK reply \in Replies : Conclude(t, reply)
    <3>1. [Reply("ok") EXCEPT !.total = solutionCount] \in Replies
      BY ReplyWithTotal DEF TypeInv, TypeOK
    <3>2. \A shown \in SUBSET cached : [Reply("ok") EXCEPT !.plans = shown] \in Replies
      BY ReplyWithPlans DEF TypeInv, TypeOK
    <3> QED
      BY <1>0, <1>1, <3>1, <3>2 DEF AnswerFromMemory
  <2>2. call' = call
    BY <1>1 DEF AnswerFromMemory
  <2> QED
    BY <1>1, <2>1, <2>2, ConcludeTyped
    DEF AnswerFromMemory, TypeInv, TypeOK, lifeVars, selectionVars, jobVars
<1>2. CASE AnswerProbe(t)
  <2>1. Conclude(t, Reply("ok")) /\ call' = call
    BY <1>2 DEF AnswerProbe
  <2> QED
    BY <1>0, <1>2, <2>1, ConcludeTyped
    DEF AnswerProbe, TypeInv, TypeOK, lifeVars, selectionVars, jobVars
<1>3. CASE AnswerFacets(t)
  <2>1. facets' \in [visible : SUBSET Facets, selectable : SUBSET Facets]
    BY <1>3, ComposedFacetsTyped DEF AnswerFacets, TypeInv, TypeOK
  <2>2. known' \in SUBSET Facets
    BY <1>3, <2>1 DEF AnswerFacets, TypeInv, TypeOK
  <2>3. Conclude(t, Reply("ok")) /\ call' = call
    BY <1>3 DEF AnswerFacets
  <2> QED
    BY <1>0, <1>3, <2>1, <2>2, <2>3, ConcludeTyped
    DEF AnswerFacets, TypeInv, TypeOK, lifeVars, jobVars
<1>4. CASE AnswerCount(t)
  <2> DEFINE count == CountModels(solver)
  <2>1. count \in Nat
    BY ModelsTyped
  <2>2. \/ Conclude(t, Reply("noPlan")) /\ UNCHANGED solutionCount
        \/ /\ solutionCount' = count
           /\ Conclude(t, [Reply("ok") EXCEPT !.total = count])
    BY <1>4 DEF AnswerCount
  <2>3. [Reply("ok") EXCEPT !.total = count] \in Replies
    BY <2>1, ReplyWithTotal DEF Counts
  <2> HIDE DEF count
  <2>4. solutionCount' \in Counts
    BY <2>1, <2>2 DEF Counts, TypeInv, TypeOK
  <2>5. (\E reply \in Replies : Conclude(t, reply)) /\ call' = call
    BY <1>0, <1>4, <2>2, <2>3 DEF AnswerCount
  <2> QED
    BY <1>4, <2>4, <2>5, ConcludeTyped
    DEF AnswerCount, TypeInv, TypeOK, lifeVars, selectionVars, jobVars
<1>5. CASE AnswerSolutions(t)
  <2>1. PICK shown \in SUBSET Models(solver) :
           /\ solutionCount' = CountAfterSolutions(shown, Requested(Query(t)))
           /\ cached' = shown
           /\ Conclude(t, [Reply("ok") EXCEPT !.plans = shown])
    BY <1>5 DEF AnswerSolutions
  <2>2. IsFiniteSet(shown) /\ shown \in SUBSET Plans
    BY ModelsTyped, FS_Subset
  <2>3. Cardinality(shown) \in Nat
    BY <2>2, FS_CardinalityType
  <2>4. solutionCount' \in Counts
    BY <2>1, <2>3 DEF CountAfterSolutions, Counts, TypeInv, TypeOK
  <2>5. [Reply("ok") EXCEPT !.plans = shown] \in Replies /\ call' = call
    BY <1>5, <2>2, ReplyWithPlans DEF AnswerSolutions
  <2> QED
    BY <1>5, <2>1, <2>2, <2>4, <2>5, ConcludeTyped
    DEF AnswerSolutions, TypeInv, TypeOK, lifeVars, jobVars
<1> QED
  BY <1>1, <1>2, <1>3, <1>4, <1>5

(* The two previews and their restoration. *)
LEMMA RoutesTyped ==
    ASSUME TypeInv, NEW f
    PROVE  RequireRoute(applied, f) \in Selections /\ ForbidRoute(applied, f) \in Selections
BY UpdatedTyped DEF RequireRoute, ForbidRoute, States, TypeInv, TypeOK

LEMMA RestoreTyped ==
    ASSUME TypeInv, NEW t \in Threads, NEW sel \in Selections,
           NEW reply \in Replies, Restore(t, sel, reply), call' = call
    PROVE  /\ op' \in Operations
           /\ pc' \in [Threads -> Places]
           /\ StartsFit' /\ TallyFits'
<1>1. "restore" \in Stages /\ "restore" # "forbid"
  BY DEF Stages
<1> QED
  BY <1>1, StartRouteTyped DEF Restore

LEMMA ImpactTyped ==
    ASSUME TypeInv, NEW t \in Threads,
           \/ ImpactBegin(t) \/ ImpactRequired(t) \/ ImpactForbidden(t)
           \/ ImpactTried(t)
    PROVE  TypeInv'
<1>0. /\ Reply("ok") \in Replies
      /\ {"require", "forbid", "tryForbid"} \subseteq Stages
      /\ op.reply \in Replies /\ applied \in Selections
  BY ReplyTyped DEF Statuses, Stages, TypeInv, TypeOK, Operations
<1> DEFINE f == Query(t).facet
<1>1. CASE ImpactBegin(t)
  <2>1. StartRoute(t, "require", RequireRoute(applied, f), Reply("ok")) /\ call' = call
    BY <1>1 DEF ImpactBegin
  <2> QED
    BY <1>0, <1>1, <2>1, RoutesTyped, StartRouteTyped
    DEF ImpactBegin, TypeInv, TypeOK, lifeVars, selectionVars, jobVars
<1>2. CASE ImpactRequired(t)
  <2> DEFINE reply == [Reply("ok") EXCEPT !.require = CountModels(solver)]
  <2>1. StartRoute(t, "forbid", ForbidRoute(applied, f), reply) /\ call' = call
    BY <1>2 DEF ImpactRequired
  <2>2. reply \in Replies /\ reply.require \in Nat
    <3>1. CountModels(solver) \in Nat
      BY ModelsTyped
    <3> QED
      BY <1>0, <3>1 DEF Replies, Reply, Counts
  <2> HIDE DEF reply
  <2> QED
    BY <1>0, <1>2, <2>1, <2>2, RoutesTyped, StartRouteTyped
    DEF ImpactRequired, TypeInv, TypeOK, lifeVars, selectionVars, jobVars
<1>3. CASE ImpactForbidden(t)
  <2> DEFINE forbid == CountModels(solver)
             sum    == op.reply.require + forbid
             total  == IF Comparable(applied, f) THEN sum ELSE None
             reply  == [op.reply EXCEPT !.forbid = forbid, !.total = total]
  <2>1. /\ solutionCount' = IF total # None /\ sum > 0 THEN total ELSE solutionCount
        /\ Restore(t, applied, reply)
        /\ call' = call
    BY <1>3 DEF ImpactForbidden
  <2>2. forbid \in Nat /\ op.reply.require \in Nat
    BY <1>3, ModelsTyped DEF ImpactForbidden, InStage, TypeInv, TallyFits
  <2>3. sum \in Nat
    <3> HIDE DEF forbid
    <3> QED
      BY <2>2
  <2> HIDE DEF forbid, sum
  <2>4. total \in Counts
    BY <2>3 DEF Counts
  <2> HIDE DEF total
  <2>5. reply \in Replies
    BY <1>0, <2>2, <2>4 DEF Replies, Counts
  <2>6. solutionCount' \in Counts
    BY <2>1, <2>4 DEF TypeInv, TypeOK
  <2> HIDE DEF reply
  <2> QED
    BY <1>0, <1>3, <2>1, <2>5, <2>6, RestoreTyped
    DEF ImpactForbidden, TypeInv, TypeOK, lifeVars, selectionVars, jobVars
<1>4. CASE ImpactTried(t)
  <2> DEFINE total == IF Comparable(applied, f) THEN solutionCount ELSE None
             reply == [op.reply EXCEPT !.total = total]
  <2>1. call' = call /\ \/ StartRoute(t, "tryForbid", ForbidRoute(applied, f), op.reply)
                        \/ Restore(t, applied, reply)
    BY <1>4 DEF ImpactTried
  <2>2. total \in Counts
    BY DEF Counts, TypeInv, TypeOK
  <2> HIDE DEF total
  <2>3. reply \in Replies
    BY <1>0, <2>2 DEF Replies
  <2> HIDE DEF reply
  <2>4. op' \in Operations /\ pc' \in [Threads -> Places] /\ StartsFit' /\ TallyFits'
    BY <1>0, <2>1, <2>3, RoutesTyped, StartRouteTyped, RestoreTyped
  <2> QED
    BY <1>4, <2>4
    DEF ImpactTried, TypeInv, TypeOK, lifeVars, selectionVars, jobVars
<1> QED
  BY <1>1, <1>2, <1>3, <1>4

LEMMA FailureTyped ==
    ASSUME TypeInv, NEW t \in Threads, CallFails(t)
    PROVE  TypeInv'
<1>0. PICK why \in {"capacity", "error"} :
         FailApply(t, why) \/ FailAnswer(t, why) \/ FailImpact(t, why)
           \/ FailRestore(t, why)
  BY DEF CallFails
<1>1. /\ Reply(why) \in Replies /\ Reply("ok") \in Replies
      /\ Reply("capacity") \in Replies
      /\ op.reply \in Replies /\ applied \in Selections
      /\ "tryRequire" \in Stages
  BY ReplyTyped DEF Statuses, Stages, TypeInv, TypeOK, Operations
<1>2. solver' \in Selections \cup {None} /\ call' = call
  BY <1>0 DEF FailApply, FailAnswer, FailImpact, FailRestore, Fails, TypeInv, TypeOK
<1>3. CASE FailApply(t, why)
  <2>1. Rollback(t, Reply(why))
    BY <1>3 DEF FailApply
  <2> QED
    BY <1>1, <1>2, <1>3, <2>1, RollbackTyped
    DEF FailApply, TypeInv, TypeOK, lifeVars, jobVars
<1>4. CASE FailAnswer(t, why)
  <2>1. \/ Restore(t, applied, Reply(why)) /\ UNCHANGED <<owner, outcome>>
        \/ Conclude(t, Reply(why))
    BY <1>4 DEF FailAnswer
  <2>2. /\ op' \in Operations /\ pc' \in [Threads -> Places]
        /\ StartsFit' /\ TallyFits'
        /\ owner' \in Threads \cup {None} /\ outcome' \in [Threads -> Replies]
    <3>1. CASE Restore(t, applied, Reply(why)) /\ UNCHANGED <<owner, outcome>>
      BY <1>1, <1>2, <3>1, RestoreTyped DEF TypeInv, TypeOK
    <3>2. CASE Conclude(t, Reply(why))
      BY <1>1, <1>2, <3>2, ConcludeTyped
    <3> QED
      BY <2>1, <3>1, <3>2
  <2> QED
    BY <1>2, <1>4, <2>2
    DEF FailAnswer, TypeInv, TypeOK, lifeVars, selectionVars, jobVars
<1>5. CASE FailImpact(t, why)
  <2>1. \/ StartRoute(t, "tryRequire", RequireRoute(applied, Query(t).facet), Reply("ok"))
        \/ Restore(t, applied, Reply(why))
    BY <1>5 DEF FailImpact
  <2>2. op' \in Operations /\ pc' \in [Threads -> Places] /\ StartsFit' /\ TallyFits'
    BY <1>1, <1>2, <2>1, RoutesTyped, StartRouteTyped, RestoreTyped
  <2> QED
    BY <1>2, <1>5, <2>2
    DEF FailImpact, TypeInv, TypeOK, lifeVars, selectionVars, jobVars
<1>6. CASE FailRestore(t, why)
  <2>1. CASE op.stage = "recover"
    <3>1. FinishJob(t) /\ UNCHANGED outcome
      BY <1>6, <2>1 DEF FailRestore
    <3>2. CASE t \in Jobs
      BY <1>2, <1>6, <3>1, <3>2, FinishJobTyped
      DEF FailRestore, TypeInv, TypeOK, lifeVars, selectionVars
    <3>3. CASE t \notin Jobs
      <4>1. jobs' = jobs
        BY <3>1, <3>3 DEF FinishJob, TypeInv, TypeOK
      <4>2. op' \in Operations /\ TallyFits'
        BY <3>1, NoOperationTyped DEF FinishJob, TallyFits
      <4>3. GoTo(t, "done") /\ "done" \in Places \ {"check", "create"} /\ owner' = None
        BY <3>1 DEF FinishJob, Places, InSession
      <4>4. pc' \in [Threads -> Places] /\ StartsFit'
        BY <1>2, <4>3, GoToTyped, GoToKeepsStarts DEF TypeInv
      <4> QED
        BY <1>2, <1>6, <3>1, <4>1, <4>2, <4>3, <4>4
        DEF FailRestore, TypeInv, TypeOK, lifeVars, selectionVars
    <3> QED
      BY <3>2, <3>3
  <2>2. CASE op.stage # "recover"
    <3>1. PICK reply \in Replies : Conclude(t, reply)
      BY <1>1, <1>6, <2>2 DEF FailRestore
    <3> QED
      BY <1>2, <1>6, <2>2, <3>1, ConcludeTyped
      DEF FailRestore, TypeInv, TypeOK, lifeVars, selectionVars
  <2> QED
    BY <2>1, <2>2
<1> QED
  BY <1>0, <1>3, <1>4, <1>5, <1>6

-----------------------------------------------------------------------------
LEMMA OperateTyped ==
    ASSUME TypeInv, NEW t \in Threads, Operate(t)
    PROVE  TypeInv'
BY LoadTyped, AnswerTyped, ImpactTyped, FailureTyped DEF Operate

LEMMA NextTyped == TypeInv /\ [Next]_vars => TypeInv'
<1> SUFFICES ASSUME TypeInv, [Next]_vars PROVE TypeInv'
  OBVIOUS
<1>1. CASE UNCHANGED vars
  BY <1>1 DEF vars, selectionVars, jobVars, lifeVars, TypeInv, TypeOK, StartsFit,
              TallyFits
<1>2. ASSUME NEW r \in Requests, Arrive(r) \/ RequestStep(r) PROVE TypeInv'
  <2>1. r \in Threads
    BY DEF Threads
  <2> QED
    BY <1>2, <2>1, ArriveTyped, StopTyped, CreateTyped, CancelTyped, ApplyTyped,
       OperateTyped DEF RequestStep
<1>3. ASSUME NEW j \in Jobs, JobStep(j) PROVE TypeInv'
  <2>1. j \in Threads
    BY DEF Threads
  <2> QED
    BY <1>3, <2>1, JobThreadTyped, OperateTyped DEF JobStep
<1> QED
  BY <1>1, <1>2, <1>3 DEF Next

(* Every variable of a session keeps its type: no path of a preview, a     *)
(* rollback or a stop leaves a selection dict, a job record or a reply     *)
(* half made.                                                              *)
THEOREM Typing == Spec => []TypeOK
<1>1. TypeInv => TypeOK
  BY DEF TypeInv
<1> QED
  BY InitTyped, NextTyped, <1>1, PTL DEF Spec

-----------------------------------------------------------------------------
(* What FASB has loaded *)

RouteStages == {"apply", "require", "forbid", "tryRequire", "tryForbid"}
ReloadStages == {"restore", "recover"}

(* The strengthening that makes SolverInSync inductive: what FASB holds at *)
(* each point of an operation, and which selections a reload aims at.      *)
HolderInside == owner # None => pc[owner] \in InSession

OwnerAt(places) == owner # None /\ pc[owner] \in places
AtRest == \/ owner = None
          \/ OwnerAt({"record", "settle"})
          \/ OwnerAt({"ask"}) /\ op.stage = "answer"

InSyncAtRest == AtRest /\ solver # None => solver = applied

LoadedWithTarget ==
    OwnerAt({"ask"}) /\ op.stage \in RouteStages \cup {"facets"}
      => solver \in {None, op.target}

TargetApplied == OwnerAt({"ask"}) /\ op.stage = "facets" => applied = op.target

ReloadsApplied ==
    OwnerAt({"restart", "load"})
      => /\ op.stage \in RouteStages \cup ReloadStages
         /\ op.stage \in ReloadStages => op.target = applied

SyncInv == /\ HolderInside /\ InSyncAtRest /\ LoadedWithTarget
           /\ TargetApplied /\ ReloadsApplied

-----------------------------------------------------------------------------
(* A step of a thread that does not hold the operation lock can only take  *)
(* FASB away.                                                              *)
LEMMA BystanderSync ==
    ASSUME SyncInv, UNCHANGED <<owner, op, applied>>, solver' \in {None, solver},
           owner # None => pc'[owner] = pc[owner]
    PROVE  SyncInv'
BY DEF SyncInv, HolderInside, InSyncAtRest, LoadedWithTarget, TargetApplied,
       ReloadsApplied, OwnerAt, AtRest, InSession

(* The end of an operation, with FASB as the applied selections want it. *)
LEMMA ConcludeSync ==
    ASSUME TypeInv, NEW t \in Threads, owner = t, NEW reply, Conclude(t, reply),
           solver' \in {None, applied'}
    PROVE  SyncInv'
<1>1. \/ owner' = None
      \/ owner' = t /\ pc'[t] = "record"
  BY DEF Conclude, GoTo, TypeInv, TypeOK
<1> QED
  BY <1>1
  DEF SyncInv, HolderInside, InSyncAtRest, LoadedWithTarget, TargetApplied,
      ReloadsApplied, OwnerAt, AtRest, InSession

LEMMA FinishSync ==
    ASSUME NEW j, FinishJob(j), solver' \in {None, applied'}
    PROVE  SyncInv'
BY DEF FinishJob, SyncInv, HolderInside, InSyncAtRest, LoadedWithTarget,
       TargetApplied, ReloadsApplied, OwnerAt, AtRest

(* The start of a route: a reload must aim at the applied selections. *)
LEMMA RouteSync ==
    ASSUME TypeInv, NEW t \in Threads, owner' = t, GoTo(t, "restart"),
           op'.stage \in RouteStages \cup ReloadStages,
           op'.stage \in ReloadStages => op'.target = applied'
    PROVE  SyncInv'
<1>1. pc'[t] = "restart" /\ t # None
  BY SessionAssumption DEF GoTo, TypeInv, TypeOK
<1> QED
  BY <1>1
  DEF SyncInv, HolderInside, InSyncAtRest, LoadedWithTarget, TargetApplied,
      ReloadsApplied, OwnerAt, AtRest, InSession

LEMMA StartRouteSync ==
    ASSUME TypeInv, NEW t \in Threads, owner = t, owner' = owner,
           NEW stage, NEW target, NEW reply, StartRoute(t, stage, target, reply),
           stage \in RouteStages \cup ReloadStages,
           stage \in ReloadStages => target = applied'
    PROVE  SyncInv'
<1>1. op'.stage = stage /\ op'.target = target /\ GoTo(t, "restart")
  BY DEF StartRoute, TypeInv, TypeOK, Operations
<1> QED
  BY <1>1, RouteSync

-----------------------------------------------------------------------------
LEMMA InitSync == Init => SyncInv
BY DEF Init, SyncInv, HolderInside, InSyncAtRest, LoadedWithTarget,
       TargetApplied, ReloadsApplied, OwnerAt, AtRest

(* start_query_job refuses, or creates a job and its thread. *)
LEMMA Created ==
    ASSUME NEW r, StartCreate(r)
    PROVE  \/ /\ GoTo(r, "done") /\ Respond(r, Reply("conflict"))
              /\ UNCHANGED <<jobs, table, call>>
           \/ /\ ~ JobActive
              /\ \E j \in Jobs :
                    /\ pc[j] = "unborn"
                    /\ jobs' = [jobs EXCEPT ![j] = [@ EXCEPT !.status = "queued",
                                                             !.revision = revision]]
                    /\ table' = Append(TrimmedTable, j)
                    /\ call' = [call EXCEPT ![j] = [kind |-> "query",
                                                    query |-> call[r].query]]
                    /\ pc' = [pc EXCEPT ![r] = "done", ![j] = "begin"]
                    /\ Respond(r, Reply("accepted"))
<1>1. CASE JobActive
  <2>1. GoTo(r, "done") /\ Respond(r, Reply("conflict")) /\ UNCHANGED <<jobVars, call>>
    BY <1>1 DEF StartCreate
  <2> QED
    BY <2>1 DEF jobVars
<1>2. CASE ~ JobActive
  BY <1>2 DEF StartCreate, At
<1> QED
  BY <1>1, <1>2

LEMMA CreationLeaves ==
    ASSUME NEW r, StartCreate(r)
    PROVE  UNCHANGED <<registered, stopping, available, applied, revision, solution, cached,
                       facets, known, baseline, solutionCount, solver, owner, op>>
<1>1. UNCHANGED <<lifeVars, available, selectionVars, baseline, solutionCount, solver,
                  owner, op>>
  BY DEF StartCreate
<1> QED
  BY <1>1 DEF lifeVars, selectionVars

(* Steps outside the operation lock leave its holder alone. *)
LEMMA OutsideKeepsHolder ==
    ASSUME TypeInv, SyncInv, NEW t \in Threads,
           \/ Arrive(t) \/ StopMark(t) \/ StopKill(t) \/ StopFinish(t)
           \/ StartCheck(t) \/ StartCreate(t) \/ CancelMark(t) \/ CancelKill(t)
           \/ ApplyRefused(t) \/ JobBegin(t)
    PROVE  owner # None => pc'[owner] = pc[owner] /\ call'[owner] = call[owner]
<1> SUFFICES ASSUME owner # None
             PROVE  pc'[owner] = pc[owner] /\ call'[owner] = call[owner]
  OBVIOUS
<1>1. owner \in Threads /\ pc[owner] \in InSession
  BY DEF TypeInv, TypeOK, SyncInv, HolderInside
<1>2. pc[t] \notin InSession
  <2>1. pc[t] \in {"idle", "stop", "stopKill", "stopWait", "check", "create",
                   "mark", "kill", "lock", "begin"}
    BY DEF Arrive, Enter, DropUnavailable, Retire, StopMark, StopKill, StopFinish,
           StartCheck, StartCreate, CancelMark, CancelKill, ApplyRefused, JobBegin, At
  <2> QED
    BY <2>1 DEF InSession
<1>3. CASE StartCreate(t)
  <2>1. \/ GoTo(t, "done") /\ call' = call
        \/ \E j \in Jobs :
              /\ pc[j] = "unborn"
              /\ pc' = [pc EXCEPT ![t] = "done", ![j] = "begin"]
              /\ call' = [call EXCEPT ![j] = [kind |-> "query",
                                              query |-> call[t].query]]
    BY <1>3, Created
  <2> QED
    BY <1>1, <1>2, <2>1 DEF GoTo, InSession, TypeInv, TypeOK
<1>4. CASE ~ StartCreate(t)
  <2>1. \E place : GoTo(t, place) /\ (call' = call \/ \E c : call' = [call EXCEPT ![t] = c])
    <3>1. CASE Arrive(t)
      BY <3>1 DEF Arrive, Enter, DropUnavailable, Retire
    <3>2. CASE ~ Arrive(t)
      BY <1>4, <3>2 DEF StopMark, StopKill, StopFinish, StartCheck, CancelMark,
                        CancelKill, ApplyRefused, JobBegin
    <3> QED
      BY <3>1, <3>2
  <2> QED
    BY <1>1, <1>2, <2>1 DEF GoTo, TypeInv, TypeOK
<1> QED
  BY <1>3, <1>4

(* Steps outside the operation lock. *)
LEMMA OutsideSync ==
    ASSUME TypeInv, SyncInv, NEW t \in Threads,
           \/ Arrive(t) \/ StopMark(t) \/ StopKill(t) \/ StopFinish(t)
           \/ StartCheck(t) \/ StartCreate(t) \/ CancelMark(t) \/ CancelKill(t)
           \/ ApplyRefused(t) \/ JobBegin(t)
    PROVE  SyncInv'
<1>1. UNCHANGED <<owner, op, applied>> /\ solver' \in {None, solver}
  BY DEF Arrive, Enter, DropUnavailable, Retire, StopMark, StopKill, StopFinish,
         StartCheck, StartCreate, CancelMark, CancelKill, ApplyRefused, JobBegin,
         selectionVars
<1> QED
  BY <1>1, OutsideKeepsHolder, BystanderSync

(* apply_selections under the lock. *)
LEMMA ApplySync ==
    ASSUME TypeInv, SyncInv, NEW r \in Threads,
           \/ ApplyBegin(r) \/ ApplySolve(r) \/ ApplyKeepBaseline(r)
           \/ ApplyFindsNoPlan(r) \/ ApplyCommit(r)
    PROVE  SyncInv'
<1>0. r # None
  BY SessionAssumption
<1>1. CASE ApplyBegin(r)
  <2>1. op'.stage = "apply" /\ owner' = r /\ GoTo(r, "restart")
    BY <1>1, NoOperationTyped DEF ApplyBegin, Operations
  <2> QED
    BY <2>1, RouteSync DEF RouteStages, ReloadStages
<1>2. ASSUME NEW displayed, InStage(r, "ask", {"apply"}), Adopt(displayed)
      PROVE  SyncInv'
  <2>1. owner = r /\ pc[r] = "ask" /\ op.stage = "apply"
    BY <1>2 DEF InStage, Holds, At
  <2>2. op'.stage = "facets" /\ op'.target = op.target /\ applied' = op.target
    BY <1>2 DEF Adopt, TypeInv, TypeOK, Operations
  <2>3. UNCHANGED <<owner, pc, solver>>
    BY <1>2 DEF Adopt
  <2>4. solver \in {None, op.target}
    BY <1>0, <2>1 DEF SyncInv, LoadedWithTarget, OwnerAt, RouteStages
  <2> QED
    BY <1>0, <2>1, <2>2, <2>3, <2>4
    DEF SyncInv, HolderInside, InSyncAtRest, LoadedWithTarget, TargetApplied,
        ReloadsApplied, OwnerAt, AtRest, InSession
<1>3. CASE ApplySolve(r)
  BY <1>2, <1>3 DEF ApplySolve
<1>4. CASE ApplyKeepBaseline(r)
  BY <1>2, <1>4 DEF ApplyKeepBaseline
<1>5. CASE ApplyFindsNoPlan(r)
  <2>1. applied' = op.before /\ StartRoute(r, "restore", op.before, Reply("noPlan"))
        /\ owner = r /\ owner' = owner
    BY <1>5 DEF ApplyFindsNoPlan, Rollback, Restore, InStage, Holds
  <2> QED
    BY <2>1, StartRouteSync DEF ReloadStages
<1>6. CASE ApplyCommit(r)
  <2>1. /\ owner = r /\ pc[r] = "ask" /\ op.stage = "facets"
        /\ Conclude(r, Reply("ok")) /\ applied' = applied /\ solver' = solver
    BY <1>6 DEF ApplyCommit, InStage, Holds, At
  <2>2. solver \in {None, applied}
    BY <1>0, <2>1 DEF SyncInv, LoadedWithTarget, TargetApplied, OwnerAt
  <2> QED
    BY <2>1, <2>2, ConcludeSync
<1> QED
  BY <1>1, <1>3, <1>4, <1>5, <1>6

(* Loading FASB. *)
LEMMA LoadSync ==
    ASSUME TypeInv, SyncInv, NEW t \in Threads,
           QueryBegin(t) \/ Restart(t) \/ Load(t) \/ Restored(t)
    PROVE  SyncInv'
<1>0. t # None
  BY SessionAssumption
<1>1. CASE QueryBegin(t)
  <2>1. owner = None /\ owner' = t /\ pc'[t] = "ask" /\ op'.stage = "answer"
        /\ applied' = applied /\ solver' = solver
    BY <1>1, NoOperationTyped
    DEF QueryBegin, GoTo, TypeInv, TypeOK, Operations, selectionVars
  <2> QED
    BY <1>0, <2>1
    DEF SyncInv, HolderInside, InSyncAtRest, LoadedWithTarget, TargetApplied,
        ReloadsApplied, OwnerAt, AtRest, InSession, RouteStages
<1>2. CASE Restart(t)
  <2>1. owner = t /\ pc[t] = "restart" /\ pc'[t] = "load"
        /\ UNCHANGED <<owner, op, applied>>
    BY <1>2 DEF Restart, Holds, At, GoTo, TypeInv, TypeOK, selectionVars
  <2> QED
    BY <1>0, <2>1
    DEF SyncInv, HolderInside, InSyncAtRest, LoadedWithTarget, TargetApplied,
        ReloadsApplied, OwnerAt, AtRest, InSession
<1>3. CASE Load(t)
  <2>1. owner = t /\ pc[t] = "load" /\ pc'[t] = "ask" /\ solver' = op.target
        /\ op.stage \notin ReloadStages /\ UNCHANGED <<owner, op, applied>>
    BY <1>3 DEF Load, Holds, At, GoTo, TypeInv, TypeOK, selectionVars, ReloadStages
  <2>2. op.stage \in RouteStages
    BY <1>0, <2>1 DEF SyncInv, ReloadsApplied, OwnerAt
  <2> QED
    BY <1>0, <2>1, <2>2
    DEF SyncInv, HolderInside, InSyncAtRest, LoadedWithTarget, TargetApplied,
        ReloadsApplied, OwnerAt, AtRest, InSession, RouteStages
<1>4. CASE Restored(t)
  <2>1. /\ owner = t /\ pc[t] = "load" /\ op.stage \in ReloadStages
        /\ solver' = op.target /\ applied' = applied /\ Conclude(t, op.reply)
    BY <1>4 DEF Restored, InStage, Holds, At, selectionVars, ReloadStages
  <2>2. op.target = applied
    BY <1>0, <2>1 DEF SyncInv, ReloadsApplied, OwnerAt
  <2> QED
    BY <2>1, <2>2, ConcludeSync
<1> QED
  BY <1>1, <1>2, <1>3, <1>4

(* Answers leave FASB as it is. *)
LEMMA AnswerSync ==
    ASSUME TypeInv, SyncInv, NEW t \in Threads,
           \/ AnswerFromMemory(t) \/ AnswerProbe(t) \/ AnswerFacets(t)
           \/ AnswerCount(t) \/ AnswerSolutions(t)
    PROVE  SyncInv'
<1>1. /\ owner = t /\ pc[t] = "ask" /\ op.stage = "answer"
      /\ UNCHANGED <<applied, solver>>
  BY DEF AnswerFromMemory, AnswerProbe, AnswerFacets, AnswerCount, AnswerSolutions,
         Answers, InStage, Holds, At, selectionVars
<1>2. \E reply : Conclude(t, reply)
  BY DEF AnswerFromMemory, AnswerProbe, AnswerFacets, AnswerCount, AnswerSolutions
<1>3. solver \in {None, applied}
  BY <1>1, SessionAssumption DEF SyncInv, InSyncAtRest, AtRest, OwnerAt
<1> QED
  BY <1>1, <1>2, <1>3, ConcludeSync

(* Previews start another route, and the last one reloads. *)
LEMMA ImpactSync ==
    ASSUME TypeInv, SyncInv, NEW t \in Threads,
           \/ ImpactBegin(t) \/ ImpactRequired(t) \/ ImpactForbidden(t)
           \/ ImpactTried(t)
    PROVE  SyncInv'
<1>1. owner = t /\ owner' = owner /\ applied' = applied
  BY DEF ImpactBegin, ImpactRequired, ImpactForbidden, ImpactTried, Answers,
         InStage, Holds, selectionVars
<1>2. \/ \E target, reply : \E stage \in {"require", "forbid", "tryForbid"} :
           StartRoute(t, stage, target, reply)
      \/ \E reply : StartRoute(t, "restore", applied, reply)
  BY DEF ImpactBegin, ImpactRequired, ImpactForbidden, ImpactTried, Restore
<1> QED
  BY <1>1, <1>2, StartRouteSync DEF RouteStages, ReloadStages

(* Errors end the operation, or reload the applied selections. *)
LEMMA FailureSync ==
    ASSUME TypeInv, SyncInv, NEW t \in Threads, CallFails(t)
    PROVE  SyncInv'
<1>1. PICK why \in {"capacity", "error"} :
         FailApply(t, why) \/ FailAnswer(t, why) \/ FailImpact(t, why)
           \/ FailRestore(t, why)
  BY DEF CallFails
<1>2. owner = t /\ t # None /\ solver' \in {None, solver}
      /\ pc[t] \in {"restart", "load", "ask"}
  BY <1>1, SessionAssumption
  DEF FailApply, FailAnswer, FailImpact, FailRestore, Fails, CallsService, InStage,
      Holds, At
<1>3. CASE FailApply(t, why)
  <2>1. applied' = op.before /\ StartRoute(t, "restore", op.before, Reply(why))
        /\ owner' = owner
    BY <1>3 DEF FailApply, Rollback, Restore
  <2> QED
    BY <1>2, <2>1, StartRouteSync DEF ReloadStages
<1>4. CASE FailAnswer(t, why)
  <2>1. op.stage = "answer" /\ applied' = applied
    BY <1>4 DEF FailAnswer, selectionVars
  <2>2. CASE StartRoute(t, "restore", applied, Reply(why)) /\ owner' = owner
    BY <1>2, <2>1, <2>2, StartRouteSync DEF ReloadStages
  <2>3. CASE Conclude(t, Reply(why))
    <3>1. pc[t] = "ask"
      BY <1>2, <2>1
      DEF SyncInv, ReloadsApplied, OwnerAt, RouteStages, ReloadStages
    <3>2. solver \in {None, applied}
      BY <1>2, <2>1, <3>1 DEF SyncInv, InSyncAtRest, AtRest, OwnerAt
    <3> QED
      BY <1>2, <2>1, <2>3, <3>2, ConcludeSync
  <2> QED
    BY <1>4, <2>2, <2>3 DEF FailAnswer, Restore
<1>5. CASE FailImpact(t, why)
  <2>1. owner' = owner /\ applied' = applied
    BY <1>5 DEF FailImpact, selectionVars
  <2>2. \/ \E target, reply : StartRoute(t, "tryRequire", target, reply)
        \/ \E reply : StartRoute(t, "restore", applied, reply)
    BY <1>5 DEF FailImpact, Restore
  <2> QED
    BY <1>2, <2>1, <2>2, StartRouteSync DEF RouteStages, ReloadStages
<1>6. CASE FailRestore(t, why)
  <2>1. solver' = None
    BY <1>6 DEF FailRestore
  <2>2. FinishJob(t) \/ \E reply : Conclude(t, reply)
    BY <1>6 DEF FailRestore
  <2> QED
    BY <1>2, <2>1, <2>2, ConcludeSync, FinishSync
<1> QED
  BY <1>1, <1>3, <1>4, <1>5, <1>6

(* The job thread under the lock. *)
LEMMA JobSync ==
    ASSUME TypeInv, SyncInv, NEW j \in Jobs,
           JobRecord(j) \/ JobSettle(j) \/ Recovered(j)
    PROVE  SyncInv'
<1>0. j \in Threads /\ j # None
  BY SessionAssumption DEF Threads
<1>1. CASE JobRecord(j)
  <2>1. owner = j /\ pc[j] = "record" /\ pc'[j] = "settle"
        /\ UNCHANGED <<owner, solver, applied>>
    BY <1>0, <1>1 DEF JobRecord, Holds, At, GoTo, TypeInv, TypeOK, selectionVars
  <2> QED
    BY <1>0, <2>1
    DEF SyncInv, HolderInside, InSyncAtRest, LoadedWithTarget, TargetApplied,
        ReloadsApplied, OwnerAt, AtRest, InSession
<1>2. CASE JobSettle(j)
  <2>1. owner = j /\ pc[j] = "settle" /\ UNCHANGED <<solver, applied>>
    BY <1>2 DEF JobSettle, Holds, At, selectionVars
  <2>2. CASE jobs[j].cancel /\ ~ stopping
    <3>1. owner' = j /\ GoTo(j, "restart") /\ op'.stage = "recover"
          /\ op'.target = applied
      BY <1>2, <2>1, <2>2, NoOperationTyped DEF JobSettle, Operations
    <3> QED
      BY <1>0, <2>1, <3>1, RouteSync DEF ReloadStages
  <2>3. CASE FinishJob(j)
    <3>1. solver \in {None, applied}
      BY <1>0, <2>1 DEF SyncInv, InSyncAtRest, AtRest, OwnerAt
    <3> QED
      BY <2>1, <2>3, <3>1, FinishSync
  <2> QED
    BY <1>2, <2>2, <2>3 DEF JobSettle
<1>3. CASE Recovered(j)
  <2>1. /\ owner = j /\ pc[j] = "load" /\ op.stage \in ReloadStages
        /\ solver' = op.target /\ applied' = applied /\ FinishJob(j)
    BY <1>3 DEF Recovered, InStage, Holds, At, selectionVars, ReloadStages
  <2>2. op.target = applied
    BY <1>0, <2>1 DEF SyncInv, ReloadsApplied, OwnerAt
  <2> QED
    BY <2>1, <2>2, FinishSync
<1> QED
  BY <1>1, <1>2, <1>3

-----------------------------------------------------------------------------
LEMMA NextSync == TypeInv /\ SyncInv /\ [Next]_vars => SyncInv'
<1> SUFFICES ASSUME TypeInv, SyncInv, [Next]_vars PROVE SyncInv'
  OBVIOUS
<1>1. CASE UNCHANGED vars
  BY <1>1, BystanderSync DEF vars, selectionVars
<1>2. ASSUME NEW t \in Threads, Operate(t) PROVE SyncInv'
  BY <1>2, LoadSync, AnswerSync, ImpactSync, FailureSync DEF Operate
<1>3. ASSUME NEW r \in Requests, Arrive(r) \/ RequestStep(r) PROVE SyncInv'
  BY <1>2, <1>3, OutsideSync, ApplySync DEF RequestStep, Threads
<1>4. ASSUME NEW j \in Jobs, JobStep(j) PROVE SyncInv'
  BY <1>2, <1>4, OutsideSync, JobSync DEF JobStep, Threads
<1> QED
  BY <1>1, <1>3, <1>4 DEF Next

(* Whenever operation_lock is free and FASB runs, FASB is loaded with the  *)
(* applied selections: every preview, rollback, timeout, cancellation and  *)
(* stop leads back to them, for any number of requests and jobs.           *)
THEOREM InSync == Spec => []SolverInSync
<1>1. Init => TypeInv /\ SyncInv
  BY InitTyped, InitSync
<1>2. (TypeInv /\ SyncInv) /\ [Next]_vars => (TypeInv /\ SyncInv)'
  BY NextTyped, NextSync
<1>3. SyncInv => SolverInSync
  BY DEF SyncInv, InSyncAtRest, AtRest, SolverInSync
<1> QED
  BY <1>1, <1>2, <1>3, PTL DEF Spec

-----------------------------------------------------------------------------
(* What a session stores belongs to the selections its clients know of     *)
(* (Selected), and what the holder of the operation lock has at hand       *)
(* belongs to the call it serves.                                          *)
Previewing == {"require", "forbid", "tryRequire", "tryForbid"}
Requiring == {"require", "tryRequire"}

CacheFits == cached \subseteq Models(Selected)
BaselineFits == \E p \in Models(NoSelections) : baseline = Displayed(p)
Catalogued == Active(Selected) \subseteq known
StoreFits == /\ SolutionFits /\ ViewFits /\ CountExact
             /\ CacheFits /\ BaselineFits /\ Catalogued

Busy == op.stage # "none" => owner # None

Batch == call[owner].batch
AppliesBatch ==
    op.stage \in {"apply", "facets"} =>
      /\ IsApply(owner)
      /\ PreviousStatesHold(op.before, Batch)
      /\ op.target = UpdatedSelections(op.before, Batch)
      /\ Active(op.target) \subseteq known
      /\ op.stage = "apply" => op.before = applied
      /\ op.stage = "facets" =>
           OwnerAt({"ask"}) /\ \E p \in Models(op.target) : op.draft = Displayed(p)

Previews ==
    op.stage \in Previewing =>
      LET f == Query(owner).facet
      IN  /\ PreviewsImpact(owner) /\ f \in Facets
          /\ op.target = IF op.stage \in Requiring THEN RequireRoute(applied, f)
                         ELSE ForbidRoute(applied, f)
          /\ op.stage = "forbid" =>
               op.reply.require = CountModels(RequireRoute(applied, f))

AnswersQuery == op.stage = "answer" => IsQuery(owner)

ReplyFits ==
    op.stage \in Previewing \cup {"restore"} /\ IsQuery(owner)
      /\ op.reply.status = "ok" => Truthful(Query(owner), op.reply)

OperationFits == Busy /\ AppliesBatch /\ Previews /\ AnswersQuery /\ ReplyFits

DataInv == StoreFits /\ OperationFits

(* stop and cancel are sent as such *)
CallsFit ==
    \A r \in Requests :
      /\ pc[r] \in {"stop", "stopKill", "stopWait"} => call[r].kind = "stop"
      /\ pc[r] \in {"mark", "kill"} => call[r].kind = "cancel"

-----------------------------------------------------------------------------
(* What every step does: it keeps the invariant, a successful answer to a  *)
(* query is true, and clients see their selections change by a whole batch *)
(* or not at all.                                                          *)
Honest ==
    \A t \in Threads :
      outcome'[t] # outcome[t] /\ IsQuery(t) /\ outcome'[t].status = "ok"
        => Truthful(Query(t), outcome'[t])

Committed(batch) ==
    /\ PreviousStatesHold(Selected, batch)
    /\ Selected' = UpdatedSelections(Selected, batch)
    /\ Models(Selected') # {}
    /\ revision' = revision + 1

DataStep == /\ DataInv' /\ Honest
            /\ \/ UNCHANGED <<Selected, revision>>
               \/ \E batch \in Batches : Committed(batch)

LEMMA ActiveOfBatch ==
    ASSUME NEW sel \in Selections, NEW batch \in Seq(Choices), NEW catalog,
           Active(sel) \subseteq catalog,
           \A i \in DOMAIN batch : batch[i].facet \in catalog
    PROVE  Active(UpdatedSelections(sel, batch)) \subseteq catalog
<1> SUFFICES ASSUME NEW g \in Facets, g \notin catalog
             PROVE  UpdatedSelections(sel, batch)[g] = "neutral"
  BY DEF Active
<1>1. ~ \E i \in DOMAIN batch : batch[i].facet = g
  OBVIOUS
<1>2. sel[g] = "neutral"
  BY DEF Active
<1> QED
  BY <1>1, <1>2 DEF UpdatedSelections, Settled

(* FASB, loaded with the selections, and a catalog that has them all give  *)
(* the view of these selections.                                           *)
LEMMA ComposedIsView ==
    ASSUME NEW sel, NEW shown, NEW catalog, Active(sel) \subseteq catalog
    PROVE  ComposedFacets(sel, sel, shown, catalog) = View(sel, shown)
<1>1. Active(sel) \cap (catalog \cup (Open(sel) \cup ImpliedAbstract(sel) \cup shown))
        = Active(sel)
  OBVIOUS
<1> QED
  BY <1>1 DEF ComposedFacets, View

LEMMA RespondHonest ==
    ASSUME TypeInv, NEW t \in Threads, NEW reply, Respond(t, reply),
           IsQuery(t) /\ reply.status = "ok" => Truthful(Query(t), reply)
    PROVE  Honest
BY DEF TypeInv, TypeOK, Respond, Honest

LEMMA SilenceHonest == ASSUME outcome' = outcome PROVE Honest
BY DEF Honest

LEMMA OutcomeOf ==
    ASSUME NEW s \in Statuses
    PROVE  Reply(s).status = s /\ Reply(s).total = None /\ Reply(s).require = None
           /\ Reply(s).forbid = None
BY DEF Reply

LEMMA StoreKept ==
    ASSUME StoreFits, Selected' = Selected, UNCHANGED <<solution, cached, facets, known,
           baseline, solutionCount>>
    PROVE  StoreFits'
BY DEF StoreFits, SolutionFits, ViewFits, CountExact, CacheFits, BaselineFits, Catalogued

LEMMA AtLeisure == ASSUME op'.stage \in {"none", "recover"}, Busy' PROVE OperationFits'
BY DEF OperationFits, AppliesBatch, Previews, AnswersQuery, ReplyFits, Previewing

LEMMA SelectedNow == ASSUME op.stage # "facets" PROVE Selected = applied
BY DEF Selected
LEMMA SelectedThen == ASSUME op'.stage # "facets" PROVE Selected' = applied'
BY DEF Selected

(* The end of an operation or of a job. *)
LEMMA ConcludeData ==
    ASSUME TypeInv, NEW t \in Threads, NEW reply, Conclude(t, reply), op.stage # "facets",
           applied' = applied, revision' = revision, StoreFits',
           IsQuery(t) /\ reply.status = "ok" => Truthful(Query(t), reply)
    PROVE  DataStep
<1>1. op'.stage = "none"
  BY NoOperationTyped DEF Conclude
<1>2. OperationFits'
  BY <1>1, AtLeisure DEF Busy
<1>3. Honest
  BY RespondHonest DEF Conclude
<1>4. Selected' = Selected
  BY <1>1, SelectedNow, SelectedThen
<1> QED
  BY <1>2, <1>3, <1>4 DEF DataStep, DataInv

LEMMA FinishData ==
    ASSUME NEW j, FinishJob(j), DataInv, op.stage # "facets",
           UNCHANGED <<applied, revision, solution, cached, facets, known, baseline,
                       solutionCount, outcome>>
    PROVE  DataStep
<1>1. op'.stage = "none"
  BY NoOperationTyped DEF FinishJob
<1>2. OperationFits'
  BY <1>1, AtLeisure DEF Busy
<1>3. Selected' = Selected
  BY <1>1, SelectedNow, SelectedThen
<1>4. StoreFits'
  BY <1>3, StoreKept DEF DataInv
<1> QED
  BY <1>2, <1>3, <1>4, SilenceHonest DEF DataStep, DataInv

(* The fields of an operation that starts another route. *)
LEMMA RouteFields ==
    ASSUME TypeInv, NEW t \in Threads, NEW stage, NEW target, NEW reply,
           StartRoute(t, stage, target, reply)
    PROVE  /\ op'.stage = stage /\ op'.target = target /\ op'.reply = reply
           /\ op'.before = op.before /\ op'.draft = op.draft
           /\ GoTo(t, "restart")
BY DEF StartRoute, TypeInv, TypeOK, Operations

(* Reloading the selections that clients know of, before a reply that is   *)
(* decided already.                                                        *)
LEMMA RestoreData ==
    ASSUME TypeInv, StoreFits, NEW t \in Threads, owner' = t, NEW sel, NEW reply,
           Restore(t, sel, reply), applied' = Selected,
           UNCHANGED <<revision, solution, cached, facets, known, baseline, outcome, call>>,
           solutionCount' \in {None, CountModels(Selected)},
           reply.status = "ok" =>
             applied' = applied /\ (IsQuery(t) => Truthful(Query(t), reply))
    PROVE  DataStep
<1>0. t # None
  BY SessionAssumption
<1>1. op'.stage = "restore" /\ op'.reply = reply
  BY RouteFields DEF Restore
<1>2. Selected' = Selected
  BY <1>1, SelectedThen
<1>3. StoreFits'
  BY <1>2 DEF StoreFits, SolutionFits, ViewFits, CountExact, CacheFits, BaselineFits,
              Catalogued
<1>4. ReplyFits'
  BY <1>1 DEF ReplyFits, Truthful, IsQuery, Query
<1>5. OperationFits'
  BY <1>0, <1>1, <1>4
  DEF OperationFits, Busy, AppliesBatch, Previews, AnswersQuery, Previewing
<1> QED
  BY <1>2, <1>3, <1>5, SilenceHonest DEF DataStep, DataInv

LEMMA PreviewData ==
    ASSUME TypeInv, StoreFits, NEW t \in Threads, owner' = t, op.stage # "facets",
           NEW stage \in Previewing, NEW target, NEW reply,
           StartRoute(t, stage, target, reply),
           PreviewsImpact(t), Query(t).facet \in Facets,
           target = IF stage \in Requiring THEN RequireRoute(applied, Query(t).facet)
                    ELSE ForbidRoute(applied, Query(t).facet),
           stage = "forbid" =>
             reply.require = CountModels(RequireRoute(applied, Query(t).facet)),
           reply.status = "ok" => Truthful(Query(t), reply),
           UNCHANGED <<applied, revision, solution, cached, facets, known, baseline,
                       solutionCount, outcome, call>>
    PROVE  DataStep
<1>0. t # None
  BY SessionAssumption
<1>1. op'.stage = stage /\ op'.target = target /\ op'.reply = reply
  BY RouteFields
<1>2. Selected' = Selected
  BY <1>1, SelectedThen, SelectedNow DEF Previewing
<1>3. StoreFits'
  BY <1>2, StoreKept
<1>4. ReplyFits'
  BY <1>1 DEF ReplyFits, Truthful, IsQuery, Query
<1>5. Previews'
  BY <1>1 DEF Previews, PreviewsImpact, IsQuery, Query
<1>6. OperationFits'
  BY <1>0, <1>1, <1>4, <1>5
  DEF OperationFits, Busy, AppliesBatch, AnswersQuery, Previewing
<1> QED
  BY <1>2, <1>3, <1>6, SilenceHonest DEF DataStep, DataInv

LEMMA FreshReply ==
    ASSUME NEW q, q.type = "selectionImpact"
    PROVE  Truthful(q, Reply("ok"))
BY DEF Truthful, Reply

-----------------------------------------------------------------------------
LEMMA InitData == Init => DataInv
<1> SUFFICES ASSUME Init PROVE DataInv
  OBVIOUS
<1>1. op.stage = "none"
  BY NoOperationTyped DEF Init
<1>2. Selected = NoSelections
  BY <1>1, SelectedNow DEF Init
<1>3. Active(NoSelections) = {}
  BY DEF Active, NoSelections
<1>4. facets = View(NoSelections, solution)
  BY <1>3, ComposedIsView DEF Init
<1>5. StoreFits
  BY <1>2, <1>3, <1>4
  DEF Init, StoreFits, SolutionFits, ViewFits, CountExact, CacheFits, BaselineFits,
      Catalogued
<1>6. OperationFits
  BY <1>1 DEF OperationFits, Busy, AppliesBatch, Previews, AnswersQuery, ReplyFits,
              Previewing
<1> QED
  BY <1>5, <1>6 DEF DataInv

(* Steps outside the operation lock. *)
LEMMA OutsideData ==
    ASSUME TypeInv, SyncInv, DataInv, CallsFit, NEW t \in Threads,
           \/ Arrive(t) \/ StopMark(t) \/ StopKill(t) \/ StopFinish(t)
           \/ StartCheck(t) \/ StartCreate(t) \/ CancelMark(t) \/ CancelKill(t)
           \/ ApplyRefused(t) \/ JobBegin(t),
           JobBegin(t) \/ t \in Requests
    PROVE  DataStep
<1>1. UNCHANGED <<owner, op, applied, revision, solution, cached, facets, known,
                  baseline, solutionCount>>
  <2>1. CASE Arrive(t)
    BY <2>1 DEF Arrive, Enter, DropUnavailable, Retire, selectionVars
  <2>2. CASE StopMark(t) \/ StopKill(t) \/ StopFinish(t)
    BY <2>2 DEF StopMark, StopKill, StopFinish, selectionVars
  <2>3. CASE StartCheck(t) \/ StartCreate(t) \/ ApplyRefused(t)
    BY <2>3, CreationLeaves DEF StartCheck, ApplyRefused, selectionVars
  <2>4. CASE CancelMark(t) \/ CancelKill(t) \/ JobBegin(t)
    BY <2>4 DEF CancelMark, CancelKill, JobBegin, selectionVars
  <2> QED
    BY <2>1, <2>2, <2>3, <2>4
<1>2. Selected' = Selected
  BY <1>1 DEF Selected
<1>3. StoreFits'
  BY <1>1, <1>2, StoreKept DEF DataInv
<1>4. owner # None => pc'[owner] = pc[owner] /\ call'[owner] = call[owner]
  BY OutsideKeepsHolder
<1>5. OperationFits'
  BY <1>1, <1>4
  DEF DataInv, OperationFits, Busy, AppliesBatch, Previews, AnswersQuery, ReplyFits,
      Truthful, Batch, Query, IsQuery, IsApply, PreviewsImpact, OwnerAt, Previewing
<1>6. Honest
  <2>1. CASE outcome' = outcome
    BY <2>1, SilenceHonest
  <2>2. CASE \E s \in Statuses \ {"ok"} : Respond(t, Reply(s))
    BY <2>2, RespondHonest, OutcomeOf
  <2>3. CASE Respond(t, Reply("ok")) /\ ~ IsQuery(t)
    BY <2>3, RespondHonest
  <2>4. \/ outcome' = outcome
        \/ \E s \in Statuses \ {"ok"} : Respond(t, Reply(s))
        \/ Respond(t, Reply("ok")) /\ ~ IsQuery(t)
    <3>1. CASE Arrive(t)
      BY <3>1 DEF Arrive, Enter, DropUnavailable, Retire, Statuses
    <3>2. CASE StartCheck(t)
      BY <3>2 DEF StartCheck, Statuses
    <3>3. CASE StartCreate(t)
      <4>1. Respond(t, Reply("conflict")) \/ Respond(t, Reply("accepted"))
        BY <3>3, Created
      <4> QED
        BY <4>1 DEF Statuses
    <3>4. CASE ApplyRefused(t)
      <4>1. Refusal(call[t]) \in Statuses \ {"ok"}
        BY DEF Refusal, Statuses
      <4> QED
        BY <3>4, <4>1 DEF ApplyRefused
    <3>5. CASE StopMark(t) \/ StopKill(t) \/ JobBegin(t)
      BY <3>5 DEF StopMark, StopKill, JobBegin
    <3>6. CASE StopFinish(t)
      <4>1. t \in Requests /\ pc[t] = "stopWait"
        BY <3>6 DEF StopFinish, JobBegin, At
      <4>2. ~ IsQuery(t)
        BY <4>1 DEF CallsFit, IsQuery
      <4> QED
        BY <3>6, <4>2 DEF StopFinish
    <3>7. CASE CancelMark(t) \/ CancelKill(t)
      <4>1. t \in Requests /\ pc[t] \in {"mark", "kill"}
        BY <3>7 DEF CancelMark, CancelKill, JobBegin, At
      <4>2. ~ IsQuery(t)
        BY <4>1 DEF CallsFit, IsQuery
      <4> QED
        BY <3>7, <4>2 DEF CancelMark, CancelKill, Statuses
    <3> QED
      BY <3>1, <3>2, <3>3, <3>4, <3>5, <3>6, <3>7
  <2> QED
    BY <2>1, <2>2, <2>3, <2>4
<1> QED
  BY <1>1, <1>2, <1>3, <1>5, <1>6 DEF DataStep, DataInv

(* apply_selections under the lock. *)
LEMMA RollbackData ==
    ASSUME TypeInv, DataInv, NEW r \in Threads, owner = r, op.stage \in {"apply", "facets"},
           NEW status, status # "ok", Rollback(r, Reply(status)),
           UNCHANGED <<owner, revision, solution, cached, facets, known, baseline,
                       solutionCount, outcome, call>>
    PROVE  DataStep
<1>1. op.before = Selected
  BY DEF DataInv, OperationFits, AppliesBatch, Selected
<1>2. applied' = Selected /\ Restore(r, op.before, Reply(status))
  BY <1>1 DEF Rollback
<1>3. Reply(status).status # "ok"
  BY DEF Reply
<1>4. solutionCount' \in {None, CountModels(Selected)}
  BY DEF DataInv, StoreFits, CountExact
<1> QED
  BY <1>2, <1>3, <1>4, RestoreData DEF DataInv

LEMMA AdoptData ==
    ASSUME TypeInv, SyncInv, DataInv, NEW r \in Threads, InStage(r, "ask", {"apply"}),
           NEW p \in Models(op.target), NEW shown, shown = Displayed(p), Adopt(shown)
    PROVE  DataStep
<1>0. r # None
  BY SessionAssumption
<1>1. /\ owner = r /\ pc[r] = "ask" /\ op.stage = "apply"
      /\ UNCHANGED <<owner, pc, call, outcome, revision, solution, cached, facets, known,
                     baseline, solutionCount>>
  BY DEF InStage, Holds, At, Adopt
<1>2. /\ op'.stage = "facets" /\ op'.draft = shown
      /\ op'.before = op.before /\ op'.target = op.target
  BY DEF Adopt, TypeInv, TypeOK, Operations
<1>3. op.before = applied
  BY <1>1 DEF DataInv, OperationFits, AppliesBatch
<1>4. Selected' = Selected
  BY <1>1, <1>2, <1>3 DEF Selected
<1>5. StoreFits'
  BY <1>1, <1>4, StoreKept DEF DataInv
<1>6. AppliesBatch'
  BY <1>0, <1>1, <1>2
  DEF DataInv, OperationFits, AppliesBatch, Batch, IsApply, OwnerAt
<1>7. OperationFits'
  BY <1>0, <1>1, <1>2, <1>6
  DEF OperationFits, Busy, Previews, AnswersQuery, ReplyFits, Previewing
<1> QED
  BY <1>1, <1>4, <1>5, <1>7, SilenceHonest DEF DataStep, DataInv

LEMMA BeginData ==
    ASSUME TypeInv, DataInv, NEW r \in Threads, ApplyBegin(r)
    PROVE  DataStep
<1>0. r # None
  BY SessionAssumption
<1> DEFINE batch == call[r].batch
<1>1. /\ owner = None /\ owner' = r /\ IsApply(r) /\ Refusal(call[r]) = "none"
      /\ UNCHANGED <<applied, revision, solution, cached, facets, known, baseline,
                     solutionCount, outcome, call>>
  BY DEF ApplyBegin, selectionVars
<1>2. op.stage = "none" /\ Selected = applied
  BY <1>1, SelectedNow DEF DataInv, OperationFits, Busy
<1>3. batch \in Batches /\ batch \in Seq(Choices) /\ UpdatedSelections(applied, batch) \in Selections
  <2>1. batch \in Batches
    BY <1>1 DEF TypeInv, TypeOK, Calls, IsApply
  <2> QED
    BY <2>1, BatchesAssumption, UpdatedSelectionsTyped DEF TypeInv, TypeOK
<1>4. /\ op'.stage = "apply" /\ op'.before = applied
      /\ op'.target = UpdatedSelections(applied, batch)
  BY <1>3, NoOperationTyped DEF ApplyBegin, Operations, TypeInv, TypeOK
<1>5. FacetsAccepted(batch) /\ PreviousStatesHold(applied, batch)
  BY <1>1 DEF Refusal
<1>6. Active(UpdatedSelections(applied, batch)) \subseteq known
  <2>1. \A i \in DOMAIN batch : batch[i].facet \in known
    BY <1>5 DEF FacetsAccepted
  <2>2. Active(applied) \subseteq known /\ applied \in Selections
    BY <1>2 DEF DataInv, StoreFits, Catalogued, TypeInv, TypeOK
  <2> QED
    BY <1>3, <2>1, <2>2, ActiveOfBatch
<1>7. Selected' = Selected
  BY <1>1, <1>2, <1>4, SelectedThen
<1>8. StoreFits'
  BY <1>1, <1>7, StoreKept DEF DataInv
<1>9. AppliesBatch'
  BY <1>1, <1>4, <1>5, <1>6 DEF AppliesBatch, Batch, IsApply
<1>10. OperationFits'
  BY <1>0, <1>1, <1>4, <1>9
  DEF OperationFits, Busy, Previews, AnswersQuery, ReplyFits, Previewing
<1> QED
  BY <1>1, <1>7, <1>8, <1>10, SilenceHonest DEF DataStep, DataInv

LEMMA CommitData ==
    ASSUME TypeInv, SyncInv, DataInv, NEW r \in Threads, ApplyCommit(r)
    PROVE  DataStep
<1>0. r # None
  BY SessionAssumption
<1>1. /\ owner = r /\ pc[r] = "ask" /\ op.stage = "facets" /\ solver # None
      /\ Conclude(r, Reply("ok"))
      /\ facets' = ComposedFacets(solver, applied, op.draft, known)
      /\ known' = known \cup facets'.visible
      /\ solution' = op.draft /\ solutionCount' = None /\ cached' = {}
      /\ revision' = revision + 1 /\ applied' = applied /\ baseline' = baseline
  BY DEF ApplyCommit, InStage, Holds, At, CountAfterCommit, CacheAfterCommit
<1>2. applied = op.target /\ solver = applied
  BY <1>0, <1>1 DEF SyncInv, LoadedWithTarget, TargetApplied, OwnerAt
<1>3. /\ IsApply(r) /\ PreviousStatesHold(op.before, call[r].batch)
      /\ applied = UpdatedSelections(op.before, call[r].batch)
      /\ Active(applied) \subseteq known
      /\ \E p \in Models(applied) : op.draft = Displayed(p)
  BY <1>1, <1>2 DEF DataInv, OperationFits, AppliesBatch, Batch
<1>4. op'.stage = "none"
  BY <1>1, NoOperationTyped DEF Conclude
<1>5. Selected = op.before /\ Selected' = applied
  BY <1>1, <1>4, SelectedThen DEF Selected
<1>6. ViewFits'
  <2>1. facets' = View(applied, op.draft)
    BY <1>1, <1>2, <1>3, ComposedIsView
  <2> QED
    BY <1>1, <1>5, <2>1 DEF ViewFits
<1>7. StoreFits'
  <2>1. BaselineFits'
    BY <1>1 DEF DataInv, StoreFits, BaselineFits
  <2> QED
    BY <1>1, <1>3, <1>5, <1>6, <2>1
    DEF StoreFits, SolutionFits, CountExact, CacheFits, Catalogued
<1>8. OperationFits'
  BY <1>4, AtLeisure DEF Busy
<1>9. Honest
  <2>1. ~ IsQuery(r)
    BY <1>3 DEF IsQuery, IsApply
  <2> QED
    BY <1>1, <2>1, RespondHonest DEF Conclude
<1>10. call[r].batch \in Batches
  BY <1>3 DEF TypeInv, TypeOK, Calls, IsApply
<1>11. Committed(call[r].batch)
  BY <1>1, <1>3, <1>5 DEF Committed
<1> QED
  BY <1>7, <1>8, <1>9, <1>10, <1>11 DEF DataStep, DataInv

LEMMA ApplyData ==
    ASSUME TypeInv, SyncInv, DataInv, NEW r \in Threads,
           \/ ApplyBegin(r) \/ ApplySolve(r) \/ ApplyKeepBaseline(r)
           \/ ApplyFindsNoPlan(r) \/ ApplyCommit(r)
    PROVE  DataStep
<1>0. r # None
  BY SessionAssumption
<1>1. CASE ApplyBegin(r)
  BY <1>1, BeginData
<1>2. CASE ApplySolve(r)
  <2>1. /\ InStage(r, "ask", {"apply"}) /\ solver # None
        /\ \E p \in Models(solver) : Adopt(Displayed(p))
    BY <1>2 DEF ApplySolve
  <2>2. solver = op.target
    BY <1>0, <2>1
    DEF SyncInv, LoadedWithTarget, OwnerAt, RouteStages, InStage, Holds, At
  <2> QED
    BY <2>1, <2>2, AdoptData
<1>3. CASE ApplyKeepBaseline(r)
  <2>1. /\ InStage(r, "ask", {"apply"}) /\ op.target = NoSelections /\ Adopt(baseline)
    BY <1>3 DEF ApplyKeepBaseline, KeepsBaseline
  <2>2. PICK p \in Models(op.target) : baseline = Displayed(p)
    BY <2>1 DEF DataInv, StoreFits, BaselineFits
  <2> QED
    BY <2>1, <2>2, AdoptData
<1>4. CASE ApplyFindsNoPlan(r)
  <2>1. owner = r /\ op.stage = "apply" /\ Rollback(r, Reply("noPlan"))
        /\ UNCHANGED <<owner, revision, solution, cached, facets, known, baseline,
                       solutionCount, outcome, call>>
    BY <1>4 DEF ApplyFindsNoPlan, InStage, Holds
  <2> QED
    BY <2>1, RollbackData
<1>5. CASE ApplyCommit(r)
  BY <1>5, CommitData
<1> QED
  BY <1>1, <1>2, <1>3, <1>4, <1>5

(* Loading FASB. *)
LEMMA LoadData ==
    ASSUME TypeInv, SyncInv, DataInv, NEW t \in Threads,
           QueryBegin(t) \/ Restart(t) \/ Load(t) \/ Restored(t)
    PROVE  DataStep
<1>0. t # None
  BY SessionAssumption
<1>1. UNCHANGED <<applied, revision, solution, cached, facets, known, baseline,
                  solutionCount, call>>
  BY DEF QueryBegin, Restart, Load, Restored, selectionVars
<1>2. CASE QueryBegin(t)
  <2>1. /\ owner = None /\ owner' = t /\ IsQuery(t) /\ op'.stage = "answer"
        /\ outcome' = outcome
    BY <1>2, NoOperationTyped DEF QueryBegin, Operations
  <2>2. op.stage = "none"
    BY <2>1 DEF DataInv, OperationFits, Busy
  <2>3. Selected' = Selected
    BY <1>1, <2>1, <2>2, SelectedNow, SelectedThen
  <2>4. StoreFits'
    BY <1>1, <2>3, StoreKept DEF DataInv
  <2>5. OperationFits'
    BY <1>0, <1>1, <2>1
    DEF OperationFits, Busy, AppliesBatch, Previews, AnswersQuery, ReplyFits,
        Previewing, IsQuery
  <2> QED
    BY <1>1, <2>1, <2>3, <2>4, <2>5, SilenceHonest DEF DataStep, DataInv
<1>3. CASE Restart(t) \/ Load(t)
  <2>1. /\ owner = t /\ pc[t] \in {"restart", "load"}
        /\ UNCHANGED <<owner, op, outcome>>
    BY <1>3 DEF Restart, Load, Holds, At
  <2>2. op.stage # "facets"
    BY <1>0, <2>1 DEF SyncInv, ReloadsApplied, OwnerAt, RouteStages, ReloadStages
  <2>3. Selected' = Selected
    BY <1>1, <2>1 DEF Selected
  <2>4. StoreFits'
    BY <1>1, <2>3, StoreKept DEF DataInv
  <2>5. OperationFits'
    BY <1>1, <2>1, <2>2
    DEF DataInv, OperationFits, Busy, AppliesBatch, Previews, AnswersQuery, ReplyFits,
        Previewing, Batch, IsApply, IsQuery, Query, PreviewsImpact, Truthful
  <2> QED
    BY <1>1, <2>1, <2>3, <2>4, <2>5, SilenceHonest DEF DataStep, DataInv
<1>4. CASE Restored(t)
  <2>1. owner = t /\ op.stage = "restore" /\ Conclude(t, op.reply)
    BY <1>4 DEF Restored, InStage, Holds
  <2>2. IsQuery(t) /\ op.reply.status = "ok" => Truthful(Query(t), op.reply)
    BY <2>1 DEF DataInv, OperationFits, ReplyFits
  <2>3. StoreFits'
    <3>1. op'.stage = "none"
      BY <2>1, NoOperationTyped DEF Conclude
    <3>2. Selected' = Selected
      BY <1>1, <2>1, <3>1, SelectedNow, SelectedThen
    <3> QED
      BY <1>1, <3>2, StoreKept DEF DataInv
  <2> QED
    BY <1>1, <2>1, <2>2, <2>3, ConcludeData
<1> QED
  BY <1>2, <1>3, <1>4

(* Answers. *)
LEMMA Concluded ==
    ASSUME NEW t, NEW reply, Conclude(t, reply), op.stage # "facets", applied' = applied
    PROVE  Selected = applied /\ Selected' = applied
<1>1. op'.stage = "none"
  BY NoOperationTyped DEF Conclude
<1> QED
  BY <1>1, SelectedNow, SelectedThen

LEMMA TotalReply ==
    ASSUME NEW n
    PROVE  /\ [Reply("ok") EXCEPT !.total = n].total = n
           /\ [Reply("ok") EXCEPT !.plans = n].plans = n
BY DEF Reply

(* The number of solutions of an answer, from FASB or from the cache. *)
LEMMA SolutionCounts ==
    ASSUME NEW q, q.number \in Nat, NEW n \in Nat, NEW shown, NEW m \in Nat,
           n = CountModels(applied), m = Cardinality(shown),
           solutionCount \in {None, n},
           shown \subseteq Models(applied),
           IF n < Requested(q) THEN shown = Models(applied) ELSE m = Requested(q)
    PROVE  m = IF n < q.number THEN n ELSE q.number
<1>1. Requested(q) \in {n, q.number}
  BY DEF Requested
<1>2. CASE n < Requested(q)
  <2>1. Requested(q) = q.number
    BY <1>1, <1>2
  <2> QED
    BY <1>2, <2>1 DEF CountModels
<1>3. CASE ~ n < Requested(q)
  <2>1. m = Requested(q)
    BY <1>3
  <2>2. CASE solutionCount # None /\ solutionCount < q.number
    <3>1. Requested(q) = n /\ n < q.number
      BY <2>2 DEF Requested
    <3> QED
      BY <2>1, <3>1
  <2>3. CASE ~ (solutionCount # None /\ solutionCount < q.number)
    <3>1. Requested(q) = q.number
      BY <2>3 DEF Requested
    <3> QED
      BY <1>3, <2>1, <3>1
  <2> QED
    BY <2>2, <2>3
<1> QED
  BY <1>2, <1>3

LEMMA QueryTyped ==
    ASSUME TypeInv, NEW t \in Threads, IsQuery(t)
    PROVE  /\ Query(t) \in Queries
           /\ Query(t).type \in QueryTypes /\ Query(t).number \in Nat
           /\ Query(t).facet \in Facets \cup {None}
<1>1. Query(t) \in Queries
  BY DEF TypeInv, TypeOK, Calls, IsQuery, Query
<1> QED
  BY <1>1, SessionAssumption

LEMMA MemoryData ==
    ASSUME TypeInv, SyncInv, DataInv, NEW t \in Threads, AnswerFromMemory(t)
    PROVE  DataStep
<1>1. /\ owner = t /\ op.stage = "answer" /\ InMemory(Query(t))
      /\ UNCHANGED <<applied, revision, solution, cached, facets, known, baseline,
                     solutionCount>>
  BY DEF AnswerFromMemory, InStage, Holds, selectionVars
<1>2. IsQuery(t) /\ Selected = applied
  BY <1>1, SelectedNow DEF DataInv, OperationFits, AnswersQuery
<1>3. /\ solutionCount \in {None, CountModels(applied)} /\ cached \subseteq Models(applied)
  BY <1>2 DEF DataInv, StoreFits, CountExact, CacheFits
<1>4. ASSUME NEW reply, Conclude(t, reply),
             reply.status = "ok" => Truthful(Query(t), reply)
      PROVE  DataStep
  <2>1. StoreFits'
    BY <1>1, <1>4, Concluded, StoreKept DEF DataInv
  <2> QED
    BY <1>1, <1>4, <2>1, ConcludeData
<1>5. CASE Query(t).type = "solutionCount"
  <2> DEFINE reply == [Reply("ok") EXCEPT !.total = solutionCount]
  <2>1. Conclude(t, reply)
    BY <1>5 DEF AnswerFromMemory
  <2>2. reply.total = solutionCount /\ solutionCount # None
    BY <1>1, <1>5, TotalReply DEF InMemory
  <2>3. Truthful(Query(t), reply)
    BY <1>3, <1>5, <2>2 DEF Truthful
  <2> QED
    BY <1>4, <2>1, <2>3
<1>6. CASE Query(t).type = "solution"
  <2>1. PICK shown \in SUBSET cached :
           /\ Cardinality(shown) = Requested(Query(t))
           /\ Conclude(t, [Reply("ok") EXCEPT !.plans = shown])
    BY <1>6 DEF AnswerFromMemory
  <2> DEFINE q == Query(t)
             n == CountModels(applied)
  <2>2. q.number \in Nat /\ n \in Nat /\ IsFiniteSet(Models(applied))
    BY <1>2, QueryTyped, ModelsTyped
  <2>3. IsFiniteSet(shown) /\ Cardinality(shown) <= n /\ Cardinality(shown) \in Nat
        /\ shown \subseteq Models(applied)
    BY <1>3, <2>1, <2>2, FS_Subset, FS_CardinalityType DEF CountModels
  <2>4. ~ n < Requested(q)
    BY <2>1, <2>2, <2>3
  <2>5. Cardinality(shown) = IF n < q.number THEN n ELSE q.number
    BY <1>3, <2>1, <2>2, <2>3, <2>4, SolutionCounts
  <2>6. Truthful(q, [Reply("ok") EXCEPT !.plans = shown])
    BY <1>6, <2>3, <2>5, TotalReply DEF Truthful
  <2> QED
    BY <1>4, <2>1, <2>6
<1>7. CASE Query(t).type \notin {"solutionCount", "solution"}
  <2>1. Conclude(t, Reply("invalid"))
    BY <1>7 DEF AnswerFromMemory
  <2>2. Reply("invalid").status # "ok"
    BY DEF Reply
  <2> QED
    BY <1>4, <2>1, <2>2
<1> QED
  BY <1>5, <1>6, <1>7

LEMMA AnswerData ==
    ASSUME TypeInv, SyncInv, DataInv, NEW t \in Threads,
           AnswerProbe(t) \/ AnswerFacets(t) \/ AnswerCount(t) \/ AnswerSolutions(t)
    PROVE  DataStep
<1>0. t # None
  BY SessionAssumption
<1>1. /\ owner = t /\ pc[t] = "ask" /\ op.stage = "answer" /\ solver # None
      /\ UNCHANGED <<applied, revision, solution, baseline>>
  BY DEF AnswerProbe, AnswerFacets, AnswerCount, AnswerSolutions, Answers, InStage,
         Holds, At, selectionVars
<1>2. IsQuery(t) /\ Selected = applied /\ solver = applied
  BY <1>0, <1>1, SelectedNow
  DEF DataInv, OperationFits, AnswersQuery, SyncInv, InSyncAtRest, AtRest, OwnerAt
<1>3. /\ solutionCount \in {None, CountModels(applied)} /\ cached \subseteq Models(applied)
      /\ Active(applied) \subseteq known
  BY <1>2 DEF DataInv, StoreFits, CountExact, CacheFits, Catalogued
<1>4. ASSUME NEW reply, Conclude(t, reply), StoreFits',
             reply.status = "ok" => Truthful(Query(t), reply)
      PROVE  DataStep
  BY <1>1, <1>4, ConcludeData
<1>5. Query(t).number \in Nat /\ CountModels(applied) \in Nat
      /\ IsFiniteSet(Models(applied))
  BY <1>2, QueryTyped, ModelsTyped
<1>6. CASE AnswerProbe(t)
  <2>1. Conclude(t, Reply("ok")) /\ Query(t).type = "probe"
        /\ UNCHANGED <<cached, facets, known, solutionCount>>
    BY <1>6 DEF AnswerProbe, Answers, selectionVars
  <2>2. StoreFits'
    BY <1>1, <2>1, Concluded, StoreKept DEF DataInv
  <2> QED
    BY <1>4, <2>1, <2>2 DEF Truthful
<1>7. CASE AnswerFacets(t)
  <2>1. /\ Conclude(t, Reply("ok")) /\ Query(t).type = "facets"
        /\ facets' = ComposedFacets(solver, applied, solution, known)
        /\ known' = known \cup facets'.visible
        /\ UNCHANGED <<cached, solutionCount>>
    BY <1>7 DEF AnswerFacets, Answers
  <2>2. facets' = View(applied, solution)
    BY <1>2, <1>3, <2>1, ComposedIsView
  <2>3. Selected' = applied /\ Selected = applied
    BY <1>1, <2>1, Concluded
  <2>4. StoreFits'
    BY <1>1, <1>3, <2>1, <2>2, <2>3
    DEF DataInv, StoreFits, SolutionFits, ViewFits, CountExact, CacheFits, BaselineFits,
        Catalogued
  <2> QED
    BY <1>4, <2>1, <2>4 DEF Truthful
<1>8. CASE AnswerCount(t)
  <2>1. Query(t).type = "solutionCount" /\ UNCHANGED <<cached, facets, known>>
    BY <1>8 DEF AnswerCount, Answers, selectionVars
  <2>2. CASE Conclude(t, Reply("noPlan")) /\ UNCHANGED solutionCount
    <3>1. StoreFits'
      BY <1>1, <2>1, <2>2, Concluded, StoreKept DEF DataInv
    <3>2. Reply("noPlan").status # "ok"
      BY DEF Reply
    <3> QED
      BY <1>4, <2>2, <3>1, <3>2
  <2>3. CASE /\ solutionCount' = CountModels(solver)
             /\ Conclude(t, [Reply("ok") EXCEPT !.total = CountModels(solver)])
    <3>1. Selected' = applied /\ Selected = applied
      BY <1>1, <2>3, Concluded
    <3>2. StoreFits'
      BY <1>1, <1>2, <2>1, <2>3, <3>1
      DEF DataInv, StoreFits, SolutionFits, ViewFits, CountExact, CacheFits, BaselineFits,
          Catalogued
    <3>3. Truthful(Query(t), [Reply("ok") EXCEPT !.total = CountModels(solver)])
      BY <1>2, <2>1, TotalReply DEF Truthful
    <3> QED
      BY <1>4, <2>3, <3>2, <3>3
  <2> QED
    BY <1>8, <2>2, <2>3 DEF AnswerCount
<1>9. CASE AnswerSolutions(t)
  <2> DEFINE q == Query(t)
             n == CountModels(applied)
  <2>1. q.type = "solution" /\ UNCHANGED <<facets, known>>
    BY <1>9 DEF AnswerSolutions, Answers
  <2>2. PICK shown \in SUBSET Models(applied) :
           /\ IF n < Requested(q) THEN shown = Models(applied)
              ELSE Cardinality(shown) = Requested(q)
           /\ solutionCount' = CountAfterSolutions(shown, Requested(q))
           /\ cached' = shown
           /\ Conclude(t, [Reply("ok") EXCEPT !.plans = shown])
    BY <1>2, <1>9 DEF AnswerSolutions
  <2>3. IsFiniteSet(shown) /\ Cardinality(shown) \in Nat
    BY <1>5, FS_Subset, FS_CardinalityType
  <2>4. Cardinality(shown) = IF n < q.number THEN n ELSE q.number
    BY <1>3, <1>5, <2>2, <2>3, SolutionCounts
  <2>5. Truthful(q, [Reply("ok") EXCEPT !.plans = shown])
    BY <2>1, <2>2, <2>4, TotalReply DEF Truthful
  <2>6. solutionCount' \in {None, n}
    <3>1. CASE n < Requested(q)
      BY <1>3, <2>2, <3>1 DEF CountAfterSolutions, CountModels
    <3>2. CASE ~ n < Requested(q)
      <4>1. ~ Cardinality(shown) < Requested(q)
        BY <2>2, <2>3, <3>2
      <4> QED
        BY <1>3, <2>2, <4>1 DEF CountAfterSolutions
    <3> QED
      BY <3>1, <3>2
  <2>7. Selected' = applied /\ Selected = applied
    BY <1>1, <2>2, Concluded
  <2>8. StoreFits'
    BY <1>1, <2>1, <2>2, <2>6, <2>7
    DEF DataInv, StoreFits, SolutionFits, ViewFits, CountExact, CacheFits, BaselineFits,
        Catalogued
  <2> QED
    BY <1>4, <2>2, <2>5, <2>8
<1> QED
  BY <1>6, <1>7, <1>8, <1>9

LEMMA AmendedReply ==
    ASSUME NEW reply \in Replies, NEW n, NEW m
    PROVE  /\ [reply EXCEPT !.total = n].total = n
           /\ [reply EXCEPT !.total = n].require = reply.require
           /\ [reply EXCEPT !.total = n].forbid = reply.forbid
           /\ [reply EXCEPT !.total = n].status = reply.status
           /\ [reply EXCEPT !.forbid = m, !.total = n].total = n
           /\ [reply EXCEPT !.forbid = m, !.total = n].require = reply.require
           /\ [reply EXCEPT !.forbid = m, !.total = n].forbid = m
BY DEF Replies

LEMMA RequireReply ==
    ASSUME NEW n
    PROVE  /\ [Reply("ok") EXCEPT !.require = n].require = n
           /\ [Reply("ok") EXCEPT !.require = n].total = None
           /\ [Reply("ok") EXCEPT !.require = n].forbid = None
BY DEF Reply

(* A preview loads the route it announces, and its reply says what FASB    *)
(* has counted; the routes are the two halves of the plan space.           *)
LEMMA ImpactData ==
    ASSUME TypeInv, SyncInv, DataInv, NEW t \in Threads,
           ImpactBegin(t) \/ ImpactRequired(t) \/ ImpactForbidden(t) \/ ImpactTried(t)
    PROVE  DataStep
<1> DEFINE q == Query(t)
           f == Query(t).facet
<1>0. t # None
  BY SessionAssumption
<1>1. /\ owner = t /\ owner' = t /\ pc[t] = "ask" /\ op.stage # "facets"
      /\ UNCHANGED <<applied, revision, solution, cached, facets, known, baseline,
                     outcome, call>>
  BY DEF ImpactBegin, ImpactRequired, ImpactForbidden, ImpactTried, Answers, InStage,
         Holds, At, selectionVars
<1>2. /\ Selected = applied /\ StoreFits /\ op.reply \in Replies /\ applied \in Selections
      /\ solutionCount \in {None, CountModels(applied)}
  BY <1>1, SelectedNow DEF DataInv, StoreFits, CountExact, TypeInv, TypeOK, Operations
<1>3. CASE ImpactBegin(t)
  <2>1. /\ op.stage = "answer" /\ q.type = "selectionImpact" /\ ~ InMemory(q)
        /\ StartRoute(t, "require", RequireRoute(applied, f), Reply("ok"))
        /\ solutionCount' = solutionCount
    BY <1>3 DEF ImpactBegin, Answers, InStage, Holds
  <2>2. PreviewsImpact(t)
    BY <1>1, <2>1 DEF DataInv, OperationFits, AnswersQuery, PreviewsImpact
  <2>3. f \in Facets
    BY <2>1 DEF InMemory, TypeInv, TypeOK
  <2> QED
    BY <1>1, <1>2, <2>1, <2>2, <2>3, FreshReply, PreviewData DEF Previewing, Requiring
<1>4. ASSUME op.stage \in Previewing
      PROVE  /\ PreviewsImpact(t) /\ f \in Facets /\ q.type = "selectionImpact"
             /\ op.stage \notin Requiring => op.target = ForbidRoute(applied, f)
             /\ op.stage \in Requiring => op.target = RequireRoute(applied, f)
             /\ op.stage = "forbid" =>
                  op.reply.require = CountModels(RequireRoute(applied, f))
             /\ op.reply.status = "ok" => Truthful(q, op.reply)
  BY <1>1, <1>4
  DEF DataInv, OperationFits, Previews, ReplyFits, PreviewsImpact
<1>5. ASSUME op.stage \in Previewing, solver # None PROVE solver = op.target
  BY <1>0, <1>1, <1>5 DEF SyncInv, LoadedWithTarget, OwnerAt, RouteStages, Previewing
<1>6. CASE ImpactRequired(t)
  <2> DEFINE reply == [Reply("ok") EXCEPT !.require = CountModels(solver)]
  <2>1. /\ op.stage = "require" /\ solver # None
        /\ StartRoute(t, "forbid", ForbidRoute(applied, f), reply)
        /\ solutionCount' = solutionCount
    BY <1>6 DEF ImpactRequired, InStage, Holds
  <2>2. solver = RequireRoute(applied, f)
    BY <1>4, <1>5, <2>1 DEF Previewing, Requiring
  <2>3. reply.require = CountModels(RequireRoute(applied, f))
        /\ reply.total = None /\ reply.forbid = None
    BY <2>2, RequireReply
  <2>4. Truthful(q, reply)
    BY <1>4, <2>1, <2>3 DEF Truthful, Previewing
  <2> HIDE DEF reply
  <2> QED
    BY <1>1, <1>2, <1>4, <2>1, <2>3, <2>4, PreviewData DEF Previewing, Requiring
<1>7. CASE ImpactForbidden(t)
  <2> DEFINE forbid == CountModels(solver)
             sum    == op.reply.require + forbid
             total  == IF Comparable(applied, f) THEN sum ELSE None
             reply  == [op.reply EXCEPT !.forbid = forbid, !.total = total]
  <2>1. /\ op.stage = "forbid" /\ solver # None
        /\ solutionCount' = IF total # None /\ sum > 0 THEN total ELSE solutionCount
        /\ Restore(t, applied, reply)
    BY <1>7 DEF ImpactForbidden, InStage, Holds
  <2>2. solver = ForbidRoute(applied, f)
        /\ op.reply.require = CountModels(RequireRoute(applied, f))
    BY <1>4, <1>5, <2>1 DEF Previewing, Requiring
  <2>3. total \in {None, CountModels(applied)}
    <3>1. CASE Comparable(applied, f)
      <4>1. f \in Facets
        BY <1>4, <2>1 DEF Previewing
      <4>2. sum = CountModels(applied)
        BY <1>2, <2>2, <3>1, <4>1, ImpactPartition
      <4> QED
        BY <3>1, <4>2
    <3> QED
      BY <3>1
  <2>4. solutionCount' \in {None, CountModels(applied)}
    BY <1>2, <2>1, <2>3
  <2>5. /\ reply.total = total /\ reply.forbid = forbid
        /\ reply.require = op.reply.require
    BY <1>2, AmendedReply
  <2>6. Truthful(q, reply)
    <3>1. q.type = "selectionImpact"
      BY <1>4, <2>1 DEF Previewing
    <3> QED
      BY <2>2, <2>3, <2>5, <3>1 DEF Truthful
  <2> HIDE DEF reply, total, sum, forbid
  <2> QED
    BY <1>1, <1>2, <2>1, <2>4, <2>6, RestoreData
<1>8. CASE ImpactTried(t)
  <2>1. op.stage \in {"tryRequire", "tryForbid"} /\ solutionCount' = solutionCount
    BY <1>8 DEF ImpactTried, InStage, Holds
  <2>2. CASE op.stage = "tryRequire"
    <3>1. StartRoute(t, "tryForbid", ForbidRoute(applied, f), op.reply)
      BY <1>8, <2>2 DEF ImpactTried
    <3> QED
      BY <1>1, <1>2, <1>4, <2>1, <2>2, <3>1, PreviewData DEF Previewing, Requiring
  <2>3. CASE op.stage = "tryForbid"
    <3> DEFINE total == IF Comparable(applied, f) THEN solutionCount ELSE None
               reply == [op.reply EXCEPT !.total = total]
    <3>1. Restore(t, applied, reply)
      BY <1>8, <2>3 DEF ImpactTried
    <3>2. /\ reply.total = total /\ reply.forbid = op.reply.forbid
          /\ reply.require = op.reply.require /\ reply.status = op.reply.status
      BY <1>2, AmendedReply
    <3>3. reply.status = "ok" => Truthful(q, reply)
      <4>1. q.type = "selectionImpact" /\ (op.reply.status = "ok" => Truthful(q, op.reply))
        BY <1>4, <2>3 DEF Previewing
      <4>2. total \in {None, CountModels(applied)}
        BY <1>2
      <4> HIDE DEF reply, total
      <4> QED
        BY <3>2, <4>1, <4>2 DEF Truthful
    <3> HIDE DEF reply
    <3> QED
      BY <1>1, <1>2, <2>1, <3>1, <3>3, RestoreData
  <2> QED
    BY <2>1, <2>2, <2>3
<1> QED
  BY <1>3, <1>6, <1>7, <1>8

(* Errors: the batch is taken back as a whole, a count that takes too long *)
(* becomes a search for a plan, and every other preview is given up.       *)
LEMMA FailureData ==
    ASSUME TypeInv, SyncInv, DataInv, NEW t \in Threads, CallFails(t)
    PROVE  DataStep
<1> DEFINE q == Query(t)
           f == Query(t).facet
<1>1. PICK why \in {"capacity", "error"} :
         FailApply(t, why) \/ FailAnswer(t, why) \/ FailImpact(t, why)
           \/ FailRestore(t, why)
  BY DEF CallFails
<1>2. /\ owner = t
      /\ UNCHANGED <<revision, solution, cached, facets, known, baseline,
                     solutionCount, call>>
  BY <1>1
  DEF FailApply, FailAnswer, FailImpact, FailRestore, Fails, CallsService, InStage,
      Holds, selectionVars
<1>3. StoreFits /\ Reply(why).status # "ok"
  BY DEF DataInv, Reply
<1>4. ASSUME op.stage # "facets", applied' = applied
      PROVE  Selected = applied /\ solutionCount' \in {None, CountModels(Selected)}
             /\ applied' = Selected
  BY <1>2, <1>3, <1>4, SelectedNow DEF StoreFits, CountExact
<1>5. CASE FailApply(t, why)
  <2>1. /\ op.stage \in {"apply", "facets"} /\ Rollback(t, Reply(why))
        /\ UNCHANGED <<owner, outcome>>
    BY <1>5 DEF FailApply
  <2> QED
    BY <1>2, <2>1, RollbackData
<1>6. CASE FailAnswer(t, why)
  <2>1. op.stage = "answer" /\ applied' = applied
    BY <1>6 DEF FailAnswer, selectionVars
  <2>2. CASE Restore(t, applied, Reply(why)) /\ UNCHANGED <<owner, outcome>>
    BY <1>2, <1>3, <1>4, <2>1, <2>2, RestoreData
  <2>3. CASE Conclude(t, Reply(why))
    <3>1. StoreFits'
      BY <1>2, <1>3, <2>1, <2>3, Concluded, StoreKept
    <3> QED
      BY <1>2, <1>3, <2>1, <2>3, <3>1, ConcludeData
  <2> QED
    BY <1>6, <2>2, <2>3 DEF FailAnswer
<1>7. CASE FailImpact(t, why)
  <2>1. op.stage \in Previewing /\ applied' = applied /\ UNCHANGED <<owner, outcome>>
    BY <1>7 DEF FailImpact, selectionVars, Previewing
  <2>2. op.stage # "facets"
    BY <2>1 DEF Previewing
  <2>3. CASE StartRoute(t, "tryRequire", RequireRoute(applied, f), Reply("ok"))
    <3>1. PreviewsImpact(t) /\ f \in Facets /\ q.type = "selectionImpact"
      BY <1>2, <2>1 DEF DataInv, OperationFits, Previews, PreviewsImpact
    <3> QED
      BY <1>2, <1>3, <2>1, <2>2, <2>3, <3>1, FreshReply, PreviewData
      DEF Previewing, Requiring
  <2>4. CASE Restore(t, applied, Reply(why))
    BY <1>2, <1>3, <1>4, <2>1, <2>2, <2>4, RestoreData
  <2> QED
    BY <1>7, <2>3, <2>4 DEF FailImpact
<1>8. CASE FailRestore(t, why)
  <2>1. op.stage \in {"restore", "recover"} /\ applied' = applied
    BY <1>8 DEF FailRestore, selectionVars
  <2>2. CASE FinishJob(t) /\ UNCHANGED outcome
    BY <1>2, <2>1, <2>2, FinishData
  <2>3. CASE op.stage = "restore"
    <3> DEFINE reply == IF PreviewsImpact(t) THEN Reply("capacity") ELSE op.reply
    <3>1. Conclude(t, reply)
      BY <1>8, <2>3 DEF FailRestore
    <3>2. StoreFits'
      BY <1>2, <1>3, <2>1, <3>1, Concluded, StoreKept
    <3>3. Reply("capacity").status # "ok"
      BY DEF Reply
    <3>4. IsQuery(t) /\ reply.status = "ok" => Truthful(q, reply)
      BY <1>2, <2>3, <3>3 DEF DataInv, OperationFits, ReplyFits
    <3> HIDE DEF reply
    <3> QED
      BY <1>2, <2>1, <3>1, <3>2, <3>4, ConcludeData
  <2> QED
    BY <1>8, <2>1, <2>2, <2>3 DEF FailRestore
<1> QED
  BY <1>1, <1>5, <1>6, <1>7, <1>8

(* The job thread under the lock. *)
LEMMA JobData ==
    ASSUME TypeInv, SyncInv, DataInv, NEW j \in Jobs,
           JobRecord(j) \/ JobSettle(j) \/ Recovered(j)
    PROVE  DataStep
<1>0. j \in Threads /\ j # None
  BY SessionAssumption DEF Threads
<1>1. UNCHANGED <<applied, revision, solution, cached, facets, known, baseline,
                  solutionCount, outcome, call>> /\ owner = j
  BY DEF JobRecord, JobSettle, Recovered, selectionVars, InStage, Holds
<1>2. op.stage # "facets"
  <2>1. pc[j] # "ask"
    BY DEF JobRecord, JobSettle, Recovered, InStage, Holds, At
  <2> QED
    BY <1>1, <2>1 DEF DataInv, OperationFits, AppliesBatch, OwnerAt
<1>3. CASE JobRecord(j)
  <2>1. UNCHANGED <<owner, op>>
    BY <1>3 DEF JobRecord
  <2>2. Selected' = Selected
    BY <1>1, <2>1 DEF Selected
  <2>3. StoreFits'
    BY <1>1, <2>2, StoreKept DEF DataInv
  <2>4. OperationFits'
    BY <1>1, <1>2, <2>1
    DEF DataInv, OperationFits, Busy, AppliesBatch, Previews, AnswersQuery, ReplyFits,
        Previewing, Batch, IsApply, IsQuery, Query, PreviewsImpact, Truthful
  <2> QED
    BY <1>1, <2>2, <2>3, <2>4, SilenceHonest DEF DataStep, DataInv
<1>4. CASE JobSettle(j)
  <2>1. CASE FinishJob(j)
    BY <1>1, <1>2, <2>1, FinishData
  <2>2. CASE jobs[j].cancel /\ ~ stopping
    <3>1. op'.stage = "recover" /\ owner' = owner
      BY <1>4, <2>2, NoOperationTyped DEF JobSettle, Operations
    <3>2. Selected' = Selected
      BY <1>1, <1>2, <3>1, SelectedNow, SelectedThen
    <3>3. StoreFits'
      BY <1>1, <3>2, StoreKept DEF DataInv
    <3>4. OperationFits'
      BY <1>0, <1>1, <3>1, AtLeisure DEF Busy
    <3> QED
      BY <1>1, <3>2, <3>3, <3>4, SilenceHonest DEF DataStep, DataInv
  <2> QED
    BY <1>4, <2>1, <2>2 DEF JobSettle
<1>5. CASE Recovered(j)
  <2>1. FinishJob(j)
    BY <1>5 DEF Recovered
  <2> QED
    BY <1>1, <1>2, <2>1, FinishData
<1> QED
  BY <1>3, <1>4, <1>5

-----------------------------------------------------------------------------
(* Where a thread goes in an operation under the lock; a job never leaves  *)
(* before it has recorded its result.                                      *)
Working == {"lock", "restart", "load", "ask", "record"}

LEMMA ConcludeMoves ==
    ASSUME NEW t, NEW reply, Conclude(t, reply)
    PROVE  GoTo(t, "record") \/ (t \notin Jobs /\ GoTo(t, "done"))
BY DEF Conclude

LEMMA RouteMoves ==
    ASSUME NEW t, NEW stage, NEW target, NEW reply, StartRoute(t, stage, target, reply)
    PROVE  GoTo(t, "restart")
BY DEF StartRoute

LEMMA OperationMoves ==
    ASSUME NEW t,
           \/ ApplyBegin(t) \/ ApplySolve(t) \/ ApplyKeepBaseline(t)
           \/ ApplyFindsNoPlan(t) \/ ApplyCommit(t) \/ Operate(t)
    PROVE  /\ call' = call /\ table' = table /\ pc[t] \in Working
           /\ \/ jobs' = jobs /\ pc' = pc
              \/ jobs' = jobs /\ \E place \in Working : GoTo(t, place)
              \/ jobs' = jobs /\ t \notin Jobs /\ GoTo(t, "done")
              \/ FinishJob(t)
<1>1. CASE \/ ApplyBegin(t) \/ ApplySolve(t) \/ ApplyKeepBaseline(t)
           \/ ApplyFindsNoPlan(t) \/ ApplyCommit(t)
  <2>1. call' = call /\ table' = table /\ jobs' = jobs /\ pc[t] \in Working
    BY <1>1 DEF ApplyBegin, ApplySolve, ApplyKeepBaseline, ApplyFindsNoPlan, ApplyCommit,
                Adopt, InStage, Holds, At, jobVars, Working
  <2>2. pc' = pc \/ (\E place \in Working : GoTo(t, place)) \/ (t \notin Jobs /\ GoTo(t, "done"))
    BY <1>1, ConcludeMoves, RouteMoves
    DEF ApplyBegin, ApplySolve, ApplyKeepBaseline, ApplyFindsNoPlan, ApplyCommit, Adopt,
        Rollback, Restore, Working
  <2> QED
    BY <2>1, <2>2
<1>2. CASE QueryBegin(t) \/ Restart(t) \/ Load(t) \/ Restored(t)
  <2>1. call' = call /\ table' = table /\ jobs' = jobs /\ pc[t] \in Working
    BY <1>2 DEF QueryBegin, Restart, Load, Restored, InStage, Holds, At, jobVars, Working
  <2>2. (\E place \in Working : GoTo(t, place)) \/ (t \notin Jobs /\ GoTo(t, "done"))
    BY <1>2, ConcludeMoves DEF QueryBegin, Restart, Load, Restored, Working
  <2> QED
    BY <2>1, <2>2
<1>3. CASE \/ AnswerFromMemory(t) \/ AnswerProbe(t) \/ AnswerFacets(t)
           \/ AnswerCount(t) \/ AnswerSolutions(t)
  <2>1. call' = call /\ table' = table /\ jobs' = jobs /\ pc[t] \in Working
    BY <1>3 DEF AnswerFromMemory, AnswerProbe, AnswerFacets, AnswerCount, AnswerSolutions,
                Answers, InStage, Holds, At, jobVars, Working
  <2>2. \E reply : Conclude(t, reply)
    BY <1>3 DEF AnswerFromMemory, AnswerProbe, AnswerFacets, AnswerCount, AnswerSolutions
  <2> QED
    BY <2>1, <2>2, ConcludeMoves DEF Working
<1>4. CASE ImpactBegin(t) \/ ImpactRequired(t) \/ ImpactForbidden(t) \/ ImpactTried(t)
  <2>1. call' = call /\ table' = table /\ jobs' = jobs /\ pc[t] \in Working
    BY <1>4 DEF ImpactBegin, ImpactRequired, ImpactForbidden, ImpactTried, Answers, InStage,
                Holds, At, jobVars, Working
  <2>2. GoTo(t, "restart")
    BY <1>4, RouteMoves DEF ImpactBegin, ImpactRequired, ImpactForbidden, ImpactTried, Restore
  <2> QED
    BY <2>1, <2>2 DEF Working
<1>5. CASE CallFails(t)
  <2>1. PICK why : \/ FailApply(t, why) \/ FailAnswer(t, why) \/ FailImpact(t, why)
                   \/ FailRestore(t, why)
    BY <1>5 DEF CallFails
  <2>2. pc[t] \in Working
    BY <2>1 DEF FailApply, FailAnswer, FailImpact, FailRestore, Fails, CallsService, InStage,
                Holds, At, Working
  <2>3. call' = call /\ table' = table
    BY <2>1 DEF FailApply, FailAnswer, FailImpact, FailRestore, jobVars
  <2>4. CASE FailApply(t, why) \/ FailAnswer(t, why) \/ FailImpact(t, why)
    <3>1. jobs' = jobs
      BY <2>4 DEF FailApply, FailAnswer, FailImpact, jobVars
    <3>2. GoTo(t, "restart") \/ \E reply : Conclude(t, reply)
      BY <2>4, RouteMoves DEF FailApply, FailAnswer, FailImpact, Rollback, Restore
    <3> QED
      BY <2>2, <2>3, <3>1, <3>2, ConcludeMoves DEF Working
  <2>5. CASE FailRestore(t, why)
    <3>1. FinishJob(t) \/ (jobs' = jobs /\ \E reply : Conclude(t, reply))
      BY <2>5 DEF FailRestore
    <3> QED
      BY <2>2, <2>3, <3>1, ConcludeMoves DEF Working
  <2> QED
    BY <2>1, <2>4, <2>5
<1> QED
  BY <1>1, <1>2, <1>3, <1>4, <1>5 DEF Operate

(* A request that stops or cancels was sent to do so. *)
LEMMA CallsKept ==
    ASSUME TypeInv, CallsFit, NEW t \in Threads, call' = call,
           \/ pc' = pc
           \/ \E place \in Places \ {"stop", "stopKill", "stopWait", "mark", "kill"} :
                GoTo(t, place)
    PROVE  CallsFit'
BY DEF CallsFit, GoTo, TypeInv, TypeOK, Threads

LEMMA NextCalls ==
    ASSUME TypeInv, CallsFit, Next
    PROVE  CallsFit'
<1> USE DEF Places, InSession
<1>1. ASSUME NEW t \in Threads,
             \/ ApplyBegin(t) \/ ApplySolve(t) \/ ApplyKeepBaseline(t)
             \/ ApplyFindsNoPlan(t) \/ ApplyCommit(t) \/ Operate(t) \/ Recovered(t)
      PROVE  CallsFit'
  <2>1. call' = call
    BY <1>1, OperationMoves DEF Recovered
  <2>2. \/ pc' = pc
        \/ \E place \in Places \ {"stop", "stopKill", "stopWait", "mark", "kill"} :
                GoTo(t, place)
    BY <1>1, OperationMoves DEF Recovered, FinishJob, Working
  <2> QED
    BY <2>1, <2>2, CallsKept
<1>2. ASSUME NEW j \in Jobs, JobBegin(j) \/ JobRecord(j) \/ JobSettle(j)
      PROVE  CallsFit'
  <2>1. call' = call
        /\ \E place \in Places \ {"stop", "stopKill", "stopWait", "mark", "kill"} :
                GoTo(j, place)
    BY <1>2 DEF JobBegin, JobRecord, JobSettle, FinishJob
  <2> QED
    BY <2>1, CallsKept DEF Threads
<1>3. ASSUME NEW r \in Requests, StartCheck(r) \/ ApplyRefused(r) \/ DropUnavailable(r)
      PROVE  CallsFit'
  <2>1. call' = call
        /\ \E place \in Places \ {"stop", "stopKill", "stopWait", "mark", "kill"} :
                GoTo(r, place)
    BY <1>3 DEF StartCheck, ApplyRefused, DropUnavailable
  <2> QED
    BY <2>1, CallsKept DEF Threads
<1>4. ASSUME NEW r \in Requests,
             \/ StopMark(r) \/ StopKill(r) \/ StopFinish(r)
             \/ CancelMark(r) \/ CancelKill(r)
      PROVE  CallsFit'
  <2>1. /\ call' = call
        /\ \/ pc[r] \in {"stop", "stopKill", "stopWait"}
                /\ \E place \in {"stopKill", "stopWait", "done"} : GoTo(r, place)
           \/ pc[r] \in {"mark", "kill"} /\ \E place \in {"kill", "done"} : GoTo(r, place)
    BY <1>4 DEF StopMark, StopKill, StopFinish, CancelMark, CancelKill, At
  <2> QED
    BY <2>1 DEF CallsFit, GoTo, TypeInv, TypeOK, Threads
<1>5. ASSUME NEW r \in Requests, Enter(r) \/ Retire(r)
      PROVE  CallsFit'
  <2>1. ASSUME NEW c, NEW place, call' = [call EXCEPT ![r] = c], GoTo(r, place),
               place \in {"stop", "stopKill", "stopWait"} => c.kind = "stop",
               place \in {"mark", "kill"} => c.kind = "cancel"
        PROVE  CallsFit'
    BY <2>1 DEF CallsFit, GoTo, TypeInv, TypeOK, Threads
  <2>2. CASE Enter(r)
    <3>1. PICK c : call' = [call EXCEPT ![r] = c] /\ GoTo(r, FirstPlace(c.kind))
      BY <2>2 DEF Enter
    <3>2. FirstPlace(c.kind) \in {"check", "mark", "lock"}
          /\ (FirstPlace(c.kind) = "mark" => c.kind = "cancel")
      BY DEF FirstPlace
    <3> QED
      BY <2>1, <3>1, <3>2
  <2>3. CASE Retire(r)
    BY <2>1, <2>3 DEF Retire
  <2> QED
    BY <1>5, <2>2, <2>3
<1>6. ASSUME NEW r \in Requests, StartCreate(r)
      PROVE  CallsFit'
  <2>1. CASE GoTo(r, "done") /\ call' = call
    BY <2>1, CallsKept DEF Threads
  <2>2. CASE \E j \in Jobs :
                /\ call' = [call EXCEPT ![j] = [kind |-> "query", query |-> call[r].query]]
                /\ pc' = [pc EXCEPT ![r] = "done", ![j] = "begin"]
    BY <2>2, SessionAssumption DEF CallsFit, TypeInv, TypeOK, Threads
  <2> QED
    BY <1>6, <2>1, <2>2, Created
<1> QED
  BY <1>1, <1>2, <1>3, <1>4, <1>5, <1>6 DEF Next, Arrive, RequestStep, JobStep, Threads

-----------------------------------------------------------------------------
LEMMA NextData ==
    ASSUME TypeInv, SyncInv, DataInv, CallsFit, [Next]_vars
    PROVE  DataStep /\ CallsFit'
<1>1. CASE UNCHANGED vars
  <2>1. UNCHANGED <<applied, revision, solution, cached, facets, known, baseline,
                    solutionCount, outcome, call, op, owner, pc>>
    BY <1>1 DEF vars
  <2>2. Selected' = Selected
    BY <2>1 DEF Selected
  <2>3. StoreFits'
    BY <2>1, <2>2, StoreKept DEF DataInv
  <2>4. OperationFits'
    BY <2>1
    DEF DataInv, OperationFits, Busy, AppliesBatch, Previews, AnswersQuery, ReplyFits,
        Previewing, Batch, IsApply, IsQuery, Query, PreviewsImpact, Truthful, OwnerAt
  <2>5. CallsFit'
    BY <2>1 DEF CallsFit
  <2> QED
    BY <2>1, <2>2, <2>3, <2>4, <2>5, SilenceHonest DEF DataStep, DataInv
<1>2. ASSUME NEW t \in Threads, Operate(t) PROVE DataStep
  BY <1>2, LoadData, MemoryData, AnswerData, ImpactData, FailureData DEF Operate
<1>3. ASSUME NEW r \in Requests, Arrive(r) \/ RequestStep(r) PROVE DataStep
  BY <1>2, <1>3, OutsideData, ApplyData DEF RequestStep, Threads
<1>4. ASSUME NEW j \in Jobs, JobStep(j) PROVE DataStep
  BY <1>2, <1>4, OutsideData, JobData DEF JobStep, Threads
<1> QED
  BY <1>1, <1>3, <1>4, NextCalls DEF Next

LEMMA InitCalls == Init => CallsFit
BY DEF Init, CallsFit, Threads

DataSafe == TypeInv /\ SyncInv /\ DataInv /\ CallsFit

LEMMA InitSafe == Init => DataSafe
BY InitTyped, InitSync, InitData, InitCalls DEF DataSafe

LEMMA NextSafe == DataSafe /\ [Next]_vars => DataSafe' /\ DataStep
BY NextTyped, NextSync, NextData DEF DataSafe, DataStep

(* The displayed solution is a plan of the selections that clients have    *)
(* been told of, at every moment: a batch that fails after                 *)
(* applied_selections was assigned is rolled back before anyone sees it.   *)
THEOREM SolutionFitting == Spec => []SolutionFits
<1>1. DataSafe => SolutionFits
  BY DEF DataSafe, DataInv, StoreFits
<1> QED
  BY <1>1, InitSafe, NextSafe, PTL DEF Spec

(* The facets that a session lists are those of its selections and of its  *)
(* displayed solution, and every explicit selection is among them, so that *)
(* it can be taken back.                                                   *)
THEOREM ViewFitting == Spec => []ViewFits
<1>1. DataSafe => ViewFits
  BY DEF DataSafe, DataInv, StoreFits
<1> QED
  BY <1>1, InitSafe, NextSafe, PTL DEF Spec

(* A stored solution count is the number of plans of the selections,       *)
(* whether FASB has counted them, an enumeration has run out of them, or   *)
(* the two routes of a preview have been added up.                         *)
THEOREM CountsExact == Spec => []CountExact
<1>1. DataSafe => CountExact
  BY DEF DataSafe, DataInv, StoreFits
<1> QED
  BY <1>1, InitSafe, NextSafe, PTL DEF Spec

(* Every successful answer to a query, of a request or of a job, is exact  *)
(* for the selections at that moment, whether FASB gives it, memory, or a  *)
(* preview that loads other selections meanwhile.                          *)
THEOREM TruthfulAnswers == Spec => AnswersTruthful
<1>1. DataSafe /\ [Next]_vars
        => [\A t \in Threads :
              outcome'[t] # outcome[t] /\ IsQuery(t) /\ outcome'[t].status = "ok"
                => Truthful(Query(t), outcome'[t])]_vars
  BY NextSafe DEF DataStep, Honest
<1> QED
  BY <1>1, InitSafe, NextSafe, PTL DEF Spec, AnswersTruthful

-----------------------------------------------------------------------------
(* SelectionStore means by its operators what Session means by them. *)
LEMMA StoreOperators ==
    ASSUME NEW sel, NEW batch
    PROVE  /\ Store!PreviousStatesHold(sel, batch) <=> PreviousStatesHold(sel, batch)
           /\ Store!UpdatedSelections(sel, batch) = UpdatedSelections(sel, batch)
           /\ Store!Models(sel) = Models(sel)
           /\ Store!NoSelections = NoSelections
<1>1. Store!NoSelections = NoSelections
  BY DEF Store!NoSelections, NoSelections
<1>2. Store!PreviousStatesHold(sel, batch) <=> PreviousStatesHold(sel, batch)
  BY DEF Store!PreviousStatesHold, PreviousStatesHold
<1>3. Store!Models(sel) = Models(sel)
  BY DEF Store!Models, Models
<1>4. Store!UpdatedSelections(sel, batch) = UpdatedSelections(sel, batch)
  BY DEF Store!UpdatedSelections, UpdatedSelections, Store!Settled, Settled,
         Store!Displaced, Displaced, Store!Competes, Competes, Store!IsAction, IsAction
<1> QED
  BY <1>1, <1>2, <1>3, <1>4

LEMMA CommittedInStore ==
    ASSUME NEW batch \in Batches, Committed(batch)
    PROVE  Store!Next
<1>1. Store!Commit(batch)
  BY StoreOperators DEF Committed, Store!Commit
<1> QED
  BY <1>1 DEF Store!Next

(* Clients see selections and revision as SelectionStore promises: every   *)
(* step of every request, job and stop leaves both alone or applies one    *)
(* whole batch, which fits the previous states and has a plan, with one    *)
(* revision.                                                               *)
THEOREM Refines == Spec => ImplementsStore
<1>1. Init => Store!Init
  <2> SUFFICES ASSUME Init PROVE Store!Init
    OBVIOUS
  <2>1. Selected = NoSelections
    BY NoOperationTyped, SelectedNow DEF Init
  <2> QED
    BY <2>1, StoreOperators DEF Init, Store!Init
<1>2. DataSafe /\ [Next]_vars => [Store!Next]_<<Selected, revision>>
  BY NextSafe, CommittedInStore DEF DataStep
<1> QED
  BY <1>1, <1>2, InitSafe, NextSafe, PTL DEF Spec, ImplementsStore, Store!Spec

-----------------------------------------------------------------------------
(* The life of a job: which statuses fit the place its thread has reached, *)
(* although stop and cancellation write them too.                          *)
IsActive(j) == jobs[j].status \in ActiveStatuses
WithdrawnOr(j, statuses) ==
    jobs[j].status \in statuses \/ (jobs[j].status = "cancelled" /\ jobs[j].cancel)

JobPlace(j) ==
    /\ jobs[j].cancel => jobs[j].status \in {"running", "cancelled"}
    /\ pc[j] = "unborn" => jobs[j].status = "unborn"
    /\ pc[j] = "begin" => WithdrawnOr(j, {"queued"})
    /\ pc[j] \in Working => WithdrawnOr(j, {"running"})
    /\ pc[j] = "settle" => jobs[j].status \in TerminalStatuses
    /\ pc[j] \in {"unborn", "begin", "settle", "done"} \cup Working

JobPlaces == \A j \in Jobs : JobPlace(j)

OneActive == \A i, j \in Jobs : IsActive(i) /\ IsActive(j) => i = j

Listed == /\ Len(table) <= JobLimit
          /\ \A j \in Jobs : IsActive(j) => InTable(j)

JobInv == JobPlaces /\ OneActive /\ Listed

(* What a step may do to a job's record. *)
Lawful(j) ==
    /\ jobs[j].status \in TerminalStatuses => jobs'[j].status = jobs[j].status
    /\ jobs[j].cancel => jobs'[j].status # "succeeded"

JobStepInv == JobInv' /\ \A j \in Jobs : Lawful(j)

(* A step that makes no job active keeps the one that is. *)
LEMMA NoneActivated ==
    ASSUME JobInv, table' = table, \A i \in Jobs : IsActive(i)' => IsActive(i)
    PROVE  OneActive' /\ Listed'
BY DEF JobInv, OneActive, Listed, InTable

(* A step that leaves the jobs' statuses and cancellations as they are. *)
LEMMA RecordsKept ==
    ASSUME JobInv, table' = table,
           \A i \in Jobs : /\ jobs'[i].status = jobs[i].status
                           /\ jobs'[i].cancel = jobs[i].cancel
                           /\ \/ pc'[i] = pc[i]
                              \/ pc'[i] = "done"
                              \/ pc[i] \in Working /\ pc'[i] \in Working
    PROVE  JobStepInv
<1>1. ASSUME NEW i \in Jobs PROVE Lawful(i)
  <2>1. JobPlace(i)
    BY DEF JobInv, JobPlaces
  <2> QED
    BY <2>1 DEF Lawful, JobPlace
<1>2. ASSUME NEW i \in Jobs PROVE JobPlace(i)'
  <2>1. JobPlace(i)
    BY DEF JobInv, JobPlaces
  <2> QED
    BY <2>1 DEF JobPlace, WithdrawnOr, Working
<1>3. OneActive' /\ Listed'
  BY NoneActivated DEF IsActive
<1> QED
  BY <1>1, <1>2, <1>3 DEF JobStepInv, JobInv, JobPlaces

(* A step that writes the record of one job, or of several at a time. *)
LEMMA RecordsWritten ==
    ASSUME JobInv, table' = table,
           \A i \in Jobs : /\ JobPlace(i)' /\ Lawful(i)
                           /\ IsActive(i)' => IsActive(i)
    PROVE  JobStepInv
<1>1. OneActive' /\ Listed'
  BY NoneActivated
<1> QED
  BY <1>1 DEF JobStepInv, JobInv, JobPlaces

LEMMA InitJobs == Init => JobInv
<1> SUFFICES ASSUME Init PROVE JobInv
  OBVIOUS
<1>1. \A j \in Jobs : /\ jobs[j].status = "unborn" /\ jobs[j].cancel = FALSE
                      /\ pc[j] = "unborn"
  BY DEF Init, Threads
<1>2. Len(table) = 0
  BY DEF Init
<1>3. JobPlaces /\ OneActive
  BY <1>1 DEF JobPlaces, JobPlace, OneActive, IsActive, ActiveStatuses, Working
<1>4. Listed
  BY <1>1, <1>2, SessionAssumption DEF Listed, IsActive, ActiveStatuses
<1> QED
  BY <1>3, <1>4 DEF JobInv

(* Whatever a thread does under the operation lock before it records. *)
LEMMA OperationJobs ==
    ASSUME TypeInv, JobInv, NEW t \in Threads,
           \/ ApplyBegin(t) \/ ApplySolve(t) \/ ApplyKeepBaseline(t)
           \/ ApplyFindsNoPlan(t) \/ ApplyCommit(t) \/ Operate(t) \/ Recovered(t)
    PROVE  JobStepInv
<1>1. /\ table' = table
      /\ \/ jobs' = jobs /\ pc' = pc
         \/ jobs' = jobs /\ pc[t] \in Working /\ \E place \in Working : GoTo(t, place)
         \/ jobs' = jobs /\ t \notin Jobs /\ GoTo(t, "done")
         \/ FinishJob(t)
  BY OperationMoves DEF Recovered
<1>2. ASSUME NEW i \in Jobs
      PROVE  /\ jobs'[i].status = jobs[i].status /\ jobs'[i].cancel = jobs[i].cancel
             /\ pc'[i] = pc[i] \/ pc'[i] = "done" \/ (pc[i] \in Working /\ pc'[i] \in Working)
  <2>1. i \in Threads /\ pc \in [Threads -> Places] /\ jobs \in [Jobs -> JobRecords]
    BY DEF TypeInv, TypeOK, Threads
  <2>2. CASE jobs' = jobs
    BY <1>1, <2>1, <2>2 DEF GoTo, FinishJob
  <2>3. CASE FinishJob(t)
    BY <2>1, <2>3 DEF GoTo, FinishJob, JobRecords
  <2> QED
    BY <1>1, <2>2, <2>3
<1> QED
  BY <1>1, <1>2, RecordsKept

(* Requests: only a stop, a cancellation and the creation of a job write   *)
(* the jobs' records.                                                      *)
LEMMA RequestJobs ==
    ASSUME TypeInv, JobInv, NEW r \in Requests,
           \/ Arrive(r) \/ StopKill(r) \/ StopFinish(r) \/ StartCheck(r)
           \/ CancelKill(r) \/ ApplyRefused(r)
    PROVE  JobStepInv
<1>1. /\ table' = table /\ \E place : GoTo(r, place)
      /\ \/ jobs' = jobs
         \/ jobs' = [j \in Jobs |->
                       [jobs[j] EXCEPT !.finished = @ \/ jobs[j].status = "cancelled"]]
  <2>1. CASE Arrive(r)
    BY <2>1 DEF Arrive, Enter, DropUnavailable, Retire, jobVars
  <2>2. CASE StopFinish(r)
    BY <2>2 DEF StopFinish
  <2>3. CASE StopKill(r) \/ StartCheck(r) \/ CancelKill(r) \/ ApplyRefused(r)
    BY <2>3 DEF StopKill, StartCheck, CancelKill, ApplyRefused, jobVars
  <2> QED
    BY <2>1, <2>2, <2>3
<1>2. ASSUME NEW i \in Jobs
      PROVE  /\ jobs'[i].status = jobs[i].status /\ jobs'[i].cancel = jobs[i].cancel
             /\ pc'[i] = pc[i]
  <2>1. /\ i # r /\ i \in Threads /\ pc \in [Threads -> Places]
        /\ jobs \in [Jobs -> JobRecords]
    BY SessionAssumption DEF TypeInv, TypeOK, Threads
  <2> QED
    BY <1>1, <2>1 DEF GoTo, JobRecords
<1> QED
  BY <1>1, <1>2, RecordsKept

LEMMA StopJobs ==
    ASSUME TypeInv, JobInv, NEW r \in Requests, StopMark(r) \/ CancelMark(r)
    PROVE  JobStepInv
<1>1. table' = table /\ \E place : GoTo(r, place)
  BY DEF StopMark, CancelMark
<1>2. ASSUME NEW i \in Jobs
      PROVE  JobPlace(i)' /\ Lawful(i) /\ (IsActive(i)' => IsActive(i))
  <2>1. /\ i # r /\ i \in Threads /\ pc \in [Threads -> Places]
        /\ jobs \in [Jobs -> JobRecords]
    BY SessionAssumption DEF TypeInv, TypeOK, Threads
  <2>2. JobPlace(i) /\ pc'[i] = pc[i]
    BY <1>1, <2>1 DEF JobInv, JobPlaces, GoTo
  <2>3. \/ jobs'[i] = jobs[i]
        \/ /\ jobs[i].status \in ActiveStatuses
           /\ jobs'[i].status = "cancelled" /\ jobs'[i].cancel = TRUE
        \/ /\ jobs[i].status = "running"
           /\ jobs'[i].status = "running" /\ jobs'[i].cancel = TRUE
    <3>1. CASE StopMark(r)
      BY <2>1, <3>1 DEF StopMark, MarkedCancelled, JobRecords
    <3>2. CASE CancelMark(r)
      <4> DEFINE j == call[r].job
      <4>1. CASE jobs' = jobs
        BY <4>1
      <4>2. CASE /\ jobs[j].status = "queued"
                 /\ jobs' = [jobs EXCEPT ![j] = [MarkedCancelled(@) EXCEPT !.finished = TRUE]]
        <5>1. jobs[i] \in JobRecords
          BY <2>1
        <5>2. LET m == [MarkedCancelled(jobs[i]) EXCEPT !.finished = TRUE]
              IN  m.status = "cancelled" /\ m.cancel = TRUE
          BY <5>1 DEF MarkedCancelled, JobRecords
        <5> QED
          BY <2>1, <4>2, <5>2 DEF ActiveStatuses
      <4>3. CASE /\ jobs[j].status = "running"
                 /\ jobs' = [jobs EXCEPT ![j].cancel = TRUE]
        BY <2>1, <4>3 DEF JobRecords
      <4> QED
        BY <3>2, <4>1, <4>2, <4>3 DEF CancelMark
    <3> QED
      BY <3>1, <3>2
  <2> QED
    BY <2>2, <2>3
    DEF JobPlace, WithdrawnOr, Working, Lawful, IsActive, ActiveStatuses, TerminalStatuses
<1> QED
  BY <1>1, <1>2, RecordsWritten

(* Trimming makes room for the new job before it is listed. *)
LEMMA Trimmed ==
    ASSUME table \in Seq(Jobs), Len(table) <= JobLimit, NEW j \in Jobs
    PROVE  /\ Len(Append(TrimmedTable, j)) <= JobLimit
           /\ \E i \in DOMAIN Append(TrimmedTable, j) : Append(TrimmedTable, j)[i] = j
<1>1. JobLimit \in Nat \ {0} /\ Len(table) \in Nat
  BY SessionAssumption
<1>2. TrimmedTable \in Seq(Jobs) /\ Len(TrimmedTable) <= JobLimit - 1
  <2>1. CASE Len(table) < JobLimit
    BY <1>1, <2>1 DEF TrimmedTable
  <2>2. CASE ~ Len(table) < JobLimit
    <3> DEFINE m == Len(table) - JobLimit + 2
               n == Len(table)
    <3>1. n = JobLimit /\ m = 2 /\ TrimmedTable = SubSeq(table, 2, n)
      BY <1>1, <2>2 DEF TrimmedTable
    <3>2. \A k \in 2..n : table[k] \in Jobs
      OBVIOUS
    <3>3. SubSeq(table, 2, n) \in Seq(Jobs) /\ Len(SubSeq(table, 2, n)) = n - 1
      BY <1>1, <3>1, <3>2
    <3> QED
      BY <1>1, <3>1, <3>3
  <2> QED
    BY <2>1, <2>2
<1>3. /\ Len(Append(TrimmedTable, j)) = Len(TrimmedTable) + 1
      /\ DOMAIN Append(TrimmedTable, j) = 1..(Len(TrimmedTable) + 1)
      /\ Append(TrimmedTable, j)[Len(TrimmedTable) + 1] = j
      /\ Len(TrimmedTable) \in Nat
  BY <1>2
<1> QED
  BY <1>1, <1>2, <1>3

LEMMA CreateJobs ==
    ASSUME TypeInv, JobInv, NEW r \in Requests, StartCreate(r)
    PROVE  JobStepInv
<1>1. CASE GoTo(r, "done") /\ UNCHANGED <<jobs, table>>
  <2>1. \A i \in Jobs : pc'[i] = pc[i]
    BY <1>1, SessionAssumption DEF GoTo, TypeInv, TypeOK, Threads
  <2> QED
    BY <1>1, <2>1, RecordsKept
<1>2. CASE /\ ~ JobActive
           /\ \E j \in Jobs :
                 /\ pc[j] = "unborn"
                 /\ jobs' = [jobs EXCEPT ![j] = [@ EXCEPT !.status = "queued",
                                                          !.revision = revision]]
                 /\ table' = Append(TrimmedTable, j)
                 /\ pc' = [pc EXCEPT ![r] = "done", ![j] = "begin"]
  <2>1. PICK j \in Jobs :
           /\ pc[j] = "unborn"
           /\ jobs' = [jobs EXCEPT ![j] = [@ EXCEPT !.status = "queued",
                                                    !.revision = revision]]
           /\ table' = Append(TrimmedTable, j)
           /\ pc' = [pc EXCEPT ![r] = "done", ![j] = "begin"]
    BY <1>2
  <2>2. /\ jobs \in [Jobs -> JobRecords] /\ pc \in [Threads -> Places]
        /\ table \in Seq(Jobs) /\ Requests \cap Jobs = {}
    BY SessionAssumption DEF TypeInv, TypeOK
  <2>3. \A i \in Jobs : ~ IsActive(i)
    BY <1>2 DEF JobActive, IsActive
  <2>4. /\ jobs'[j].status = "queued" /\ jobs'[j].cancel = jobs[j].cancel
        /\ pc'[j] = "begin"
    BY <2>1, <2>2 DEF JobRecords, Threads
  <2>5. \A i \in Jobs \ {j} : jobs'[i] = jobs[i] /\ pc'[i] = pc[i]
    BY <2>1, <2>2 DEF Threads
  <2>6. JobPlace(j) /\ jobs[j].status = "unborn"
    BY <2>1 DEF JobInv, JobPlaces, JobPlace
  <2>7. jobs[j].cancel # TRUE /\ JobPlace(j)' /\ Lawful(j)
    BY <2>2, <2>4, <2>6
    DEF JobPlace, WithdrawnOr, Working, Lawful, TerminalStatuses, JobRecords
  <2>8. ASSUME NEW i \in Jobs \ {j} PROVE JobPlace(i)' /\ Lawful(i) /\ ~ IsActive(i)'
    <3>1. JobPlace(i) /\ jobs'[i] = jobs[i] /\ pc'[i] = pc[i] /\ ~ IsActive(i)
      BY <2>3, <2>5 DEF JobInv, JobPlaces
    <3> QED
      BY <3>1 DEF JobPlace, WithdrawnOr, Working, Lawful, IsActive
  <2>9. OneActive'
    BY <2>8 DEF OneActive
  <2>10. Listed'
    <3>1. /\ Len(Append(TrimmedTable, j)) <= JobLimit
          /\ \E i \in DOMAIN Append(TrimmedTable, j) : Append(TrimmedTable, j)[i] = j
      BY <2>2, Trimmed DEF JobInv, Listed
    <3> HIDE DEF JobInv
    <3> QED
      BY <2>1, <2>8, <3>1 DEF Listed, InTable
  <2> QED
    BY <2>7, <2>8, <2>9, <2>10 DEF JobStepInv, JobInv, JobPlaces
<1> QED
  BY <1>1, <1>2, Created

(* The job's own thread. *)
LEMMA ThreadJobs ==
    ASSUME TypeInv, JobInv, NEW j \in Jobs, JobBegin(j) \/ JobRecord(j) \/ JobSettle(j)
    PROVE  JobStepInv
<1>1. table' = table /\ \E place : GoTo(j, place)
  BY DEF JobBegin, JobRecord, JobSettle, FinishJob
<1>2. /\ jobs \in [Jobs -> JobRecords] /\ pc \in [Threads -> Places] /\ j \in Threads
  BY DEF TypeInv, TypeOK, Threads
<1>3. JobPlace(j) /\ jobs[j] \in JobRecords
  BY <1>2 DEF JobInv, JobPlaces
<1>4. JobPlace(j)' /\ Lawful(j) /\ (IsActive(j)' => IsActive(j))
  <2>1. CASE JobBegin(j)
    <3>1. pc[j] = "begin" /\ WithdrawnOr(j, {"queued"})
      BY <1>3, <2>1 DEF JobBegin, At, JobPlace
    <3>2. CASE jobs[j].cancel
      <4>1. /\ jobs'[j].status = "cancelled" /\ jobs'[j].cancel = jobs[j].cancel
            /\ pc'[j] = "done"
        <5>1. jobs'[j] = [jobs[j] EXCEPT !.status = "cancelled", !.finished = TRUE]
              /\ GoTo(j, "done")
          BY <1>2, <2>1, <3>2 DEF JobBegin, CancelledBeforeStart
        <5> QED
          BY <1>2, <1>3, <5>1 DEF GoTo, JobRecords
      <4>2. jobs[j].status = "cancelled"
        BY <1>3, <3>1, <3>2 DEF JobPlace, WithdrawnOr
      <4> QED
        BY <4>1, <4>2 DEF JobPlace, WithdrawnOr, Working, Lawful, IsActive, ActiveStatuses
    <3>3. CASE ~ jobs[j].cancel
      <4>1. /\ jobs'[j].status = "running" /\ jobs'[j].cancel = jobs[j].cancel
            /\ pc'[j] = "lock"
        BY <1>2, <1>3, <2>1, <3>3 DEF JobBegin, CancelledBeforeStart, GoTo, JobRecords
      <4>2. jobs[j].status = "queued"
        BY <3>1, <3>3 DEF WithdrawnOr
      <4> QED
        BY <3>3, <4>1, <4>2
        DEF JobPlace, WithdrawnOr, Working, Lawful, IsActive, ActiveStatuses,
            TerminalStatuses
    <3> QED
      BY <3>2, <3>3
  <2>2. CASE JobRecord(j)
    <3>1. WithdrawnOr(j, {"running"})
      BY <1>3, <2>2 DEF JobRecord, Holds, At, JobPlace, Working
    <3>2. /\ jobs'[j].status = FinalStatus(j) /\ jobs'[j].cancel = jobs[j].cancel
          /\ pc'[j] = "settle"
      BY <1>2, <1>3, <2>2 DEF JobRecord, GoTo, JobRecords
    <3>3. /\ FinalStatus(j) \in TerminalStatuses
          /\ jobs[j].cancel => FinalStatus(j) = "cancelled"
      BY DEF FinalStatus, TerminalStatuses
    <3> QED
      BY <1>3, <3>1, <3>2, <3>3
      DEF JobPlace, WithdrawnOr, Working, Lawful, IsActive, ActiveStatuses,
          TerminalStatuses
  <2>3. CASE JobSettle(j)
    <3>1. jobs[j].status \in TerminalStatuses
      BY <1>3, <2>3 DEF JobSettle, Holds, At, JobPlace
    <3>2. CASE jobs' = jobs /\ jobs[j].cancel /\ GoTo(j, "restart")
      BY <1>2, <1>3, <3>1, <3>2
      DEF JobPlace, WithdrawnOr, Working, Lawful, IsActive, ActiveStatuses,
          TerminalStatuses, GoTo
    <3>3. CASE FinishJob(j)
      <4>1. /\ jobs'[j].status = jobs[j].status /\ jobs'[j].cancel = jobs[j].cancel
            /\ pc'[j] = "done"
        BY <1>2, <1>3, <3>3 DEF FinishJob, GoTo, JobRecords
      <4> QED
        BY <1>3, <3>1, <4>1
        DEF JobPlace, WithdrawnOr, Working, Lawful, IsActive, ActiveStatuses,
            TerminalStatuses
    <3> QED
      BY <2>3, <3>2, <3>3 DEF JobSettle
  <2> QED
    BY <2>1, <2>2, <2>3
<1>5. ASSUME NEW i \in Jobs \ {j}
      PROVE  JobPlace(i)' /\ Lawful(i) /\ (IsActive(i)' => IsActive(i))
  <2>1. jobs'[i] = jobs[i]
    BY <1>2 DEF JobBegin, JobRecord, JobSettle, FinishJob
  <2>2. JobPlace(i) /\ pc'[i] = pc[i]
    BY <1>1, <1>2 DEF JobInv, JobPlaces, GoTo, Threads
  <2> QED
    BY <2>1, <2>2 DEF JobPlace, WithdrawnOr, Working, Lawful, IsActive
<1> QED
  BY <1>1, <1>4, <1>5, RecordsWritten

LEMMA NextJobs ==
    ASSUME TypeInv, JobInv, [Next]_vars
    PROVE  JobStepInv
<1>1. CASE UNCHANGED vars
  BY <1>1, RecordsKept DEF vars
<1>2. ASSUME NEW r \in Requests, Arrive(r) \/ RequestStep(r) PROVE JobStepInv
  BY <1>2, RequestJobs, StopJobs, CreateJobs, OperationJobs DEF RequestStep, Threads
<1>3. ASSUME NEW j \in Jobs, JobStep(j) PROVE JobStepInv
  BY <1>3, ThreadJobs, OperationJobs DEF JobStep, Threads
<1> QED
  BY <1>1, <1>2, <1>3 DEF Next

JobSafe == TypeInv /\ JobInv

LEMMA JobsSafe == (Init => JobSafe) /\ (JobSafe /\ [Next]_vars => JobSafe' /\ JobStepInv)
BY InitTyped, NextTyped, InitJobs, NextJobs DEF JobSafe, JobStepInv

(* At most one job of a session is queued or running, and it is in the     *)
(* job table, which never grows beyond its limit: two starts at once       *)
(* cannot both pass, and trimming never drops the active job.              *)
THEOREM OneJob == Spec => []OneActiveJob
<1>1. JobInv => OneActiveJob
  <2> SUFFICES ASSUME JobInv PROVE OneActiveJob
    OBVIOUS
  <2> DEFINE active == {j \in Jobs : jobs[j].status \in ActiveStatuses}
  <2>1. Cardinality(active) <= 1
    <3>1. CASE active = {}
      BY <3>1, FS_EmptySet
    <3>2. CASE active # {}
      <4>1. PICK j \in active : TRUE
        BY <3>2
      <4>2. active = {j}
        BY <4>1 DEF JobInv, OneActive, IsActive
      <4> QED
        BY <4>2, FS_Singleton
    <3> QED
      BY <3>1, <3>2
  <2>2. Len(table) <= JobLimit /\ \A j \in active : InTable(j)
    BY DEF JobInv, Listed, IsActive
  <2> QED
    BY <2>1, <2>2 DEF OneActiveJob
<1>2. JobSafe => OneActiveJob
  BY <1>1 DEF JobSafe
<1> QED
  BY <1>2, JobsSafe, PTL DEF Spec

(* A job that has ended keeps its status although stop, cancellation and   *)
(* its own thread all write it, and a job whose cancellation was accepted  *)
(* never succeeds.                                                         *)
THEOREM FinalStatuses == Spec => TerminalIsFinal
<1>1. JobSafe /\ [Next]_vars
        => [\A j \in Jobs :
              /\ jobs[j].status \in TerminalStatuses => jobs'[j].status = jobs[j].status
              /\ jobs[j].cancel => jobs'[j].status # "succeeded"]_vars
  BY JobsSafe DEF JobStepInv, Lawful
<1> QED
  BY <1>1, JobsSafe, PTL DEF Spec, TerminalIsFinal
=============================================================================
