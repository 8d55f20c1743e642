----------------------------- MODULE TaskCache -----------------------------
(***************************************************************************)
(* The preparation of one planning task by concurrent creations:           *)
(* run_fastdownward_service (the translated task and the plan on disk, the *)
(* database row that vouches for them) and _ensure_lp_file (one logic      *)
(* program for each encoding).  Creations of the same task hold its lock   *)
(* while they run Fast Downward, and the lock of a program while they make *)
(* it; between the two they hold nothing.  Files and the row survive a     *)
(* crash of the service; locks, threads and the deadline do not.           *)
(***************************************************************************)
EXTENDS Naturals, FiniteSets

CONSTANTS
    Creators,     \* creations, each made once
    Modes,        \* encodings: each has a logic program of its own
    Supplies,     \* lengths of the representative plans; 0: no plan supplied
    PlanLength,   \* actions of the plan the search finds; 0: it finds none
    Faults,       \* "fail", "timeout", "crash", "vanish", "orphan"
    None

ASSUME TaskCacheAssumption ==
    /\ None \notin Creators
    /\ Supplies \subseteq Nat /\ PlanLength \in Nat
    /\ Faults \subseteq {"fail", "timeout", "crash", "vanish", "orphan"}

VARIABLES
    row,        \* there is a FastDownwardRequest for the task
    sas,        \* output.sas
    plan,       \* sas_plan
    lp,         \* the logic program of each mode
    temp,       \* the temporary file of each creation
    taskLock,   \* who holds the task's lock
    lpLock,     \* who holds each program's lock
    orphans,    \* translators that outlived the driver that started them
    creation    \* each creation: its place, arguments, results

vars == <<row, sas, plan, lp, temp, taskLock, lpLock, orphans, creation>>
diskVars == <<sas, plan, lp, temp>>

Contents == {"absent", "partial", "whole"}

InTask == {"lookup", "check", "delete", "cleanSas", "cleanPlan", "open", "write",
           "search", "plan", "horizon", "insert"}
InProgram == {"lpCheck", "lpOpen", "plasp", "replace"}
Places == {"idle", "lock", "row", "lpLock", "fasb", "done"} \cup InTask \cup InProgram

Results == {"none", "ok", "noPlan", "capacity", "error", "crashed"}

(* hurt: a fault has hit the creation or its files since it began *)
Creation == [at : Places, supplied : Supplies, mode : Modes, horizon : Nat,
             result : Results, hurt : BOOLEAN]

TypeOK ==
    /\ row \in BOOLEAN
    /\ sas \in Contents /\ plan \in Contents
    /\ lp \in [Modes -> Contents] /\ temp \in [Creators -> Contents]
    /\ taskLock \in Creators \cup {None}
    /\ lpLock \in [Modes -> Creators \cup {None}]
    /\ orphans \subseteq {"open", "write"}
    /\ creation \in [Creators -> Creation]

Init ==
    /\ row = FALSE
    /\ sas = "absent" /\ plan = "absent"
    /\ lp = [m \in Modes |-> "absent"]
    /\ temp = [c \in Creators |-> "absent"]
    /\ taskLock = None
    /\ lpLock = [m \in Modes |-> None]
    /\ orphans = {}
    /\ \E supplied \in [Creators -> Supplies], mode \in [Creators -> Modes] :
         creation = [c \in Creators |->
            [at |-> "idle", supplied |-> supplied[c], mode |-> mode[c],
             horizon |-> 0, result |-> "none", hurt |-> FALSE]]

At(c, place) == creation[c].at = place
Active(c) == creation[c].at \notin {"idle", "done"}

Goto(c, place) == creation' = [creation EXCEPT ![c].at = place]

(* a file whose copy is still being written reads as fewer actions *)
Horizons(content) ==
    IF content = "partial" THEN 0..PlanLength
    ELSE {IF content = "whole" THEN PlanLength ELSE 0}

(* the supplied plan determines the horizon, also with a cached task *)
GivenHorizons(c) ==
    IF creation[c].supplied > 0 THEN {creation[c].supplied} ELSE Horizons(plan)

-----------------------------------------------------------------------------
(* _run_fastdownward_for_hash, under the lock of the task *)

Begin(c) ==
    /\ At(c, "idle")
    /\ Goto(c, "lock")
    /\ UNCHANGED <<row, diskVars, taskLock, lpLock, orphans>>

Lock(c) ==
    /\ At(c, "lock")
    /\ taskLock = None
    /\ taskLock' = c
    /\ Goto(c, "lookup")
    /\ UNCHANGED <<row, diskVars, lpLock, orphans>>

(* leave the lock, with a result for the caller or on to the program *)
Leave(c, fields) ==
    /\ taskLock' = None
    /\ creation' = [creation EXCEPT ![c].at = fields.at,
                                    ![c].horizon = fields.horizon,
                                    ![c].result = fields.result]

Prepared(horizon) == [at |-> "row", horizon |-> horizon, result |-> "none"]
Failed(result) == [at |-> "done", horizon |-> 0, result |-> result]

Lookup(c) ==
    /\ At(c, "lookup")
    /\ Goto(c, IF row THEN "check" ELSE "cleanSas")
    /\ UNCHANGED <<row, diskVars, taskLock, lpLock, orphans>>

(* is the row still good for this creation?  0: it is not *)
TrustsRow(c) == GivenHorizons(c)
IgnoresSupplied(c) == IF sas = "absent" THEN {0} ELSE Horizons(plan)
RowHorizons(c) == IF sas = "absent" THEN {0} ELSE GivenHorizons(c)

CheckRow(c) ==
    /\ At(c, "check")
    /\ \E horizon \in RowHorizons(c) :
         IF horizon = 0 THEN Goto(c, "delete") /\ UNCHANGED taskLock
                        ELSE Leave(c, Prepared(horizon))
    /\ UNCHANGED <<row, diskVars, lpLock, orphans>>

KeepsRow(c) ==
    /\ At(c, "delete")
    /\ Goto(c, "cleanSas")
    /\ UNCHANGED <<row, diskVars, taskLock, lpLock, orphans>>

DeleteRow(c) ==
    /\ At(c, "delete")
    /\ row' = FALSE
    /\ Goto(c, "cleanSas")
    /\ UNCHANGED <<diskVars, taskLock, lpLock, orphans>>

CleanSas(c) ==
    /\ At(c, "cleanSas")
    /\ sas' = "absent"
    /\ Goto(c, "cleanPlan")
    /\ UNCHANGED <<row, plan, lp, temp, taskLock, lpLock, orphans>>

CleanPlan(c) ==
    /\ At(c, "cleanPlan")
    /\ plan' = "absent"
    /\ Goto(c, "open")
    /\ UNCHANGED <<row, sas, lp, temp, taskLock, lpLock, orphans>>

(* the translator opens output.sas, and has written it *)
OpenSas(c) ==
    /\ At(c, "open")
    /\ sas' = "partial"
    /\ Goto(c, "write")
    /\ UNCHANGED <<row, plan, lp, temp, taskLock, lpLock, orphans>>

WriteSas(c) ==
    /\ At(c, "write")
    /\ sas' = "whole"
    /\ Goto(c, IF creation[c].supplied > 0 THEN "horizon" ELSE "search")
    /\ UNCHANGED <<row, plan, lp, temp, taskLock, lpLock, orphans>>

(* the search opens sas_plan once it has a plan, or exits with 11 or 12 *)
FindPlan(c) ==
    /\ At(c, "search")
    /\ IF PlanLength = 0
       THEN Leave(c, Failed("noPlan")) /\ UNCHANGED plan
       ELSE /\ plan' = "partial"
            /\ Goto(c, "plan")
            /\ UNCHANGED taskLock
    /\ UNCHANGED <<row, sas, lp, temp, lpLock, orphans>>

WritePlan(c) ==
    /\ At(c, "plan")
    /\ plan' = "whole"
    /\ Goto(c, "horizon")
    /\ UNCHANGED <<row, sas, lp, temp, taskLock, lpLock, orphans>>

(* the exit code is good: read the horizon and look for output.sas *)
ReadHorizon(c) ==
    /\ At(c, "horizon")
    /\ \E horizon \in GivenHorizons(c) :
         IF horizon = 0 THEN Leave(c, Failed("noPlan"))
         ELSE IF sas = "absent" THEN Leave(c, Failed("error"))
         ELSE /\ creation' = [creation EXCEPT ![c].at = "insert",
                                              ![c].horizon = horizon]
              /\ UNCHANGED taskLock
    /\ UNCHANGED <<row, diskVars, lpLock, orphans>>

Insert(c) ==
    /\ At(c, "insert")
    /\ row' = TRUE
    /\ Leave(c, Prepared(creation[c].horizon))
    /\ UNCHANGED <<diskVars, lpLock, orphans>>

-----------------------------------------------------------------------------
(* run_planpilot_service and _ensure_lp_file *)

Finish(c, result) ==
    creation' = [creation EXCEPT ![c].at = "done", ![c].result = result]

FindRow(c) ==
    /\ At(c, "row")
    /\ IF row THEN Goto(c, "lpLock") ELSE Finish(c, "error")
    /\ UNCHANGED <<row, diskVars, taskLock, lpLock, orphans>>

LockProgram(c) ==
    /\ At(c, "lpLock")
    /\ lpLock[creation[c].mode] = None
    /\ lpLock' = [lpLock EXCEPT ![creation[c].mode] = c]
    /\ Goto(c, "lpCheck")
    /\ UNCHANGED <<row, diskVars, taskLock, orphans>>

UnlockProgram(c) == lpLock' = [lpLock EXCEPT ![creation[c].mode] = None]

CheckProgram(c) ==
    /\ At(c, "lpCheck")
    /\ IF lp[creation[c].mode] = "absent"
       THEN Goto(c, "lpOpen") /\ UNCHANGED lpLock
       ELSE Goto(c, "fasb") /\ UnlockProgram(c)
    /\ UNCHANGED <<row, diskVars, taskLock, orphans>>

OpensInPlace(c) ==
    /\ At(c, "lpOpen")
    /\ temp' = [temp EXCEPT ![c] = "partial"]
    /\ lp' = [lp EXCEPT ![creation[c].mode] = "partial"]
    /\ Goto(c, "plasp")
    /\ UNCHANGED <<row, sas, plan, taskLock, lpLock, orphans>>

(* the encodings are written to the temporary file first *)
OpenProgram(c) ==
    /\ At(c, "lpOpen")
    /\ temp' = [temp EXCEPT ![c] = "partial"]
    /\ Goto(c, "plasp")
    /\ UNCHANGED <<row, sas, plan, lp, taskLock, lpLock, orphans>>

(* "finally": the temporary file is removed *)
LeavesProgram(c, result) ==
    /\ UnlockProgram(c)
    /\ Finish(c, result)
    /\ UNCHANGED temp

DropProgram(c, result) ==
    /\ temp' = [temp EXCEPT ![c] = "absent"]
    /\ UnlockProgram(c)
    /\ Finish(c, result)

(* plasp refuses a file that is missing or ends too early *)
Plasp(c) ==
    /\ At(c, "plasp")
    /\ IF sas = "whole"
       THEN /\ temp' = [temp EXCEPT ![c] = "whole"]
            /\ Goto(c, "replace")
            /\ UNCHANGED lpLock
       ELSE DropProgram(c, "error")
    /\ UNCHANGED <<row, sas, plan, lp, taskLock, orphans>>

Replace(c) ==
    /\ At(c, "replace")
    /\ lp' = [lp EXCEPT ![creation[c].mode] = temp[c]]
    /\ temp' = [temp EXCEPT ![c] = "absent"]
    /\ UnlockProgram(c)
    /\ Goto(c, "fasb")
    /\ UNCHANGED <<row, sas, plan, taskLock, orphans>>

(* FASB reads the program *)
StartFasb(c) ==
    /\ At(c, "fasb")
    /\ Finish(c, IF lp[creation[c].mode] = "whole" THEN "ok" ELSE "error")
    /\ UNCHANGED <<row, diskVars, taskLock, lpLock, orphans>>

-----------------------------------------------------------------------------
(* Faults *)

Hurt(c) == creation' = [creation EXCEPT ![c].hurt = TRUE]

RunsFastDownward(c) == creation[c].at \in {"open", "write", "search", "plan"}

SearchesToo(c) == {creation[c].at}
LeftBehind(c) ==
    IF "orphan" \in Faults THEN {creation[c].at} \cap {"open", "write"} ELSE {}

(* Fast Downward runs out of resources or exits with another code *)
FailsAndKeepsLock(c) ==
    /\ "fail" \in Faults
    /\ RunsFastDownward(c)
    /\ creation' = [creation EXCEPT ![c].at = "done", ![c].result = "error",
                                    ![c].hurt = TRUE]
    /\ UNCHANGED <<row, diskVars, taskLock, lpLock, orphans>>

FastDownwardFails(c) ==
    /\ "fail" \in Faults
    /\ RunsFastDownward(c)
    /\ \E result \in {"capacity", "error"} :
         /\ taskLock' = None
         /\ creation' = [creation EXCEPT ![c].at = "done", ![c].result = result,
                                         ![c].hurt = TRUE]
    /\ UNCHANGED <<row, diskVars, lpLock, orphans>>

(* subprocess.run kills the driver; a translator it has started lives on,  *)
(* a search dies of its closed output before it writes a plan              *)
FastDownwardTimesOut(c) ==
    /\ "timeout" \in Faults
    /\ RunsFastDownward(c)
    /\ taskLock' = None
    /\ orphans' = orphans \cup LeftBehind(c)
    /\ creation' = [creation EXCEPT ![c].at = "done", ![c].result = "capacity",
                                    ![c].hurt = TRUE]
    /\ UNCHANGED <<row, diskVars, lpLock>>

(* the commit of the new row fails and is rolled back *)
InsertFails(c) ==
    /\ "fail" \in Faults
    /\ At(c, "insert")
    /\ taskLock' = None
    /\ creation' = [creation EXCEPT ![c].at = "done", ![c].result = "error",
                                    ![c].hurt = TRUE]
    /\ UNCHANGED <<row, diskVars, lpLock, orphans>>

PlaspFails(c) ==
    /\ "fail" \in Faults \/ "timeout" \in Faults
    /\ At(c, "plasp")
    /\ temp' = [temp EXCEPT ![c] = "absent"]
    /\ UnlockProgram(c)
    /\ \E result \in {"capacity", "error"} :
         creation' = [creation EXCEPT ![c].at = "done", ![c].result = result,
                                      ![c].hurt = TRUE]
    /\ UNCHANGED <<row, sas, plan, lp, taskLock, orphans>>

(* the service dies between any two steps and is started again *)
Crash ==
    /\ "crash" \in Faults
    /\ \E c \in Creators : Active(c)
    /\ creation' = [c \in Creators |->
         IF Active(c) THEN [creation[c] EXCEPT !.at = "done", !.result = "crashed",
                                               !.hurt = TRUE]
                      ELSE creation[c]]
    /\ orphans' = orphans \cup UNION {LeftBehind(c) : c \in Creators}
    /\ taskLock' = None
    /\ lpLock' = [m \in Modes |-> None]
    /\ UNCHANGED <<row, diskVars>>

HurtActive ==
    creation' = [c \in Creators |->
        [creation[c] EXCEPT !.hurt = @ \/ Active(c)]]

(* a file of the task's directory is deleted from outside *)
Vanish ==
    /\ "vanish" \in Faults
    /\ \/ sas' = "absent" /\ UNCHANGED plan
       \/ plan' = "absent" /\ UNCHANGED sas
    /\ HurtActive
    /\ UNCHANGED <<row, lp, temp, taskLock, lpLock, orphans>>

(* an orphaned translator goes on to write output.sas, under whoever uses  *)
(* it now or next                                                          *)
OrphanWrites ==
    /\ \/ /\ "open" \in orphans
          /\ sas' = "partial"
          /\ orphans' = (orphans \ {"open"}) \cup {"write"}
       \/ /\ "write" \in orphans
          /\ sas' = "whole"
          /\ orphans' = orphans \ {"write"}
    /\ creation' = [c \in Creators |->
         [creation[c] EXCEPT !.hurt = @ \/ ~ At(c, "done")]]
    /\ UNCHANGED <<row, plan, lp, temp, taskLock, lpLock>>

-----------------------------------------------------------------------------

Translation(c) ==
    \/ Lookup(c) \/ CheckRow(c) \/ DeleteRow(c) \/ CleanSas(c) \/ CleanPlan(c)
    \/ OpenSas(c) \/ WriteSas(c) \/ FindPlan(c) \/ WritePlan(c)
    \/ ReadHorizon(c) \/ Insert(c)

Program(c) ==
    \/ FindRow(c) \/ CheckProgram(c) \/ OpenProgram(c) \/ Plasp(c) \/ Replace(c)
    \/ StartFasb(c)

Fault(c) ==
    \/ FastDownwardFails(c) \/ FastDownwardTimesOut(c) \/ InsertFails(c)
    \/ PlaspFails(c)

Next ==
    \/ \E c \in Creators :
         \/ Begin(c) \/ Lock(c) \/ Translation(c)
         \/ LockProgram(c) \/ Program(c)
         \/ Fault(c)
    \/ Crash \/ Vanish \/ OrphanWrites

Spec == Init /\ [][Next]_vars

(* Threads run, and Fast Downward and plasp end or are timed out.  A lock  *)
(* is free again and again only while others queue for it, and they are    *)
(* finitely many: weak fairness is enough.                                 *)
FairSpec ==
    /\ Spec
    /\ \A c \in Creators :
         /\ WF_vars(Lock(c) \/ Translation(c))
         /\ WF_vars(LockProgram(c) \/ Program(c))

-----------------------------------------------------------------------------
(* Properties *)

(* The row vouches for its files: while it exists no creation, and no      *)
(* crash, has left a partial task or plan behind it (the row goes before   *)
(* the artifacts and comes after them in _run_fastdownward_for_hash).      *)
(* Only a translator that outlived its driver can be amid the task.        *)
RowNeverPartial ==
    row => plan # "partial" /\ (sas = "partial" => "write" \in orphans)

(* A session's horizon is the supplied plan's length or that of the whole  *)
(* plan of the search, also out of the cache and after a crash.            *)
HorizonRight ==
    \A c \in Creators : creation[c].result = "ok" =>
        creation[c].horizon = IF creation[c].supplied > 0 THEN creation[c].supplied
                                                          ELSE PlanLength

(* FASB never finds a partial logic program under its final name: "Build   *)
(* an LP cache file without publishing partial output."                    *)
LpNeverPartial == \A m \in Modes : lp[m] # "partial"

(* A plain creation can rely on the cache, whoever else uses it; one that  *)
(* brings a plan can if all do: a row without a plan file makes a plain    *)
(* one delete the translation that the other still needs.                  *)
Relies(c) ==
    IF creation[c].supplied = 0 THEN PlanLength > 0
                                ELSE \A d \in Creators : creation[d].supplied # 0

(* The cache repairs itself: whatever earlier creations, crashes and       *)
(* deletions left in the task's directory and the database, a creation     *)
(* that can rely on it and meets no fault of its own succeeds.             *)
UnhurtSucceeds ==
    \A c \in Creators :
        Relies(c) /\ creation[c].at = "done" /\ ~ creation[c].hurt
          => creation[c].result = "ok"

(* Every creation ends: no exit keeps a lock that another one waits for.   *)
CreationsEnd == \A c \in Creators : At(c, "lock") ~> At(c, "done")
=============================================================================
