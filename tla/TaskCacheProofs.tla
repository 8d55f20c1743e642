-------------------------- MODULE TaskCacheProofs --------------------------
(***************************************************************************)
(* Safety of the preparation of a task, for any number of creations, any   *)
(* encodings, plans and faults: what the row vouches for, which horizon a  *)
(* session gets, and that the cache repairs itself.                        *)
(***************************************************************************)
EXTENDS TaskCache, TLAPS

(* A creation runs Fast Downward under the task's lock, and plasp under    *)
(* that of its program.                                                    *)
OneInTask == \A c \in Creators : creation[c].at \in InTask => taskLock = c
OneInProgram ==
    \A c \in Creators : creation[c].at \in InProgram => lpLock[creation[c].mode] = c

(* The row goes before the files and comes back after them. *)
Vouched == {"check", "delete"}
Remade == {"cleanSas", "cleanPlan", "open", "write", "search", "plan", "horizon",
           "insert"}
RowFits ==
    \A c \in Creators : /\ creation[c].at \in Vouched => row
                        /\ creation[c].at \in Remade => ~ row

(* A task is partial only while it is written, or by an orphan: then every *)
(* creation that had not ended by that time is hurt.                       *)
Undisturbed == \E c \in Creators : ~ creation[c].hurt /\ creation[c].at # "done"
ByOrphan == sas = "partial" => "write" \in orphans /\ ~ Undisturbed
SasFits ==
    /\ row => ByOrphan
    /\ \A c \in Creators :
         creation[c].at \in Remade \ {"cleanSas", "write"} => ByOrphan

PlanFits ==
    /\ row => plan # "partial"
    /\ \A c \in Creators :
         creation[c].at \in Remade \ {"cleanSas", "cleanPlan", "plan"} => plan # "partial"

(* The horizon is settled when the row is there, and nobody changes it. *)
RightHorizon(c) ==
    creation[c].horizon = IF creation[c].supplied > 0 THEN creation[c].supplied
                                                      ELSE PlanLength
Settled == {"insert", "row", "lpLock", "fasb"} \cup InProgram
HorizonFits ==
    \A c \in Creators : /\ creation[c].at \in Settled => RightHorizon(c)
                        /\ creation[c].result # "none" => creation[c].at = "done"
                        /\ creation[c].result = "ok" => RightHorizon(c)

(* Only whole programs get their final name. *)
ProgramFits ==
    /\ \A m \in Modes : lp[m] # "partial"
    /\ \A c \in Creators :
         /\ creation[c].at = "replace" => temp[c] = "whole"
         /\ creation[c].at = "fasb" => lp[creation[c].mode] = "whole"

TaskInv == /\ TypeOK /\ OneInTask /\ OneInProgram /\ RowFits /\ SasFits /\ PlanFits
           /\ HorizonFits /\ ProgramFits

(* What a creation without faults of its own may count on: the row, the    *)
(* translation and, if it has no plan of its own, the plan stay as they    *)
(* are once it has left the task, for nobody finds fault with them.        *)
Ready(c) ==
    /\ row /\ sas = "whole" /\ (creation[c].supplied = 0 => plan = "whole")
    /\ \A d \in Creators : creation[d].at # "delete"

UnhurtFits ==
    \A c \in Creators : Relies(c) /\ ~ creation[c].hurt =>
        /\ creation[c].at \in {"search", "plan", "horizon", "insert"} => sas = "whole"
        /\ creation[c].at \in {"search", "plan"} => creation[c].supplied = 0
        /\ creation[c].at \in {"horizon", "insert"} /\ creation[c].supplied = 0 => plan = "whole"
        /\ creation[c].at \in Settled \ {"insert"} => Ready(c)
        /\ creation[c].at = "done" => creation[c].result = "ok"

RepairInv == UnhurtFits

-----------------------------------------------------------------------------
(* What a step of one creation leaves as it is. *)
Others(c) == \A d \in Creators \ {c} : creation'[d] = creation[d]
Fixed(c) == /\ creation'[c].supplied = creation[c].supplied
            /\ creation'[c].mode = creation[c].mode

Moves(c, place, horizon, result, hurt) ==
    /\ creation' \in [Creators -> Creation]
    /\ Others(c) /\ Fixed(c)
    /\ creation'[c].at = place
    /\ creation'[c].horizon = horizon
    /\ creation'[c].result = result
    /\ creation'[c].hurt = hurt

GoesTo(c, place) ==
    Moves(c, place, creation[c].horizon, creation[c].result, creation[c].hurt)

LEMMA GotoMoves ==
    ASSUME TypeOK, NEW c \in Creators, NEW place \in Places,
           Goto(c, place)
    PROVE  GoesTo(c, place)
<1>1. creation \in [Creators -> Creation] /\ creation[c] \in Creation
  BY DEF TypeOK
<1>2. creation'[c] = [creation[c] EXCEPT !.at = place]
  BY <1>1 DEF Goto
<1>3. creation'[c] \in Creation
  BY <1>1, <1>2 DEF Creation, Places
<1> QED
  BY <1>1, <1>2, <1>3 DEF Goto, Others, Fixed, Moves, GoesTo, Creation

LEMMA LeaveMoves ==
    ASSUME TypeOK, NEW c \in Creators, NEW place \in Places, NEW horizon \in Nat, NEW result \in Results,
           Leave(c, [at |-> place, horizon |-> horizon, result |-> result])
    PROVE  Moves(c, place, horizon, result, creation[c].hurt) /\ taskLock' = None
<1>1. creation \in [Creators -> Creation] /\ creation[c] \in Creation
  BY DEF TypeOK
<1>2. creation'[c] = [creation[c] EXCEPT !.at = place, !.horizon = horizon,
                                         !.result = result]
  BY <1>1 DEF Leave
<1>3. creation'[c] \in Creation
  BY <1>1, <1>2 DEF Creation, Places
<1> QED
  BY <1>1, <1>2, <1>3 DEF Leave, Others, Fixed, Moves, GoesTo, Creation

LEMMA SettleMoves ==
    ASSUME TypeOK, NEW c \in Creators, NEW horizon \in Nat,
           creation' = [creation EXCEPT ![c].at = "insert", ![c].horizon = horizon]
    PROVE  Moves(c, "insert", horizon, creation[c].result, creation[c].hurt)
<1>1. creation \in [Creators -> Creation] /\ creation[c] \in Creation
  BY DEF TypeOK
<1>2. creation'[c] = [creation[c] EXCEPT !.at = "insert", !.horizon = horizon]
  BY <1>1
<1>3. creation'[c] \in Creation
  BY <1>1, <1>2 DEF Creation, Places, InTask
<1> QED
  BY <1>1, <1>2, <1>3 DEF Others, Fixed, Moves, Creation

LEMMA FinishMoves ==
    ASSUME TypeOK, NEW c \in Creators, NEW result \in Results,
           Finish(c, result)
    PROVE  Moves(c, "done", creation[c].horizon, result, creation[c].hurt)
<1>1. creation \in [Creators -> Creation] /\ creation[c] \in Creation
  BY DEF TypeOK
<1>2. creation'[c] = [creation[c] EXCEPT !.at = "done", !.result = result]
  BY <1>1 DEF Finish
<1>3. creation'[c] \in Creation
  BY <1>1, <1>2 DEF Creation, Places
<1> QED
  BY <1>1, <1>2, <1>3 DEF Finish, Others, Fixed, Moves, GoesTo, Creation

LEMMA FaultMoves ==
    ASSUME TypeOK, NEW c \in Creators, NEW result \in Results,
           creation' = [creation EXCEPT ![c].at = "done", ![c].result = result,
                                        ![c].hurt = TRUE]
    PROVE  Moves(c, "done", creation[c].horizon, result, TRUE)
<1>1. creation \in [Creators -> Creation] /\ creation[c] \in Creation
  BY DEF TypeOK
<1>2. creation'[c] = [creation[c] EXCEPT !.at = "done", !.result = result, !.hurt = TRUE]
  BY <1>1
<1>3. creation'[c] \in Creation
  BY <1>1, <1>2 DEF Creation, Places
<1> QED
  BY <1>1, <1>2, <1>3 DEF Others, Fixed, Moves, GoesTo, Creation

-----------------------------------------------------------------------------
(* Running Fast Downward under the lock of the task. *)
LEMMA TaskKept ==
    ASSUME TaskCacheAssumption, TaskInv, NEW c \in Creators,
           Begin(c) \/ Lock(c) \/ Translation(c)
    PROVE  TaskInv' /\ (RepairInv => RepairInv')
<1>0. TypeOK /\ creation[c] \in Creation
  BY DEF TaskInv, TypeOK
<1>1. CASE Begin(c)
  <2>1. GoesTo(c, "lock")
    BY <1>0, <1>1, GotoMoves DEF Begin, Places, InTask
  <2>2. TypeOK' /\ OneInTask' /\ OneInProgram'
    BY <1>1, <2>1, TaskCacheAssumption DEF Begin, GoesTo, At, diskVars,
       TaskInv, Moves, Others, Fixed, TypeOK, OneInTask, OneInProgram, InTask,
       InProgram, Contents
  <2>3. RowFits' /\ SasFits' /\ PlanFits'
    BY <1>1, <2>1 DEF Begin, GoesTo, At, diskVars, TaskInv, Moves, Others,
       Fixed, OneInTask, InTask, RowFits, Vouched, Remade, SasFits, ByOrphan,
       Undisturbed, PlanFits
  <2>4. HorizonFits' /\ ProgramFits'
    BY <1>1, <2>1 DEF Begin, GoesTo, At, diskVars, TaskInv, Moves, Others,
       Fixed, TypeOK, RowFits, PlanFits, Vouched, Remade, HorizonFits,
       Settled, InProgram, RightHorizon, OneInProgram, ProgramFits, Contents
  <2>5. RepairInv => RepairInv'
    BY <1>1, <2>1 DEF Begin, GoesTo, At, diskVars, TaskInv, Moves, Others,
       Fixed, RepairInv, Relies, UnhurtFits, Ready, Settled, InProgram,
       OneInTask, InTask, RowFits, Remade, Vouched
  <2> QED
    BY <2>2, <2>3, <2>4, <2>5 DEF TaskInv
<1>2. CASE Lock(c)
  <2>1. GoesTo(c, "lookup")
    BY <1>0, <1>2, GotoMoves DEF Lock, Places, InTask
  <2>2. TypeOK' /\ OneInTask' /\ OneInProgram'
    BY <1>2, <2>1, TaskCacheAssumption DEF Lock, GoesTo, At, diskVars,
       TaskInv, Moves, Others, Fixed, TypeOK, OneInTask, OneInProgram, InTask,
       InProgram, Contents
  <2>3. RowFits' /\ SasFits' /\ PlanFits'
    BY <1>2, <2>1 DEF Lock, GoesTo, At, diskVars, TaskInv, Moves, Others,
       Fixed, OneInTask, InTask, RowFits, Vouched, Remade, SasFits, ByOrphan,
       Undisturbed, PlanFits
  <2>4. HorizonFits' /\ ProgramFits'
    BY <1>2, <2>1 DEF Lock, GoesTo, At, diskVars, TaskInv, Moves, Others,
       Fixed, TypeOK, RowFits, PlanFits, Vouched, Remade, HorizonFits,
       Settled, InProgram, RightHorizon, OneInProgram, ProgramFits, Contents
  <2>5. RepairInv => RepairInv'
    BY <1>2, <2>1 DEF Lock, GoesTo, At, diskVars, TaskInv, Moves, Others,
       Fixed, RepairInv, Relies, UnhurtFits, Ready, Settled, InProgram,
       OneInTask, InTask, RowFits, Remade, Vouched
  <2> QED
    BY <2>2, <2>3, <2>4, <2>5 DEF TaskInv
<1>3. CASE Lookup(c)
  <2>1. GoesTo(c, IF row THEN "check" ELSE "cleanSas")
    BY <1>0, <1>3, GotoMoves DEF Lookup, Places, InTask
  <2>2. TypeOK' /\ OneInTask' /\ OneInProgram'
    BY <1>3, <2>1, TaskCacheAssumption DEF Lookup, GoesTo, At, diskVars,
       TaskInv, Moves, Others, Fixed, TypeOK, OneInTask, OneInProgram, InTask,
       InProgram, Contents
  <2>3. RowFits' /\ SasFits' /\ PlanFits'
    BY <1>3, <2>1 DEF Lookup, GoesTo, At, diskVars, TaskInv, Moves, Others,
       Fixed, OneInTask, InTask, RowFits, Vouched, Remade, SasFits, ByOrphan,
       Undisturbed, PlanFits
  <2>4. HorizonFits' /\ ProgramFits'
    BY <1>3, <2>1 DEF Lookup, GoesTo, At, diskVars, TaskInv, Moves, Others,
       Fixed, TypeOK, RowFits, PlanFits, Vouched, Remade, HorizonFits,
       Settled, InProgram, RightHorizon, OneInProgram, ProgramFits, Contents
  <2>5. RepairInv => RepairInv'
    BY <1>3, <2>1 DEF Lookup, GoesTo, At, diskVars, TaskInv, Moves, Others,
       Fixed, RepairInv, Relies, UnhurtFits, Ready, Settled, InProgram,
       OneInTask, InTask, RowFits, Remade, Vouched
  <2> QED
    BY <2>2, <2>3, <2>4, <2>5 DEF TaskInv
<1>4. CASE DeleteRow(c)
  <2>1. GoesTo(c, "cleanSas")
    BY <1>0, <1>4, GotoMoves DEF DeleteRow, Places, InTask
  <2>2. TypeOK' /\ OneInTask' /\ OneInProgram'
    BY <1>4, <2>1, TaskCacheAssumption DEF DeleteRow, GoesTo, At, diskVars,
       TaskInv, Moves, Others, Fixed, TypeOK, OneInTask, OneInProgram, InTask,
       InProgram, Contents
  <2>3. RowFits' /\ SasFits' /\ PlanFits'
    BY <1>4, <2>1 DEF DeleteRow, GoesTo, At, diskVars, TaskInv, Moves, Others,
       Fixed, OneInTask, InTask, RowFits, Vouched, Remade, SasFits, ByOrphan,
       Undisturbed, PlanFits
  <2>4. HorizonFits' /\ ProgramFits'
    BY <1>4, <2>1 DEF DeleteRow, GoesTo, At, diskVars, TaskInv, Moves, Others,
       Fixed, TypeOK, RowFits, PlanFits, Vouched, Remade, HorizonFits,
       Settled, InProgram, RightHorizon, OneInProgram, ProgramFits, Contents
  <2>5. RepairInv => RepairInv'
    BY <1>4, <2>1 DEF DeleteRow, GoesTo, At, diskVars, TaskInv, Moves, Others,
       Fixed, RepairInv, Relies, UnhurtFits, Ready, Settled, InProgram,
       OneInTask, InTask, RowFits, Remade, Vouched
  <2> QED
    BY <2>2, <2>3, <2>4, <2>5 DEF TaskInv
<1>5. CASE CleanSas(c)
  <2>1. GoesTo(c, "cleanPlan")
    BY <1>0, <1>5, GotoMoves DEF CleanSas, Places, InTask
  <2>2. TypeOK' /\ OneInTask' /\ OneInProgram'
    BY <1>5, <2>1, TaskCacheAssumption DEF CleanSas, GoesTo, At, diskVars,
       TaskInv, Moves, Others, Fixed, TypeOK, OneInTask, OneInProgram, InTask,
       InProgram, Contents
  <2>3. RowFits' /\ SasFits' /\ PlanFits'
    BY <1>5, <2>1 DEF CleanSas, GoesTo, At, diskVars, TaskInv, Moves, Others,
       Fixed, OneInTask, InTask, RowFits, Vouched, Remade, SasFits, ByOrphan,
       Undisturbed, PlanFits
  <2>4. HorizonFits' /\ ProgramFits'
    BY <1>5, <2>1 DEF CleanSas, GoesTo, At, diskVars, TaskInv, Moves, Others,
       Fixed, TypeOK, RowFits, PlanFits, Vouched, Remade, HorizonFits,
       Settled, InProgram, RightHorizon, OneInProgram, ProgramFits, Contents
  <2>5. RepairInv => RepairInv'
    BY <1>5, <2>1 DEF CleanSas, GoesTo, At, diskVars, TaskInv, Moves, Others,
       Fixed, RepairInv, Relies, UnhurtFits, Ready, Settled, InProgram,
       OneInTask, InTask, RowFits, Remade, Vouched
  <2> QED
    BY <2>2, <2>3, <2>4, <2>5 DEF TaskInv
<1>6. CASE CleanPlan(c)
  <2>1. GoesTo(c, "open")
    BY <1>0, <1>6, GotoMoves DEF CleanPlan, Places, InTask
  <2>2. TypeOK' /\ OneInTask' /\ OneInProgram'
    BY <1>6, <2>1, TaskCacheAssumption DEF CleanPlan, GoesTo, At, diskVars,
       TaskInv, Moves, Others, Fixed, TypeOK, OneInTask, OneInProgram, InTask,
       InProgram, Contents
  <2>3. RowFits' /\ SasFits' /\ PlanFits'
    BY <1>6, <2>1 DEF CleanPlan, GoesTo, At, diskVars, TaskInv, Moves, Others,
       Fixed, OneInTask, InTask, RowFits, Vouched, Remade, SasFits, ByOrphan,
       Undisturbed, PlanFits
  <2>4. HorizonFits' /\ ProgramFits'
    BY <1>6, <2>1 DEF CleanPlan, GoesTo, At, diskVars, TaskInv, Moves, Others,
       Fixed, TypeOK, RowFits, PlanFits, Vouched, Remade, HorizonFits,
       Settled, InProgram, RightHorizon, OneInProgram, ProgramFits, Contents
  <2>5. RepairInv => RepairInv'
    BY <1>6, <2>1 DEF CleanPlan, GoesTo, At, diskVars, TaskInv, Moves, Others,
       Fixed, RepairInv, Relies, UnhurtFits, Ready, Settled, InProgram,
       OneInTask, InTask, RowFits, Remade, Vouched
  <2> QED
    BY <2>2, <2>3, <2>4, <2>5 DEF TaskInv
<1>7. CASE OpenSas(c)
  <2>1. GoesTo(c, "write")
    BY <1>0, <1>7, GotoMoves DEF OpenSas, Places, InTask
  <2>2. TypeOK' /\ OneInTask' /\ OneInProgram'
    BY <1>7, <2>1, TaskCacheAssumption DEF OpenSas, GoesTo, At, diskVars,
       TaskInv, Moves, Others, Fixed, TypeOK, OneInTask, OneInProgram, InTask,
       InProgram, Contents
  <2>3. RowFits' /\ SasFits' /\ PlanFits'
    BY <1>7, <2>1 DEF OpenSas, GoesTo, At, diskVars, TaskInv, Moves, Others,
       Fixed, OneInTask, InTask, RowFits, Vouched, Remade, SasFits, ByOrphan,
       Undisturbed, PlanFits
  <2>4. HorizonFits' /\ ProgramFits'
    BY <1>7, <2>1 DEF OpenSas, GoesTo, At, diskVars, TaskInv, Moves, Others,
       Fixed, TypeOK, RowFits, PlanFits, Vouched, Remade, HorizonFits,
       Settled, InProgram, RightHorizon, OneInProgram, ProgramFits, Contents
  <2>5. RepairInv => RepairInv'
    BY <1>7, <2>1 DEF OpenSas, GoesTo, At, diskVars, TaskInv, Moves, Others,
       Fixed, RepairInv, Relies, UnhurtFits, Ready, Settled, InProgram,
       OneInTask, InTask, RowFits, Remade, Vouched
  <2> QED
    BY <2>2, <2>3, <2>4, <2>5 DEF TaskInv
<1>8. CASE WriteSas(c)
  <2>1. GoesTo(c, IF creation[c].supplied > 0 THEN "horizon" ELSE "search")
    BY <1>0, <1>8, GotoMoves DEF WriteSas, Places, InTask
  <2>2. TypeOK' /\ OneInTask' /\ OneInProgram'
    BY <1>8, <2>1, TaskCacheAssumption DEF WriteSas, GoesTo, At, diskVars,
       TaskInv, Moves, Others, Fixed, TypeOK, OneInTask, OneInProgram, InTask,
       InProgram, Contents
  <2>3. RowFits' /\ SasFits' /\ PlanFits'
    BY <1>8, <2>1 DEF WriteSas, GoesTo, At, diskVars, TaskInv, Moves, Others,
       Fixed, OneInTask, InTask, RowFits, Vouched, Remade, SasFits, ByOrphan,
       Undisturbed, PlanFits
  <2>4. HorizonFits' /\ ProgramFits'
    BY <1>8, <2>1 DEF WriteSas, GoesTo, At, diskVars, TaskInv, Moves, Others,
       Fixed, TypeOK, RowFits, PlanFits, Vouched, Remade, HorizonFits,
       Settled, InProgram, RightHorizon, OneInProgram, ProgramFits, Contents
  <2>5. RepairInv => RepairInv'
    <3>1. creation[c].supplied \in Nat
      BY <1>0, TaskCacheAssumption DEF Creation
    <3> QED
      BY <1>8, <2>1, <3>1 DEF WriteSas, GoesTo, At, diskVars, TaskInv, Moves, Others,
         Fixed, RepairInv, Relies, UnhurtFits, Ready, Settled, InProgram,
         OneInTask, InTask, RowFits, Remade, Vouched
  <2> QED
    BY <2>2, <2>3, <2>4, <2>5 DEF TaskInv
<1>9. CASE WritePlan(c)
  <2>1. GoesTo(c, "horizon")
    BY <1>0, <1>9, GotoMoves DEF WritePlan, Places, InTask
  <2>2. TypeOK' /\ OneInTask' /\ OneInProgram'
    BY <1>9, <2>1, TaskCacheAssumption DEF WritePlan, GoesTo, At, diskVars,
       TaskInv, Moves, Others, Fixed, TypeOK, OneInTask, OneInProgram, InTask,
       InProgram, Contents
  <2>3. RowFits' /\ SasFits' /\ PlanFits'
    BY <1>9, <2>1 DEF WritePlan, GoesTo, At, diskVars, TaskInv, Moves, Others,
       Fixed, OneInTask, InTask, RowFits, Vouched, Remade, SasFits, ByOrphan,
       Undisturbed, PlanFits
  <2>4. HorizonFits' /\ ProgramFits'
    BY <1>9, <2>1 DEF WritePlan, GoesTo, At, diskVars, TaskInv, Moves, Others,
       Fixed, TypeOK, RowFits, PlanFits, Vouched, Remade, HorizonFits,
       Settled, InProgram, RightHorizon, OneInProgram, ProgramFits, Contents
  <2>5. RepairInv => RepairInv'
    BY <1>9, <2>1 DEF WritePlan, GoesTo, At, diskVars, TaskInv, Moves, Others,
       Fixed, RepairInv, Relies, UnhurtFits, Ready, Settled, InProgram,
       OneInTask, InTask, RowFits, Remade, Vouched
  <2> QED
    BY <2>2, <2>3, <2>4, <2>5 DEF TaskInv
<1>10. CASE CheckRow(c)
  <2>1. PICK horizon \in RowHorizons(c) :
          IF horizon = 0 THEN Goto(c, "delete") /\ UNCHANGED taskLock
                         ELSE Leave(c, Prepared(horizon))
    BY <1>10 DEF CheckRow
  <2>2. CASE horizon = 0
    <3>1. GoesTo(c, "delete") /\ UNCHANGED taskLock
      BY <1>0, <2>1, <2>2, GotoMoves DEF Places, InTask
    <3>2. \A d \in Creators : Relies(d) => ~ Ready(d)
      <4>1. creation[c].supplied \in Nat
        BY <1>0, TaskCacheAssumption DEF Creation
      <4>2. sas = "absent" \/ (creation[c].supplied = 0 /\ 0 \in Horizons(plan))
        BY <2>1, <2>2, <4>1 DEF RowHorizons, GivenHorizons
      <4>3. 0 \in Horizons(plan) => plan # "whole" \/ PlanLength = 0
        BY DEF Horizons
      <4> QED
        BY <4>2, <4>3 DEF Relies, Ready
    <3>3. TypeOK' /\ OneInTask' /\ OneInProgram'
      BY <1>10, <3>1, TaskCacheAssumption DEF CheckRow, GoesTo, At, diskVars,
         TaskInv, Moves, Others, Fixed, TypeOK, OneInTask, OneInProgram,
         InTask, InProgram, Contents
    <3>4. RowFits' /\ SasFits' /\ PlanFits'
      BY <1>10, <3>1 DEF CheckRow, GoesTo, At, diskVars, TaskInv, Moves,
         Others, Fixed, OneInTask, InTask, RowFits, Vouched, Remade, SasFits,
         ByOrphan, Undisturbed, PlanFits
    <3>5. HorizonFits' /\ ProgramFits'
      BY <1>10, <3>1 DEF CheckRow, GoesTo, At, diskVars, TaskInv, Moves,
         Others, Fixed, TypeOK, RowFits, PlanFits, Vouched, Remade,
         HorizonFits, Settled, InProgram, RightHorizon, OneInProgram,
         ProgramFits, Contents
    <3>6. RepairInv => RepairInv'
      BY <1>10, <3>1, <3>2 DEF CheckRow, GoesTo, At, diskVars, TaskInv, Moves,
         Others, Fixed, RepairInv, Relies, UnhurtFits, Ready, Settled,
         InProgram, OneInTask, InTask, RowFits, Remade, Vouched
    <3> QED
      BY <3>3, <3>4, <3>5, <3>6 DEF TaskInv
  <2>3. CASE horizon # 0
    <3>1. /\ horizon \in Nat
          /\ row /\ plan # "partial"
          /\ horizon = IF creation[c].supplied > 0 THEN creation[c].supplied
                                                   ELSE PlanLength
      BY <1>0, <1>10, <2>1, <2>3, TaskCacheAssumption
      DEF CheckRow, At, RowHorizons, GivenHorizons, Horizons, Creation, TaskInv,
          RowFits, Vouched, PlanFits
    <3>2. Moves(c, "row", horizon, "none", creation[c].hurt) /\ taskLock' = None
      BY <1>0, <2>1, <2>3, <3>1, LeaveMoves DEF Prepared, Places, Results
    <3>3. Relies(c) /\ ~ creation[c].hurt =>
            sas = "whole" /\ (creation[c].supplied = 0 => plan = "whole")
      BY <1>0, <1>10, <2>1, <2>3, <3>1
      DEF CheckRow, At, RowHorizons, GivenHorizons, Horizons, TypeOK,
          Contents, TaskInv, SasFits, ByOrphan, Undisturbed
    <3>4. TypeOK' /\ OneInTask' /\ OneInProgram'
      BY <1>10, <3>1, <3>2, TaskCacheAssumption DEF CheckRow, At, diskVars,
         TaskInv, Moves, Others, Fixed, TypeOK, OneInTask, OneInProgram,
         InTask, InProgram, Contents
    <3>5. RowFits' /\ SasFits' /\ PlanFits'
      BY <1>10, <3>1, <3>2 DEF CheckRow, At, diskVars, TaskInv, Moves, Others,
         Fixed, OneInTask, InTask, RowFits, Vouched, Remade, SasFits,
         ByOrphan, Undisturbed, PlanFits
    <3>6. HorizonFits' /\ ProgramFits'
      BY <1>10, <3>1, <3>2 DEF CheckRow, At, diskVars, TaskInv, Moves, Others,
         Fixed, TypeOK, RowFits, PlanFits, Vouched, Remade, HorizonFits,
         Settled, InProgram, RightHorizon, OneInProgram, ProgramFits, Contents
    <3>7. RepairInv => RepairInv'
      BY <1>10, <3>1, <3>2, <3>3 DEF CheckRow, At, diskVars, TaskInv, Moves,
         Others, Fixed, RepairInv, Relies, UnhurtFits, Ready, Settled,
         InProgram, OneInTask, InTask, RowFits, Remade, Vouched
    <3> QED
      BY <3>4, <3>5, <3>6, <3>7 DEF TaskInv
  <2> QED
    BY <2>2, <2>3
<1>11. CASE FindPlan(c)
  <2>1. CASE PlanLength = 0
    <3>1. /\ Moves(c, "done", 0, "noPlan", creation[c].hurt)
          /\ taskLock' = None /\ UNCHANGED plan
      BY <1>0, <1>11, <2>1, LeaveMoves DEF FindPlan, Failed, Places, Results
    <3>2. TypeOK' /\ OneInTask' /\ OneInProgram'
      BY <1>11, <3>1, TaskCacheAssumption DEF FindPlan, At, TaskInv, Moves,
         Others, Fixed, TypeOK, OneInTask, OneInProgram, InTask, InProgram,
         Contents
    <3>3. RowFits' /\ SasFits' /\ PlanFits'
      BY <1>11, <3>1 DEF FindPlan, At, TaskInv, Moves, Others, Fixed,
         OneInTask, InTask, RowFits, Vouched, Remade, SasFits, ByOrphan,
         Undisturbed, PlanFits
    <3>4. HorizonFits' /\ ProgramFits'
      BY <1>11, <3>1 DEF FindPlan, At, TaskInv, Moves, Others, Fixed, TypeOK,
         RowFits, PlanFits, Vouched, Remade, HorizonFits, Settled, InProgram,
         RightHorizon, OneInProgram, ProgramFits, Contents
    <3>5. RepairInv => RepairInv'
      BY <1>11, <3>1 DEF FindPlan, At, TaskInv, Moves, Others, Fixed,
         RepairInv, Relies, UnhurtFits, Ready, Settled, InProgram, OneInTask,
         InTask, RowFits, Remade, Vouched
    <3> QED
      BY <3>2, <3>3, <3>4, <3>5 DEF TaskInv
  <2>2. CASE PlanLength # 0
    <3>1. GoesTo(c, "plan") /\ UNCHANGED taskLock /\ plan' = "partial"
      BY <1>0, <1>11, <2>2, GotoMoves DEF FindPlan, Places, InTask
    <3>2. TypeOK' /\ OneInTask' /\ OneInProgram'
      BY <1>11, <3>1, TaskCacheAssumption DEF FindPlan, GoesTo, At, TaskInv,
         Moves, Others, Fixed, TypeOK, OneInTask, OneInProgram, InTask,
         InProgram, Contents
    <3>3. RowFits' /\ SasFits' /\ PlanFits'
      BY <1>11, <3>1 DEF FindPlan, GoesTo, At, TaskInv, Moves, Others, Fixed,
         OneInTask, InTask, RowFits, Vouched, Remade, SasFits, ByOrphan,
         Undisturbed, PlanFits
    <3>4. HorizonFits' /\ ProgramFits'
      BY <1>11, <3>1 DEF FindPlan, GoesTo, At, TaskInv, Moves, Others, Fixed,
         TypeOK, RowFits, PlanFits, Vouched, Remade, HorizonFits, Settled,
         InProgram, RightHorizon, OneInProgram, ProgramFits, Contents
    <3>5. RepairInv => RepairInv'
      BY <1>11, <3>1 DEF FindPlan, GoesTo, At, TaskInv, Moves, Others, Fixed,
         RepairInv, Relies, UnhurtFits, Ready, Settled, InProgram, OneInTask,
         InTask, RowFits, Remade, Vouched
    <3> QED
      BY <3>2, <3>3, <3>4, <3>5 DEF TaskInv
  <2> QED
    BY <2>1, <2>2
<1>12. CASE ReadHorizon(c)
  <2>1. PICK horizon \in GivenHorizons(c) :
          IF horizon = 0 THEN Leave(c, Failed("noPlan"))
          ELSE IF sas = "absent" THEN Leave(c, Failed("error"))
          ELSE /\ creation' = [creation EXCEPT ![c].at = "insert",
                                               ![c].horizon = horizon]
               /\ UNCHANGED taskLock
    BY <1>12 DEF ReadHorizon
  <2>2. CASE horizon = 0 \/ sas = "absent"
    <3>1. \E result \in {"noPlan", "error"} :
            Leave(c, [at |-> "done", horizon |-> 0, result |-> result])
      BY <2>1, <2>2 DEF Failed
    <3>2. \E result \in {"noPlan", "error"} :
            Moves(c, "done", 0, result, creation[c].hurt) /\ taskLock' = None
      BY <1>0, <3>1, LeaveMoves DEF Places, Results
    <3>3. RepairInv /\ Relies(c) => creation[c].hurt
      BY <1>0, <1>12, <2>1, <2>2, TaskCacheAssumption
      DEF ReadHorizon, At, RepairInv, UnhurtFits, Relies, GivenHorizons, Horizons,
          Creation
    <3>4. TypeOK' /\ OneInTask' /\ OneInProgram'
      BY <1>12, <3>2, TaskCacheAssumption DEF ReadHorizon, At, diskVars,
         TaskInv, Moves, Others, Fixed, TypeOK, OneInTask, OneInProgram,
         InTask, InProgram, Contents
    <3>5. RowFits' /\ SasFits' /\ PlanFits'
      BY <1>12, <3>2 DEF ReadHorizon, At, diskVars, TaskInv, Moves, Others,
         Fixed, OneInTask, InTask, RowFits, Vouched, Remade, SasFits,
         ByOrphan, Undisturbed, PlanFits
    <3>6. HorizonFits' /\ ProgramFits'
      BY <1>12, <3>2 DEF ReadHorizon, At, diskVars, TaskInv, Moves, Others,
         Fixed, TypeOK, RowFits, PlanFits, Vouched, Remade, HorizonFits,
         Settled, InProgram, RightHorizon, OneInProgram, ProgramFits, Contents
    <3>7. RepairInv => RepairInv'
      BY <1>12, <3>2, <3>3 DEF ReadHorizon, At, diskVars, TaskInv, Moves,
         Others, Fixed, RepairInv, Relies, UnhurtFits, Ready, Settled,
         InProgram, OneInTask, InTask, RowFits, Remade, Vouched
    <3> QED
      BY <3>4, <3>5, <3>6, <3>7 DEF TaskInv
  <2>3. CASE horizon # 0 /\ sas # "absent"
    <3>1. /\ horizon \in Nat
          /\ horizon = IF creation[c].supplied > 0 THEN creation[c].supplied
                                                   ELSE PlanLength
      BY <1>0, <1>12, <2>1, <2>3, TaskCacheAssumption
      DEF ReadHorizon, At, GivenHorizons, Horizons, Creation, TaskInv, Remade,
          PlanFits
    <3>2. creation' = [creation EXCEPT ![c].at = "insert", ![c].horizon = horizon]
      BY <2>1, <2>3
    <3>3. /\ Moves(c, "insert", horizon, creation[c].result, creation[c].hurt)
          /\ UNCHANGED taskLock
      BY <1>0, <2>1, <2>3, <3>1, <3>2, SettleMoves
    <3>4. TypeOK' /\ OneInTask' /\ OneInProgram'
      BY <1>12, <3>1, <3>3, TaskCacheAssumption DEF ReadHorizon, At, diskVars,
         TaskInv, Moves, Others, Fixed, TypeOK, OneInTask, OneInProgram,
         InTask, InProgram, Contents
    <3>5. RowFits' /\ SasFits' /\ PlanFits'
      BY <1>12, <3>1, <3>3 DEF ReadHorizon, At, diskVars, TaskInv, Moves,
         Others, Fixed, OneInTask, InTask, RowFits, Vouched, Remade, SasFits,
         ByOrphan, Undisturbed, PlanFits
    <3>6. HorizonFits' /\ ProgramFits'
      BY <1>12, <3>1, <3>3 DEF ReadHorizon, At, diskVars, TaskInv, Moves,
         Others, Fixed, TypeOK, RowFits, PlanFits, Vouched, Remade,
         HorizonFits, Settled, InProgram, RightHorizon, OneInProgram,
         ProgramFits, Contents
    <3>7. RepairInv => RepairInv'
      BY <1>12, <3>1, <3>3 DEF ReadHorizon, At, diskVars, TaskInv, Moves,
         Others, Fixed, RepairInv, Relies, UnhurtFits, Ready, Settled,
         InProgram, OneInTask, InTask, RowFits, Remade, Vouched
    <3> QED
      BY <3>4, <3>5, <3>6, <3>7 DEF TaskInv
  <2> QED
    BY <2>2, <2>3
<1>13. CASE Insert(c)
  <2>1. /\ Moves(c, "row", creation[c].horizon, "none", creation[c].hurt)
        /\ taskLock' = None
    BY <1>0, <1>13, LeaveMoves DEF Insert, Prepared, Places, Results, Creation
  <2>2. TypeOK' /\ OneInTask' /\ OneInProgram'
    BY <1>13, <2>1, TaskCacheAssumption DEF Insert, At, diskVars, TaskInv,
       Moves, Others, Fixed, TypeOK, OneInTask, OneInProgram, InTask,
       InProgram, Contents
  <2>3. RowFits' /\ SasFits' /\ PlanFits'
    BY <1>13, <2>1 DEF Insert, At, diskVars, TaskInv, Moves, Others, Fixed,
       OneInTask, InTask, RowFits, Vouched, Remade, SasFits, ByOrphan,
       Undisturbed, PlanFits
  <2>4. HorizonFits' /\ ProgramFits'
    BY <1>13, <2>1 DEF Insert, At, diskVars, TaskInv, Moves, Others, Fixed,
       TypeOK, RowFits, PlanFits, Vouched, Remade, HorizonFits, Settled,
       InProgram, RightHorizon, OneInProgram, ProgramFits, Contents
  <2>5. RepairInv => RepairInv'
    BY <1>13, <2>1 DEF Insert, At, diskVars, TaskInv, Moves, Others, Fixed,
       RepairInv, Relies, UnhurtFits, Ready, Settled, InProgram, OneInTask,
       InTask, RowFits, Remade, Vouched
  <2> QED
    BY <2>2, <2>3, <2>4, <2>5 DEF TaskInv
<1> QED
  BY <1>1, <1>2, <1>3, <1>4, <1>5, <1>6, <1>7, <1>8, <1>9, <1>10, <1>11,
     <1>12, <1>13 DEF Translation

-----------------------------------------------------------------------------
(* Making the logic program under its own lock, and starting FASB. *)
LEMMA ProgramKept ==
    ASSUME TaskCacheAssumption, TaskInv, NEW c \in Creators,
           LockProgram(c) \/ Program(c)
    PROVE  TaskInv' /\ (RepairInv => RepairInv')
<1>0. TypeOK /\ creation[c] \in Creation
  BY DEF TaskInv, TypeOK
<1>1. CASE FindRow(c)
  <2>1. CASE row
    <3>1. GoesTo(c, "lpLock")
      BY <1>0, <1>1, <2>1, GotoMoves DEF FindRow, Places
    <3>2. TypeOK' /\ OneInTask' /\ OneInProgram'
      BY <1>1, <3>1, TaskCacheAssumption DEF FindRow, GoesTo, At, diskVars,
         TaskInv, Moves, Others, Fixed, TypeOK, OneInTask, OneInProgram,
         InTask, InProgram, Contents
    <3>3. RowFits' /\ SasFits' /\ PlanFits'
      BY <1>1, <3>1 DEF FindRow, GoesTo, At, diskVars, TaskInv, Moves, Others,
         Fixed, OneInTask, InTask, RowFits, Vouched, Remade, SasFits,
         ByOrphan, Undisturbed, PlanFits
    <3>4. HorizonFits' /\ ProgramFits'
      BY <1>1, <3>1 DEF FindRow, GoesTo, At, diskVars, TaskInv, Moves, Others,
         Fixed, TypeOK, RowFits, PlanFits, Vouched, Remade, HorizonFits,
         Settled, InProgram, RightHorizon, OneInProgram, ProgramFits, Contents
    <3>5. RepairInv => RepairInv'
      BY <1>1, <3>1 DEF FindRow, GoesTo, At, diskVars, TaskInv, Moves, Others,
         Fixed, RepairInv, Relies, UnhurtFits, Ready, Settled, InProgram,
         OneInTask, InTask, RowFits, Remade, Vouched
    <3> QED
      BY <3>2, <3>3, <3>4, <3>5 DEF TaskInv
  <2>2. CASE ~ row
    <3>1. Moves(c, "done", creation[c].horizon, "error", creation[c].hurt)
      BY <1>0, <1>1, <2>2, FinishMoves DEF FindRow, Results
    <3>2. RepairInv /\ Relies(c) => creation[c].hurt
      BY <1>1, <2>2 DEF FindRow, At, RepairInv, UnhurtFits, Settled, Ready
    <3>3. TypeOK' /\ OneInTask' /\ OneInProgram'
      BY <1>1, <3>1, TaskCacheAssumption DEF FindRow, At, diskVars, TaskInv,
         Moves, Others, Fixed, TypeOK, OneInTask, OneInProgram, InTask,
         InProgram, Contents
    <3>4. RowFits' /\ SasFits' /\ PlanFits'
      BY <1>1, <3>1 DEF FindRow, At, diskVars, TaskInv, Moves, Others, Fixed,
         OneInTask, InTask, RowFits, Vouched, Remade, SasFits, ByOrphan,
         Undisturbed, PlanFits
    <3>5. HorizonFits' /\ ProgramFits'
      BY <1>1, <3>1 DEF FindRow, At, diskVars, TaskInv, Moves, Others, Fixed,
         TypeOK, RowFits, PlanFits, Vouched, Remade, HorizonFits, Settled,
         InProgram, RightHorizon, OneInProgram, ProgramFits, Contents
    <3>6. RepairInv => RepairInv'
      BY <1>1, <3>1, <3>2 DEF FindRow, At, diskVars, TaskInv, Moves, Others,
         Fixed, RepairInv, Relies, UnhurtFits, Ready, Settled, InProgram,
         OneInTask, InTask, RowFits, Remade, Vouched
    <3> QED
      BY <3>3, <3>4, <3>5, <3>6 DEF TaskInv
  <2> QED
    BY <2>1, <2>2
<1>2. CASE LockProgram(c)
  <2>1. GoesTo(c, "lpCheck")
    BY <1>0, <1>2, GotoMoves DEF LockProgram, Places, InProgram
  <2>2. TypeOK'
    BY <1>2, <2>1 DEF LockProgram, GoesTo, At, diskVars, TaskInv, Moves,
       Others, Fixed, TypeOK, InTask, InProgram, Contents
  <2>3. OneInTask' /\ OneInProgram'
    BY <1>2, <2>1, TaskCacheAssumption DEF LockProgram, GoesTo, At, diskVars,
       TaskInv, Moves, Others, Fixed, TypeOK, OneInTask, OneInProgram, InTask,
       InProgram, Creation
  <2>4. RowFits' /\ SasFits' /\ PlanFits'
    BY <1>2, <2>1 DEF LockProgram, GoesTo, At, diskVars, TaskInv, Moves,
       Others, Fixed, OneInTask, InTask, RowFits, Vouched, Remade, SasFits,
       ByOrphan, Undisturbed, PlanFits
  <2>5. HorizonFits' /\ ProgramFits'
    BY <1>2, <2>1 DEF LockProgram, GoesTo, At, diskVars, TaskInv, Moves,
       Others, Fixed, TypeOK, RowFits, PlanFits, Vouched, Remade, HorizonFits,
       Settled, InProgram, RightHorizon, OneInProgram, ProgramFits, Contents
  <2>6. RepairInv => RepairInv'
    BY <1>2, <2>1 DEF LockProgram, GoesTo, At, diskVars, TaskInv, Moves,
       Others, Fixed, RepairInv, Relies, UnhurtFits, Ready, Settled, InProgram,
       OneInTask, InTask, RowFits, Remade, Vouched
  <2> QED
    BY <2>2, <2>3, <2>4, <2>5, <2>6 DEF TaskInv
<1>3. CASE CheckProgram(c)
  <2>1. CASE lp[creation[c].mode] = "absent"
    <3>1. GoesTo(c, "lpOpen") /\ UNCHANGED lpLock
      BY <1>0, <1>3, <2>1, GotoMoves DEF CheckProgram, Places, InProgram
    <3>2. TypeOK' /\ OneInTask' /\ OneInProgram'
      BY <1>3, <3>1, TaskCacheAssumption DEF CheckProgram, GoesTo, At,
         diskVars, TaskInv, Moves, Others, Fixed, TypeOK, OneInTask,
         OneInProgram, InTask, InProgram, Contents
    <3>3. RowFits' /\ SasFits' /\ PlanFits'
      BY <1>3, <3>1 DEF CheckProgram, GoesTo, At, diskVars, TaskInv, Moves,
         Others, Fixed, OneInTask, InTask, RowFits, Vouched, Remade, SasFits,
         ByOrphan, Undisturbed, PlanFits
    <3>4. HorizonFits' /\ ProgramFits'
      BY <1>3, <3>1 DEF CheckProgram, GoesTo, At, diskVars, TaskInv, Moves,
         Others, Fixed, TypeOK, RowFits, PlanFits, Vouched, Remade,
         HorizonFits, Settled, InProgram, RightHorizon, OneInProgram,
         ProgramFits, Contents
    <3>5. RepairInv => RepairInv'
      BY <1>3, <3>1 DEF CheckProgram, GoesTo, At, diskVars, TaskInv, Moves,
         Others, Fixed, RepairInv, Relies, UnhurtFits, Ready, Settled,
         InProgram, OneInTask, InTask, RowFits, Remade, Vouched
    <3> QED
      BY <3>2, <3>3, <3>4, <3>5 DEF TaskInv
  <2>2. CASE lp[creation[c].mode] # "absent"
    <3>1. GoesTo(c, "fasb") /\ UnlockProgram(c)
      BY <1>0, <1>3, <2>2, GotoMoves DEF CheckProgram, Places
    <3>2. lp[creation[c].mode] = "whole"
      BY <1>0, <2>2 DEF TypeOK, Contents, Creation, TaskInv, ProgramFits
    <3>3. TypeOK' /\ OneInTask' /\ OneInProgram'
      BY <1>3, <3>1, <3>2, TaskCacheAssumption DEF CheckProgram,
         UnlockProgram, Creation, GoesTo, At, diskVars, TaskInv, Moves,
         Others, Fixed, TypeOK, OneInTask, OneInProgram, InTask, InProgram,
         Contents
    <3>4. RowFits' /\ SasFits' /\ PlanFits'
      BY <1>3, <3>1, <3>2 DEF CheckProgram, UnlockProgram, Creation, GoesTo,
         At, diskVars, TaskInv, Moves, Others, Fixed, OneInTask, InTask,
         RowFits, Vouched, Remade, SasFits, ByOrphan, Undisturbed, PlanFits
    <3>5. HorizonFits'
      BY <1>3, <3>1, <3>2 DEF CheckProgram, UnlockProgram, Creation, GoesTo,
         At, diskVars, TaskInv, Moves, Others, Fixed, HorizonFits, Settled,
         InProgram, RightHorizon
    <3>6. ProgramFits'
      BY <1>3, <3>1, <3>2 DEF CheckProgram, UnlockProgram, Creation, GoesTo,
         At, diskVars, TaskInv, Moves, Others, Fixed, TypeOK, OneInProgram,
         InProgram, ProgramFits, Contents
    <3>7. RepairInv => RepairInv'
      BY <1>3, <3>1, <3>2 DEF CheckProgram, UnlockProgram, Creation, GoesTo,
         At, diskVars, TaskInv, Moves, Others, Fixed, RepairInv, Relies,
         UnhurtFits, Ready, Settled, InProgram, OneInTask, InTask, RowFits,
         Remade, Vouched
    <3> QED
      BY <3>3, <3>4, <3>5, <3>6, <3>7 DEF TaskInv
  <2> QED
    BY <2>1, <2>2
<1>4. CASE OpenProgram(c)
  <2>1. GoesTo(c, "plasp")
    BY <1>0, <1>4, GotoMoves DEF OpenProgram, Places, InProgram
  <2>2. TypeOK'
    BY <1>4, <2>1 DEF OpenProgram, GoesTo, At, diskVars, TaskInv, Moves,
       Others, Fixed, TypeOK, InTask, InProgram, Contents
  <2>3. OneInTask' /\ OneInProgram'
    BY <1>4, <2>1, TaskCacheAssumption DEF OpenProgram, GoesTo, At, diskVars,
       TaskInv, Moves, Others, Fixed, TypeOK, OneInTask, OneInProgram, InTask,
       InProgram, Creation
  <2>4. RowFits' /\ SasFits' /\ PlanFits'
    BY <1>4, <2>1 DEF OpenProgram, GoesTo, At, diskVars, TaskInv, Moves,
       Others, Fixed, OneInTask, InTask, RowFits, Vouched, Remade, SasFits,
       ByOrphan, Undisturbed, PlanFits
  <2>5. HorizonFits' /\ ProgramFits'
    BY <1>4, <2>1 DEF OpenProgram, GoesTo, At, diskVars, TaskInv, Moves,
       Others, Fixed, TypeOK, RowFits, PlanFits, Vouched, Remade, HorizonFits,
       Settled, InProgram, RightHorizon, OneInProgram, ProgramFits, Contents
  <2>6. RepairInv => RepairInv'
    BY <1>4, <2>1 DEF OpenProgram, GoesTo, At, diskVars, TaskInv, Moves,
       Others, Fixed, RepairInv, Relies, UnhurtFits, Ready, Settled, InProgram,
       OneInTask, InTask, RowFits, Remade, Vouched
  <2> QED
    BY <2>2, <2>3, <2>4, <2>5, <2>6 DEF TaskInv
<1>5. CASE Plasp(c)
  <2>1. CASE sas = "whole"
    <3>1. GoesTo(c, "replace") /\ UNCHANGED lpLock
      BY <1>0, <1>5, <2>1, GotoMoves DEF Plasp, Places, InProgram
    <3>2. temp' = [temp EXCEPT ![c] = "whole"]
      BY <1>5, <2>1 DEF Plasp
    <3>3. TypeOK' /\ OneInTask' /\ OneInProgram'
      BY <1>5, <3>1, <3>2, TaskCacheAssumption DEF Plasp, GoesTo, At, TaskInv,
         Moves, Others, Fixed, TypeOK, OneInTask, OneInProgram, InTask,
         InProgram, Contents
    <3>4. RowFits' /\ SasFits' /\ PlanFits'
      BY <1>5, <3>1, <3>2 DEF Plasp, GoesTo, At, TaskInv, Moves, Others,
         Fixed, OneInTask, InTask, RowFits, Vouched, Remade, SasFits,
         ByOrphan, Undisturbed, PlanFits
    <3>5. HorizonFits' /\ ProgramFits'
      BY <1>5, <3>1, <3>2 DEF Plasp, GoesTo, At, TaskInv, Moves, Others,
         Fixed, TypeOK, RowFits, PlanFits, Vouched, Remade, HorizonFits,
         Settled, InProgram, RightHorizon, OneInProgram, ProgramFits, Contents
    <3>6. RepairInv => RepairInv'
      BY <1>5, <3>1, <3>2 DEF Plasp, GoesTo, At, TaskInv, Moves, Others,
         Fixed, RepairInv, Relies, UnhurtFits, Ready, Settled, InProgram,
         OneInTask, InTask, RowFits, Remade, Vouched
    <3> QED
      BY <3>3, <3>4, <3>5, <3>6 DEF TaskInv
  <2>2. CASE sas # "whole"
    <3>1. Moves(c, "done", creation[c].horizon, "error", creation[c].hurt)
      BY <1>0, <1>5, <2>2, FinishMoves DEF Plasp, DropProgram, Results
    <3>2. temp' = [temp EXCEPT ![c] = "absent"] /\ UnlockProgram(c)
      BY <1>5, <2>2 DEF Plasp, DropProgram
    <3>3. RepairInv /\ Relies(c) => creation[c].hurt
      <4>1. creation[c].at \in Settled \ {"insert"}
        BY <1>5 DEF Plasp, At, Settled, InProgram
      <4> QED
        BY <2>2, <4>1 DEF RepairInv, UnhurtFits, Ready
    <3>4. TypeOK'
      <4>1. /\ temp' \in [Creators -> Contents]
            /\ lpLock' \in [Modes -> Creators \cup {None}]
        BY <1>0, <3>2 DEF UnlockProgram, TypeOK, Contents
      <4> QED
        BY <1>0, <1>5, <3>1, <4>1 DEF Plasp, TypeOK, Moves
    <3>5. OneInTask' /\ OneInProgram'
      <4>1. OneInTask'
        BY <1>5, <3>1 DEF Plasp, At, TaskInv, Moves, Others, OneInTask, InTask
      <4>2. /\ lpLock \in [Modes -> Creators \cup {None}]
            /\ lpLock' = [lpLock EXCEPT ![creation[c].mode] = None]
            /\ \A d \in Creators : creation[d].mode \in Modes
        BY <1>0, <3>2 DEF TypeOK, Creation, UnlockProgram
      <4>3. lpLock[creation[c].mode] = c
        BY <1>5 DEF Plasp, At, TaskInv, OneInProgram, InProgram
      <4>4. \A d \in Creators \ {c} : creation[d].at \in InProgram =>
              creation[d].mode # creation[c].mode
        BY <4>3 DEF TaskInv, OneInProgram
      <4>5. OneInProgram'
        BY <3>1, <4>2, <4>4 DEF TaskInv, OneInProgram, Moves, Others, InProgram
      <4> QED BY <4>1, <4>5
    <3>6. RowFits' /\ SasFits' /\ PlanFits'
      BY <1>5, <3>1, <3>2 DEF Plasp, UnlockProgram, Creation, At, TaskInv,
         Moves, Others, Fixed, OneInTask, InTask, RowFits, Vouched, Remade,
         SasFits, ByOrphan, Undisturbed, PlanFits
    <3>7. HorizonFits' /\ ProgramFits'
      BY <1>5, <3>1, <3>2 DEF Plasp, UnlockProgram, Creation, At, TaskInv,
         Moves, Others, Fixed, TypeOK, RowFits, PlanFits, Vouched, Remade,
         HorizonFits, Settled, InProgram, RightHorizon, OneInProgram,
         ProgramFits, Contents
    <3>8. RepairInv => RepairInv'
      BY <1>5, <3>1, <3>2, <3>3 DEF Plasp, UnlockProgram, Creation, At,
         TaskInv, Moves, Others, Fixed, RepairInv, Relies, UnhurtFits, Ready,
         Settled, InProgram, OneInTask, InTask, RowFits, Remade, Vouched
    <3> QED
      BY <3>4, <3>5, <3>6, <3>7, <3>8 DEF TaskInv
  <2> QED
    BY <2>1, <2>2
<1>6. CASE Replace(c)
  <2>1. GoesTo(c, "fasb")
    BY <1>0, <1>6, GotoMoves DEF Replace, Places
  <2>2. TypeOK'
    BY <1>6, <2>1 DEF Replace, UnlockProgram, Creation, GoesTo, At, diskVars,
       TaskInv, Moves, Others, Fixed, TypeOK, InTask, InProgram, Contents
  <2>3. OneInTask' /\ OneInProgram'
    BY <1>6, <2>1, TaskCacheAssumption DEF Replace, UnlockProgram, Creation,
       GoesTo, At, diskVars, TaskInv, Moves, Others, Fixed, TypeOK, OneInTask,
       OneInProgram, InTask, InProgram
  <2>4. RowFits' /\ SasFits' /\ PlanFits'
    BY <1>6, <2>1 DEF Replace, UnlockProgram, Creation, GoesTo, At, diskVars,
       TaskInv, Moves, Others, Fixed, OneInTask, InTask, RowFits, Vouched,
       Remade, SasFits, ByOrphan, Undisturbed, PlanFits
  <2>5. HorizonFits' /\ ProgramFits'
    BY <1>6, <2>1 DEF Replace, UnlockProgram, Creation, GoesTo, At, diskVars,
       TaskInv, Moves, Others, Fixed, TypeOK, RowFits, PlanFits, Vouched,
       Remade, HorizonFits, Settled, InProgram, RightHorizon, OneInProgram,
       ProgramFits, Contents
  <2>6. RepairInv => RepairInv'
    BY <1>6, <2>1 DEF Replace, UnlockProgram, Creation, GoesTo, At, diskVars,
       TaskInv, Moves, Others, Fixed, RepairInv, Relies, UnhurtFits, Ready,
       Settled, InProgram, OneInTask, InTask, RowFits, Remade, Vouched
  <2> QED
    BY <2>2, <2>3, <2>4, <2>5, <2>6 DEF TaskInv
<1>7. CASE StartFasb(c)
  <2>1. Moves(c, "done", creation[c].horizon,
              IF lp[creation[c].mode] = "whole" THEN "ok" ELSE "error",
              creation[c].hurt)
    BY <1>0, <1>7, FinishMoves DEF StartFasb, Results
  <2>2. lp[creation[c].mode] = "whole"
    BY <1>7 DEF StartFasb, At, TaskInv, ProgramFits
  <2>3. TypeOK' /\ OneInTask' /\ OneInProgram'
    BY <1>7, <2>1, <2>2, TaskCacheAssumption DEF StartFasb, At, diskVars,
       TaskInv, Moves, Others, Fixed, TypeOK, OneInTask, OneInProgram, InTask,
       InProgram, Contents
  <2>4. RowFits' /\ SasFits' /\ PlanFits'
    BY <1>7, <2>1, <2>2 DEF StartFasb, At, diskVars, TaskInv, Moves, Others,
       Fixed, OneInTask, InTask, RowFits, Vouched, Remade, SasFits, ByOrphan,
       Undisturbed, PlanFits
  <2>5. HorizonFits' /\ ProgramFits'
    BY <1>7, <2>1, <2>2 DEF StartFasb, At, diskVars, TaskInv, Moves, Others,
       Fixed, TypeOK, RowFits, PlanFits, Vouched, Remade, HorizonFits,
       Settled, InProgram, RightHorizon, OneInProgram, ProgramFits, Contents
  <2>6. RepairInv => RepairInv'
    BY <1>7, <2>1, <2>2 DEF StartFasb, At, diskVars, TaskInv, Moves, Others,
       Fixed, RepairInv, Relies, UnhurtFits, Ready, Settled, InProgram,
       OneInTask, InTask, RowFits, Remade, Vouched
  <2> QED
    BY <2>3, <2>4, <2>5, <2>6 DEF TaskInv
<1> QED
  BY <1>1, <1>2, <1>3, <1>4, <1>5, <1>6, <1>7 DEF Program

-----------------------------------------------------------------------------
(* Failures of Fast Downward, of the database and of plasp. *)
LEMMA FaultKept ==
    ASSUME TaskCacheAssumption, TaskInv, NEW c \in Creators,
           Fault(c)
    PROVE  TaskInv' /\ (RepairInv => RepairInv')
<1>0. TypeOK /\ creation[c] \in Creation
  BY DEF TaskInv, TypeOK
<1>1. CASE FastDownwardFails(c)
  <2>1. \E result \in {"capacity", "error"} :
          Moves(c, "done", creation[c].horizon, result, TRUE)
    BY <1>0, <1>1, FaultMoves DEF FastDownwardFails, Results
  <2>2. TypeOK'
    BY <1>1, <2>1 DEF FastDownwardFails, RunsFastDownward, diskVars, At,
       TaskInv, Moves, Others, Fixed, TypeOK, InTask, InProgram, Contents
  <2>3. OneInTask' /\ OneInProgram'
    BY <1>1, <2>1, TaskCacheAssumption DEF FastDownwardFails,
       RunsFastDownward, diskVars, At, TaskInv, Moves, Others, Fixed, TypeOK,
       OneInTask, OneInProgram, InTask, InProgram, Creation
  <2>4. RowFits' /\ SasFits' /\ PlanFits'
    BY <1>1, <2>1 DEF FastDownwardFails, RunsFastDownward, diskVars, At,
       TaskInv, Moves, Others, Fixed, OneInTask, InTask, RowFits, Vouched,
       Remade, SasFits, ByOrphan, Undisturbed, PlanFits
  <2>5. HorizonFits' /\ ProgramFits'
    BY <1>1, <2>1 DEF FastDownwardFails, RunsFastDownward, diskVars, At,
       TaskInv, Moves, Others, Fixed, TypeOK, RowFits, PlanFits, Vouched,
       Remade, HorizonFits, Settled, InProgram, RightHorizon, OneInProgram,
       ProgramFits, Contents
  <2>6. RepairInv => RepairInv'
    BY <1>1, <2>1 DEF FastDownwardFails, RunsFastDownward, diskVars, At,
       TaskInv, Moves, Others, Fixed, RepairInv, Relies, UnhurtFits, Ready,
       Settled, InProgram, OneInTask, InTask, RowFits, Remade, Vouched
  <2> QED
    BY <2>2, <2>3, <2>4, <2>5, <2>6 DEF TaskInv
<1>2. CASE FastDownwardTimesOut(c)
  <2>1. \E result \in {"capacity", "error"} :
          Moves(c, "done", creation[c].horizon, result, TRUE)
    BY <1>0, <1>2, FaultMoves DEF FastDownwardTimesOut, Results
  <2>2. TypeOK'
    BY <1>2, <2>1 DEF FastDownwardTimesOut, LeftBehind, RunsFastDownward,
       diskVars, At, TaskInv, Moves, Others, Fixed, TypeOK, InTask, InProgram,
       Contents
  <2>3. OneInTask' /\ OneInProgram'
    BY <1>2, <2>1, TaskCacheAssumption DEF FastDownwardTimesOut, LeftBehind,
       RunsFastDownward, diskVars, At, TaskInv, Moves, Others, Fixed, TypeOK,
       OneInTask, OneInProgram, InTask, InProgram, Creation
  <2>4. RowFits' /\ SasFits' /\ PlanFits'
    BY <1>2, <2>1 DEF FastDownwardTimesOut, LeftBehind, RunsFastDownward,
       diskVars, At, TaskInv, Moves, Others, Fixed, OneInTask, InTask,
       RowFits, Vouched, Remade, SasFits, ByOrphan, Undisturbed, PlanFits
  <2>5. HorizonFits' /\ ProgramFits'
    BY <1>2, <2>1 DEF FastDownwardTimesOut, LeftBehind, RunsFastDownward,
       diskVars, At, TaskInv, Moves, Others, Fixed, TypeOK, RowFits, PlanFits,
       Vouched, Remade, HorizonFits, Settled, InProgram, RightHorizon,
       OneInProgram, ProgramFits, Contents
  <2>6. RepairInv => RepairInv'
    BY <1>2, <2>1 DEF FastDownwardTimesOut, LeftBehind, RunsFastDownward,
       diskVars, At, TaskInv, Moves, Others, Fixed, RepairInv, Relies,
       UnhurtFits, Ready, Settled, InProgram, OneInTask, InTask, RowFits,
       Remade, Vouched
  <2> QED
    BY <2>2, <2>3, <2>4, <2>5, <2>6 DEF TaskInv
<1>3. CASE InsertFails(c)
  <2>1. \E result \in {"capacity", "error"} :
          Moves(c, "done", creation[c].horizon, result, TRUE)
    BY <1>0, <1>3, FaultMoves DEF InsertFails, Results
  <2>2. TypeOK'
    BY <1>3, <2>1 DEF InsertFails, diskVars, At, TaskInv, Moves, Others,
       Fixed, TypeOK, InTask, InProgram, Contents
  <2>3. OneInTask' /\ OneInProgram'
    BY <1>3, <2>1, TaskCacheAssumption DEF InsertFails, diskVars, At, TaskInv,
       Moves, Others, Fixed, TypeOK, OneInTask, OneInProgram, InTask,
       InProgram, Creation
  <2>4. RowFits' /\ SasFits' /\ PlanFits'
    BY <1>3, <2>1 DEF InsertFails, diskVars, At, TaskInv, Moves, Others,
       Fixed, OneInTask, InTask, RowFits, Vouched, Remade, SasFits, ByOrphan,
       Undisturbed, PlanFits
  <2>5. HorizonFits' /\ ProgramFits'
    BY <1>3, <2>1 DEF InsertFails, diskVars, At, TaskInv, Moves, Others,
       Fixed, TypeOK, RowFits, PlanFits, Vouched, Remade, HorizonFits,
       Settled, InProgram, RightHorizon, OneInProgram, ProgramFits, Contents
  <2>6. RepairInv => RepairInv'
    BY <1>3, <2>1 DEF InsertFails, diskVars, At, TaskInv, Moves, Others,
       Fixed, RepairInv, Relies, UnhurtFits, Ready, Settled, InProgram,
       OneInTask, InTask, RowFits, Remade, Vouched
  <2> QED
    BY <2>2, <2>3, <2>4, <2>5, <2>6 DEF TaskInv
<1>4. CASE PlaspFails(c)
  <2>1. \E result \in {"capacity", "error"} :
          Moves(c, "done", creation[c].horizon, result, TRUE)
    BY <1>0, <1>4, FaultMoves DEF PlaspFails, Results
  <2>2. TypeOK'
    BY <1>4, <2>1 DEF PlaspFails, UnlockProgram, Creation, At, TaskInv, Moves,
       Others, Fixed, TypeOK, InTask, InProgram, Contents, diskVars
  <2>3. OneInTask' /\ OneInProgram'
    BY <1>4, <2>1, TaskCacheAssumption DEF PlaspFails, UnlockProgram,
       Creation, At, TaskInv, Moves, Others, Fixed, TypeOK, OneInTask,
       OneInProgram, InTask, InProgram
  <2>4. RowFits' /\ SasFits' /\ PlanFits'
    BY <1>4, <2>1 DEF PlaspFails, UnlockProgram, Creation, At, TaskInv, Moves,
       Others, Fixed, OneInTask, InTask, RowFits, Vouched, Remade, SasFits,
       ByOrphan, Undisturbed, PlanFits
  <2>5. HorizonFits' /\ ProgramFits'
    BY <1>4, <2>1 DEF PlaspFails, UnlockProgram, Creation, At, TaskInv, Moves,
       Others, Fixed, TypeOK, RowFits, PlanFits, Vouched, Remade, HorizonFits,
       Settled, InProgram, RightHorizon, OneInProgram, ProgramFits, Contents
  <2>6. RepairInv => RepairInv'
    BY <1>4, <2>1 DEF PlaspFails, UnlockProgram, Creation, At, TaskInv, Moves,
       Others, Fixed, RepairInv, Relies, UnhurtFits, Ready, Settled, InProgram,
       OneInTask, InTask, RowFits, Remade, Vouched
  <2> QED
    BY <2>2, <2>3, <2>4, <2>5, <2>6 DEF TaskInv
<1> QED
  BY <1>1, <1>2, <1>3, <1>4 DEF Fault

(* A crash, a deletion and an orphaned translator hit all creations at once. *)
LEMMA CrashKept ==
    ASSUME TaskCacheAssumption, TaskInv, Crash \/ Vanish \/ OrphanWrites
    PROVE  TaskInv' /\ (RepairInv => RepairInv')
<1>0. TypeOK /\ creation \in [Creators -> Creation]
  BY DEF TaskInv, TypeOK
<1>1. CASE Crash
  <2>1. \A c \in Creators :
          creation'[c] = IF Active(c)
                         THEN [creation[c] EXCEPT !.at = "done",
                                 !.result = "crashed", !.hurt = TRUE]
                         ELSE creation[c]
    BY <1>1 DEF Crash
  <2>2. \A c \in Creators :
          /\ creation'[c] \in Creation /\ Fixed(c)
          /\ creation'[c].horizon = creation[c].horizon
          /\ creation'[c].at \in {"idle", "done"}
          /\ creation'[c].at = "done" \/ creation'[c] = creation[c]
          /\ creation[c].at = "idle" => creation'[c] = creation[c]
          /\ creation'[c].result = "ok" => creation'[c] = creation[c]
          /\ creation'[c].hurt \/ creation'[c] = creation[c]
    <3> TAKE c \in Creators
    <3>1. creation[c] \in Creation
      BY <1>0
    <3>2. CASE Active(c)
      <4>1. creation'[c] = [creation[c] EXCEPT !.at = "done", !.result = "crashed",
                                               !.hurt = TRUE]
        BY <2>1, <3>2
      <4> QED
        BY <3>1, <3>2, <4>1 DEF Creation, Active, Fixed, Places, Results
    <3>3. CASE ~ Active(c)
      BY <2>1, <3>1, <3>3 DEF Active, Fixed
    <3> QED
      BY <3>2, <3>3
  <2>3. creation' \in [Creators -> Creation]
    BY <1>1, <2>2 DEF Crash
  <2>4. orphans' \subseteq {"open", "write"} /\ orphans \subseteq orphans'
    <3>1. \A c \in Creators : LeftBehind(c) \subseteq {"open", "write"}
      BY DEF LeftBehind
    <3>2. orphans' = orphans \cup UNION {LeftBehind(c) : c \in Creators}
      BY <1>1 DEF Crash
    <3>3. \A x \in UNION {LeftBehind(c) : c \in Creators} : x \in {"open", "write"}
      BY <3>1, Zenon
    <3>4. orphans \subseteq {"open", "write"}
      BY <1>0 DEF TypeOK
    <3> QED
      BY <3>2, <3>3, <3>4, Zenon
  <2>5. TypeOK'
    <3>1. taskLock' = None /\ lpLock' \in [Modes -> Creators \cup {None}]
      BY <1>1 DEF Crash
    <3>2. UNCHANGED <<row, diskVars>>
      BY <1>1 DEF Crash
    <3> QED
      BY <1>0, <2>3, <2>4, <3>1, <3>2 DEF TypeOK, diskVars
  <2>6. OneInTask' /\ OneInProgram' /\ RowFits' /\ PlanFits' /\ ProgramFits'
    <3>1. UNCHANGED <<row, plan, lp, temp>>
      BY <1>1 DEF Crash, diskVars
    <3>2. OneInTask' /\ OneInProgram'
      BY <2>2 DEF OneInTask, OneInProgram, InTask, InProgram
    <3>3. RowFits' /\ PlanFits'
      BY <2>2, <3>1 DEF TaskInv, RowFits, Vouched, Remade, PlanFits
    <3>4. ProgramFits'
      BY <2>2, <3>1 DEF TaskInv, ProgramFits
    <3> QED
      BY <3>2, <3>3, <3>4
  <2>7. SasFits'
    BY <1>1, <2>2, <2>4 DEF Crash, TaskInv, diskVars, SasFits, ByOrphan,
       Undisturbed, Remade
  <2>8. HorizonFits'
    BY <2>2 DEF TaskInv, HorizonFits, Settled, InProgram, RightHorizon, Fixed
  <2>9. RepairInv => RepairInv'
    BY <2>2 DEF RepairInv, Relies, UnhurtFits, Settled, InProgram, Fixed
  <2> QED
    BY <2>5, <2>6, <2>7, <2>8, <2>9 DEF TaskInv
<1>2. CASE Vanish
  <2>1. \A c \in Creators :
          creation'[c] = [creation[c] EXCEPT !.hurt = @ \/ Active(c)]
    BY <1>2 DEF Vanish, HurtActive
  <2>2. \A c \in Creators :
          /\ creation'[c] \in Creation /\ Fixed(c)
          /\ creation'[c].at = creation[c].at
          /\ creation'[c].horizon = creation[c].horizon
          /\ creation'[c].result = creation[c].result
          /\ creation'[c].hurt \/ ~ Active(c)
          /\ creation[c].hurt => creation'[c].hurt
    <3> TAKE c \in Creators
    <3>1. creation[c] \in Creation
      BY <1>0
    <3>2. CASE Active(c)
      <4>1. creation'[c] = [creation[c] EXCEPT !.hurt = TRUE]
        BY <2>1, <3>2
      <4> QED
        BY <3>1, <3>2, <4>1 DEF Creation, Fixed
    <3>3. CASE ~ Active(c)
      <4>1. creation'[c] = [creation[c] EXCEPT !.hurt = creation[c].hurt]
        BY <2>1, <3>1, <3>3 DEF Creation
      <4> QED
        BY <3>1, <3>3, <4>1 DEF Creation, Fixed
    <3> QED
      BY <3>2, <3>3
  <2>3. creation' \in [Creators -> Creation]
    BY <1>2, <2>2 DEF Vanish, HurtActive
  <2>4. TypeOK'
    BY <1>0, <1>2, <2>3 DEF Vanish, TypeOK, Contents
  <2>5. OneInTask' /\ OneInProgram' /\ RowFits' /\ PlanFits'
    BY <1>2, <2>2 DEF Vanish, TaskInv, Fixed, OneInTask, OneInProgram, RowFits,
       PlanFits
  <2>6. SasFits'
    BY <1>2, <2>2 DEF Vanish, TaskInv, SasFits, ByOrphan, Undisturbed
  <2>7. HorizonFits' /\ ProgramFits'
    BY <1>2, <2>2 DEF Vanish, TaskInv, HorizonFits, RightHorizon, Fixed, ProgramFits
  <2>8. RepairInv => RepairInv'
    BY <2>2 DEF RepairInv, Relies, UnhurtFits, Settled, InProgram, Fixed, Active
  <2> QED
    BY <2>4, <2>5, <2>6, <2>7, <2>8 DEF TaskInv
<1>3. CASE OrphanWrites
  <2>1. \A c \in Creators :
          creation'[c] = [creation[c] EXCEPT !.hurt = @ \/ ~ At(c, "done")]
    BY <1>3 DEF OrphanWrites
  <2>2. \A c \in Creators :
          /\ creation'[c] \in Creation /\ Fixed(c)
          /\ creation'[c].at = creation[c].at
          /\ creation'[c].horizon = creation[c].horizon
          /\ creation'[c].result = creation[c].result
          /\ creation[c].hurt => creation'[c].hurt
          /\ creation'[c].hurt \/ creation'[c].at = "done"
    <3> TAKE c \in Creators
    <3>1. creation[c] \in Creation
      BY <1>0
    <3>2. CASE ~ At(c, "done")
      <4>1. creation'[c] = [creation[c] EXCEPT !.hurt = TRUE]
        BY <2>1, <3>2
      <4> QED
        BY <3>1, <3>2, <4>1 DEF Creation, Fixed, At
    <3>3. CASE At(c, "done")
      <4>1. creation'[c] = [creation[c] EXCEPT !.hurt = creation[c].hurt]
        BY <2>1, <3>1, <3>3 DEF Creation
      <4> QED
        BY <3>1, <3>3, <4>1 DEF Creation, Fixed, At
    <3> QED
      BY <3>2, <3>3
  <2>3. creation' \in [Creators -> Creation]
    BY <1>3, <2>2 DEF OrphanWrites
  <2>4. TypeOK'
    BY <1>0, <1>3, <2>3 DEF OrphanWrites, TypeOK, Contents
  <2>5. OneInTask' /\ OneInProgram' /\ RowFits' /\ PlanFits'
    BY <1>3, <2>2 DEF OrphanWrites, TaskInv, Fixed, OneInTask, OneInProgram,
       RowFits, PlanFits
  <2>6. sas' = "partial" => "write" \in orphans'
    BY <1>3 DEF OrphanWrites
  <2>7. SasFits'
    BY <2>2, <2>6 DEF SasFits, ByOrphan, Undisturbed
  <2>8. HorizonFits' /\ ProgramFits'
    BY <1>3, <2>2 DEF OrphanWrites, TaskInv, HorizonFits, RightHorizon, Fixed,
       ProgramFits
  <2>9. RepairInv => RepairInv'
    BY <2>2 DEF RepairInv, Relies, UnhurtFits, Settled, InProgram, Fixed
  <2> QED
    BY <2>4, <2>5, <2>7, <2>8, <2>9 DEF TaskInv
<1> QED
  BY <1>1, <1>2, <1>3

-----------------------------------------------------------------------------
LEMMA TaskInvInit ==
    ASSUME TaskCacheAssumption, Init
    PROVE  TaskInv
<1>1. PICK supplied \in [Creators -> Supplies], mode \in [Creators -> Modes] :
        creation = [c \in Creators |->
           [at |-> "idle", supplied |-> supplied[c], mode |-> mode[c],
            horizon |-> 0, result |-> "none", hurt |-> FALSE]]
  BY DEF Init
<1>2. \A c \in Creators : /\ creation[c] \in Creation
                          /\ creation[c].at = "idle"
                          /\ creation[c].result = "none"
  BY <1>1 DEF Creation, Places, Results
<1>3. creation \in [Creators -> Creation]
  BY <1>1, <1>2
<1>4. TypeOK
  BY <1>3 DEF Init, TypeOK, Contents
<1> QED
  BY <1>2, <1>4 DEF Init, TaskInv, OneInTask, OneInProgram, InTask, InProgram,
     RowFits, Vouched, Remade, SasFits, ByOrphan, PlanFits, HorizonFits, Settled,
     ProgramFits

LEMMA RepairInvInit ==
    ASSUME Init
    PROVE  RepairInv
<1>1. \A c \in Creators : creation[c].at = "idle"
  BY DEF Init
<1> QED
  BY <1>1 DEF RepairInv, UnhurtFits, Settled, InProgram

LEMMA TaskInvKept ==
    ASSUME TaskCacheAssumption, TaskInv, [Next]_vars
    PROVE  TaskInv' /\ (RepairInv => RepairInv')
<1>1. CASE \E c \in Creators : Begin(c) \/ Lock(c) \/ Translation(c)
  BY <1>1, TaskKept, TaskCacheAssumption
<1>2. CASE \E c \in Creators : LockProgram(c) \/ Program(c)
  BY <1>2, ProgramKept, TaskCacheAssumption
<1>3. CASE \E c \in Creators : Fault(c)
  BY <1>3, FaultKept, TaskCacheAssumption
<1>4. CASE Crash \/ Vanish \/ OrphanWrites
  BY <1>4, CrashKept, TaskCacheAssumption
<1>5. CASE UNCHANGED vars
  <2>1. TaskInv'
    BY <1>5 DEF vars, diskVars, TaskInv, TypeOK, OneInTask, OneInProgram, RowFits,
       SasFits, ByOrphan, Undisturbed, PlanFits, HorizonFits, RightHorizon,
       ProgramFits
  <2>2. RepairInv => RepairInv'
    BY <1>5 DEF vars, diskVars, RepairInv, Relies, UnhurtFits, Ready
  <2> QED
    BY <2>1, <2>2
<1> QED
  BY <1>1, <1>2, <1>3, <1>4, <1>5 DEF Next

-----------------------------------------------------------------------------
(* Every variable keeps its type: one creation holds a lock at a time. *)
THEOREM CacheTyping == Spec => []TypeOK
<1>1. Init => TaskInv
  BY TaskInvInit, TaskCacheAssumption
<1>2. TaskInv /\ [Next]_vars => TaskInv'
  BY TaskInvKept, TaskCacheAssumption
<1>3. TaskInv => TypeOK
  BY DEF TaskInv
<1> QED
  BY <1>1, <1>2, <1>3, PTL DEF Spec

(* The row of a task vouches for whole files, whatever creations race for  *)
(* them, fail, time out or crash.                                          *)
THEOREM RowVouches == Spec => []RowNeverPartial
<1>1. Init => TaskInv
  BY TaskInvInit, TaskCacheAssumption
<1>2. TaskInv /\ [Next]_vars => TaskInv'
  BY TaskInvKept, TaskCacheAssumption
<1>3. TaskInv => RowNeverPartial
  BY DEF TaskInv, RowNeverPartial, PlanFits, SasFits, ByOrphan
<1> QED
  BY <1>1, <1>2, <1>3, PTL DEF Spec

(* A session that starts has the horizon of its own plan: that of the       *)
(* representative plan given to it, or that of the whole plan on disk.      *)
THEOREM HorizonsRight == Spec => []HorizonRight
<1>1. Init => TaskInv
  BY TaskInvInit, TaskCacheAssumption
<1>2. TaskInv /\ [Next]_vars => TaskInv'
  BY TaskInvKept, TaskCacheAssumption
<1>3. TaskInv => HorizonRight
  BY DEF TaskInv, HorizonRight, HorizonFits, RightHorizon
<1> QED
  BY <1>1, <1>2, <1>3, PTL DEF Spec

(* No partial logic program ever has its final name. *)
THEOREM ProgramsWhole == Spec => []LpNeverPartial
<1>1. Init => TaskInv
  BY TaskInvInit, TaskCacheAssumption
<1>2. TaskInv /\ [Next]_vars => TaskInv'
  BY TaskInvKept, TaskCacheAssumption
<1>3. TaskInv => LpNeverPartial
  BY DEF TaskInv, LpNeverPartial, ProgramFits
<1> QED
  BY <1>1, <1>2, <1>3, PTL DEF Spec

(* The cache repairs itself: whatever was left behind, a creation without  *)
(* a fault of its own succeeds.                                            *)
THEOREM CacheRepairs == Spec => []UnhurtSucceeds
<1>1. Init => TaskInv /\ RepairInv
  BY TaskInvInit, RepairInvInit, TaskCacheAssumption
<1>2. TaskInv /\ RepairInv /\ [Next]_vars => TaskInv' /\ RepairInv'
  BY TaskInvKept, TaskCacheAssumption
<1>3. RepairInv => UnhurtSucceeds
  BY DEF RepairInv, Relies, UnhurtFits, UnhurtSucceeds
<1> QED
  BY <1>1, <1>2, <1>3, PTL DEF Spec
=============================================================================
