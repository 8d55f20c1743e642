------------------------ MODULE SessionRegistryProofs ------------------------
(***************************************************************************)
(* No interleaving of creations, lookups, deletions, cleanup and shutdown  *)
(* exceeds the session limit, loses a creation slot or stops one session   *)
(* twice.                                                                  *)
(***************************************************************************)
EXTENDS SessionRegistry, FiniteSetTheorems, TLAPS

(* What each place says about the registry lock, and where a thread that   *)
(* stops a session goes on: inside the lock's block or outside it.         *)
PlacesFit ==
    /\ lock # None => pc[lock] \in {"sweep", "kill", "wait", "unlock"} /\ goal \in Goals
    /\ \A t \in Threads :
          /\ pc[t] \in {"sweep", "unlock"} => lock = t
          /\ At(t, "unlock") => goal = "get"
          /\ Stopping(t) => IF lock = t
                            THEN \/ back[t] = "sweep"
                                 \/ back[t] = "unlock" /\ goal = "get"
                            ELSE back[t] \in {"leave", "done", "close"}

(* Wherever a thread uses its session, it has one. *)
About == {"register", "get", "remove", "operate", "working"}
SessionsFit ==
    /\ \A c \in Clients :
          /\ At(c, "idle") => outcome[c] = "none"
          /\ pc[c] \in About \/ (lock = c /\ goal \in About) => session[c] \in born
          /\ outcome[c] = "created" => session[c] \in born
    /\ \A t \in Threads : Stopping(t) => victim[t] \in born

(* A session has at most one owner: the dict, the thread that shuts down,  *)
(* the thread that stops it, or the creation that has not registered it.   *)
Preparing(c) == At(c, "register") \/ (lock = c /\ goal = "register")
OneOwner ==
    /\ sessions \cap closing = {}
    /\ \A t \in Threads : Stopping(t) => victim[t] \notin sessions \cup closing
    /\ \A t, u \in Threads : Stopping(t) /\ Stopping(u) /\ t # u => victim[t] # victim[u]
    /\ \A c \in Clients : Preparing(c) =>
          /\ session[c] \notin sessions \cup closing
          /\ \A t \in Threads : Stopping(t) => victim[t] # session[c]
          /\ \A d \in Clients : Preparing(d) /\ c # d => session[c] # session[d]

(* Only registered sessions are doomed, and only while a thread sweeps. *)
DoomedFit ==
    /\ doomed \subseteq sessions
    /\ lock = None => doomed = {}
    /\ \A t \in Threads :
          At(t, "unlock") \/ (Stopping(t) /\ back[t] = "unlock") => doomed = {}

IInv == TypeOK /\ PlacesFit /\ SessionsFit /\ SlotsConserved /\ WithinLimit
            /\ DoomedFit /\ OneOwner

-----------------------------------------------------------------------------
(* Each step leaves every thread at a place that fits the lock. *)
LEMMA PlacesKept ==
    ASSUME TypeOK, PlacesFit, [Next]_vars PROVE PlacesFit'
<1> USE RegistryAssumption DEF TypeOK, PlacesFit, At, GoTo, Stopping, Threads,
      Goals, Creating, lockVars, slotVars, lifeVars, stopVars, exitVars
<1>1. ASSUME NEW t \in Clients, Enter(t) PROVE PlacesFit'
  BY <1>1 DEF Enter, Ask, Told
<1>2. ASSUME NEW t \in Clients, EnterCreation(t) PROVE PlacesFit'
  BY <1>2 DEF EnterCreation, Finish, Respond
<1>3. ASSUME NEW t \in Clients, CountIn(t) PROVE PlacesFit'
  BY <1>3 DEF CountIn
<1>4. ASSUME NEW t \in Clients, EnsureCapacity(t) PROVE PlacesFit'
  BY <1>4 DEF EnsureCapacity, Swept, Unlock, Respond
<1>5. ASSUME NEW t \in Clients, Prepare(t) PROVE PlacesFit'
  BY <1>5 DEF Prepare
<1>6. ASSUME NEW t \in Clients, PrepareFails(t) PROVE PlacesFit'
  BY <1>6 DEF PrepareFails, Respond
<1>7. ASSUME NEW t \in Clients, Register(t) PROVE PlacesFit'
  BY <1>7 DEF Register, Swept, Unlock, Discard, Stop, Respond
<1>8. ASSUME NEW t \in Clients, CountOut(t) PROVE PlacesFit'
  BY <1>8 DEF CountOut
<1>9. ASSUME NEW t \in Clients, ReleaseSlot(t) PROVE PlacesFit'
  BY <1>9 DEF ReleaseSlot
<1>10. ASSUME NEW t \in Clients, Lookup(t) PROVE PlacesFit'
  BY <1>10 DEF Lookup, Swept, Unlock, Stop, Finish, Respond
<1>11. ASSUME NEW t \in Clients, ReportExpired(t) PROVE PlacesFit'
  BY <1>11 DEF ReportExpired, Unlock, Finish, Respond
<1>12. ASSUME NEW t \in Clients, Operate(t) PROVE PlacesFit'
  BY <1>12 DEF Operate
<1>13. ASSUME NEW t \in Clients, Operated(t) PROVE PlacesFit'
  BY <1>13 DEF Operated, Finish, Respond
<1>14. ASSUME NEW t \in Clients, Remove(t) PROVE PlacesFit'
  BY <1>14 DEF Remove, Stop, Finish, Respond
<1>15. ASSUME NEW t \in Clients, Snapshot(t) PROVE PlacesFit'
  BY <1>15 DEF Snapshot, Swept, Unlock, Finish, Respond
<1>16. ASSUME NEW t \in Threads, Sweep(t) PROVE PlacesFit'
  BY <1>16 DEF Sweep, Spared, Stale
<1>17. ASSUME NEW t \in Threads, SweepNext(t) PROVE PlacesFit'
  BY <1>17 DEF SweepNext, Stop
<1>18. ASSUME NEW t \in Threads, Kill(t) PROVE PlacesFit'
  BY <1>18 DEF Kill
<1>19. ASSUME NEW t \in Threads, Wait(t) PROVE PlacesFit'
  BY <1>19 DEF Wait
<1>20. ASSUME Wake PROVE PlacesFit'
  BY <1>20 DEF Wake
<1>21. ASSUME Cleaned PROVE PlacesFit'
  BY <1>21 DEF Cleaned, Swept, Unlock
<1>22. ASSUME BeginShutdown PROVE PlacesFit'
  BY <1>22 DEF BeginShutdown
<1>23. ASSUME EmptyRegistry PROVE PlacesFit'
  BY <1>23 DEF EmptyRegistry
<1>24. ASSUME CloseNext PROVE PlacesFit'
  BY <1>24 DEF CloseNext, Stop
<1>25. ASSUME NEW s \in Ids, Expire(s) PROVE PlacesFit'
  BY <1>25 DEF Expire
<1>26. CASE UNCHANGED vars
  BY <1>26 DEF vars, lockVars, slotVars, lifeVars, stopVars, exitVars
<1> QED
  BY <1>1, <1>2, <1>3, <1>4, <1>5, <1>6, <1>7, <1>8, <1>9, <1>10, <1>11, <1>12, <1>13,
     <1>14, <1>15, <1>16, <1>17, <1>18, <1>19, <1>20, <1>21, <1>22, <1>23, <1>24, <1>25, <1>26
  DEF Next, ClientStep, Locked, CleanerStep, CloserStep, Threads

(* No thread is left without the session it works on. *)
LEMMA SessionsKept ==
    ASSUME TypeOK, PlacesFit, SessionsFit, [Next]_vars PROVE SessionsFit'
<1> USE RegistryAssumption DEF TypeOK, PlacesFit, SessionsFit, About, At, GoTo,
      Stopping, Threads, lockVars, slotVars, lifeVars, stopVars, exitVars
<1>1. ASSUME NEW t \in Clients, Enter(t) PROVE SessionsFit'
  BY <1>1 DEF Enter, Ask, Told
<1>2. ASSUME NEW t \in Clients, EnterCreation(t) PROVE SessionsFit'
  BY <1>2 DEF EnterCreation, Finish, Respond
<1>3. ASSUME NEW t \in Clients, CountIn(t) PROVE SessionsFit'
  BY <1>3 DEF CountIn
<1>4. ASSUME NEW t \in Clients, EnsureCapacity(t) PROVE SessionsFit'
  BY <1>4 DEF EnsureCapacity, Swept, Unlock, Respond
<1>5. ASSUME NEW t \in Clients, Prepare(t) PROVE SessionsFit'
  BY <1>5 DEF Prepare
<1>6. ASSUME NEW t \in Clients, PrepareFails(t) PROVE SessionsFit'
  BY <1>6 DEF PrepareFails, Respond
<1>7. ASSUME NEW t \in Clients, Register(t) PROVE SessionsFit'
  BY <1>7 DEF Register, Swept, Unlock, Discard, Stop, Respond
<1>8. ASSUME NEW t \in Clients, CountOut(t) PROVE SessionsFit'
  BY <1>8 DEF CountOut
<1>9. ASSUME NEW t \in Clients, ReleaseSlot(t) PROVE SessionsFit'
  BY <1>9 DEF ReleaseSlot
<1>10. ASSUME NEW t \in Clients, Lookup(t) PROVE SessionsFit'
  BY <1>10 DEF Lookup, Swept, Unlock, Stop, Finish, Respond
<1>11. ASSUME NEW t \in Clients, ReportExpired(t) PROVE SessionsFit'
  BY <1>11 DEF ReportExpired, Unlock, Finish, Respond
<1>12. ASSUME NEW t \in Clients, Operate(t) PROVE SessionsFit'
  BY <1>12 DEF Operate
<1>13. ASSUME NEW t \in Clients, Operated(t) PROVE SessionsFit'
  BY <1>13 DEF Operated, Finish, Respond
<1>14. ASSUME NEW t \in Clients, Remove(t) PROVE SessionsFit'
  BY <1>14 DEF Remove, Stop, Finish, Respond
<1>15. ASSUME NEW t \in Clients, Snapshot(t) PROVE SessionsFit'
  BY <1>15 DEF Snapshot, Swept, Unlock, Finish, Respond
<1>16. ASSUME NEW t \in Threads, Sweep(t) PROVE SessionsFit'
  BY <1>16 DEF Sweep, Spared, Stale
<1>17. ASSUME NEW t \in Threads, SweepNext(t) PROVE SessionsFit'
  BY <1>17 DEF SweepNext, Stop
<1>18. ASSUME NEW t \in Threads, Kill(t) PROVE SessionsFit'
  BY <1>18 DEF Kill
<1>19. ASSUME NEW t \in Threads, Wait(t) PROVE SessionsFit'
  BY <1>19 DEF Wait
<1>20. ASSUME Wake PROVE SessionsFit'
  BY <1>20 DEF Wake
<1>21. ASSUME Cleaned PROVE SessionsFit'
  BY <1>21 DEF Cleaned, Swept, Unlock
<1>22. ASSUME BeginShutdown PROVE SessionsFit'
  BY <1>22 DEF BeginShutdown
<1>23. ASSUME EmptyRegistry PROVE SessionsFit'
  BY <1>23 DEF EmptyRegistry
<1>24. ASSUME CloseNext PROVE SessionsFit'
  BY <1>24 DEF CloseNext, Stop
<1>25. ASSUME NEW s \in Ids, Expire(s) PROVE SessionsFit'
  BY <1>25 DEF Expire
<1>26. CASE UNCHANGED vars
  BY <1>26 DEF vars, lockVars, slotVars, lifeVars, stopVars, exitVars
<1> QED
  BY <1>1, <1>2, <1>3, <1>4, <1>5, <1>6, <1>7, <1>8, <1>9, <1>10, <1>11, <1>12, <1>13,
     <1>14, <1>15, <1>16, <1>17, <1>18, <1>19, <1>20, <1>21, <1>22, <1>23, <1>24, <1>25, <1>26
  DEF Next, ClientStep, Locked, CleanerStep, CloserStep, Threads

(* What a step does to the slots and to the clients that hold them. *)
Still == HoldsSlot' = HoldsSlot /\ Counted' = Counted /\ UNCHANGED slotVars
Takes(c) == /\ At(c, "idle")
            /\ c \notin HoldsSlot /\ HoldsSlot' = HoldsSlot \cup {c} /\ Counted' = Counted
            /\ slots > 0 /\ slots' = slots - 1 /\ creations' = creations
Starts(c) == /\ c \notin Counted /\ HoldsSlot' = HoldsSlot /\ Counted' = Counted \cup {c}
             /\ slots' = slots /\ creations' = creations + 1
Ends(c) == /\ c \in Counted /\ HoldsSlot' = HoldsSlot /\ Counted' = Counted \ {c}
           /\ slots' = slots /\ creations' = creations - 1
Returns(c) == /\ c \in HoldsSlot /\ HoldsSlot' = HoldsSlot \ {c} /\ Counted' = Counted
              /\ slots' = slots + 1 /\ creations' = creations

LEMMA SlotMoves ==
    ASSUME TypeOK, PlacesFit, [Next]_vars
    PROVE  Still \/ \E c \in Clients : Takes(c) \/ Starts(c) \/ Ends(c) \/ Returns(c)
<1> USE RegistryAssumption DEF TypeOK, PlacesFit, HoldsSlot, Counted, At, GoTo,
      Stopping, Threads, Goals, Creating, lockVars, slotVars, lifeVars,
      stopVars, exitVars
<1>1. ASSUME NEW t \in Clients, Enter(t) PROVE Still
  BY <1>1 DEF Enter, Ask, Told, Still
<1>2. ASSUME NEW t \in Clients, EnterCreation(t) PROVE Still \/ Takes(t)
  BY <1>2 DEF EnterCreation, Finish, Respond, Still, Takes
<1>3. ASSUME NEW t \in Clients, CountIn(t) PROVE Starts(t)
  BY <1>3 DEF CountIn, Starts
<1>4. ASSUME NEW t \in Clients, EnsureCapacity(t) PROVE Still
  BY <1>4 DEF EnsureCapacity, Swept, Unlock, Respond, Still
<1>5. ASSUME NEW t \in Clients, Prepare(t) PROVE Still
  BY <1>5 DEF Prepare, Still
<1>6. ASSUME NEW t \in Clients, PrepareFails(t) PROVE Still
  BY <1>6 DEF PrepareFails, Respond, Still
<1>7. ASSUME NEW t \in Clients, Register(t) PROVE Still
  BY <1>7 DEF Register, Swept, Unlock, Discard, Stop, Respond, Still
<1>8. ASSUME NEW t \in Clients, CountOut(t) PROVE Ends(t)
  BY <1>8 DEF CountOut, Ends
<1>9. ASSUME NEW t \in Clients, ReleaseSlot(t) PROVE Returns(t)
  BY <1>9 DEF ReleaseSlot, Returns
<1>10. ASSUME NEW t \in Clients, Lookup(t) PROVE Still
  BY <1>10 DEF Lookup, Swept, Unlock, Stop, Finish, Respond, Still
<1>11. ASSUME NEW t \in Clients, ReportExpired(t) PROVE Still
  BY <1>11 DEF ReportExpired, Unlock, Finish, Respond, Still
<1>12. ASSUME NEW t \in Clients, Operate(t) PROVE Still
  BY <1>12 DEF Operate, Still
<1>13. ASSUME NEW t \in Clients, Operated(t) PROVE Still
  BY <1>13 DEF Operated, Finish, Respond, Still
<1>14. ASSUME NEW t \in Clients, Remove(t) PROVE Still
  BY <1>14 DEF Remove, Stop, Finish, Respond, Still
<1>15. ASSUME NEW t \in Clients, Snapshot(t) PROVE Still
  BY <1>15 DEF Snapshot, Swept, Unlock, Finish, Respond, Still
<1>16. ASSUME NEW t \in Threads, Sweep(t) PROVE Still
  BY <1>16 DEF Sweep, Spared, Stale, Still
<1>17. ASSUME NEW t \in Threads, SweepNext(t) PROVE Still
  BY <1>17 DEF SweepNext, Stop, Still
<1>18. ASSUME NEW t \in Threads, Kill(t) PROVE Still
  BY <1>18 DEF Kill, Still
<1>19. ASSUME NEW t \in Threads, Wait(t) PROVE Still
  BY <1>19 DEF Wait, Still
<1>20. ASSUME Wake PROVE Still
  BY <1>20 DEF Wake, Still
<1>21. ASSUME Cleaned PROVE Still
  BY <1>21 DEF Cleaned, Swept, Unlock, Still
<1>22. ASSUME BeginShutdown PROVE Still
  BY <1>22 DEF BeginShutdown, Still
<1>23. ASSUME EmptyRegistry PROVE Still
  BY <1>23 DEF EmptyRegistry, Still
<1>24. ASSUME CloseNext PROVE Still
  BY <1>24 DEF CloseNext, Stop, Still
<1>25. ASSUME NEW s \in Ids, Expire(s) PROVE Still
  BY <1>25 DEF Expire, Still
<1>26. CASE UNCHANGED vars
  BY <1>26 DEF vars, Still
<1> QED
  BY <1>1, <1>2, <1>3, <1>4, <1>5, <1>6, <1>7, <1>8, <1>9, <1>10, <1>11, <1>12, <1>13,
     <1>14, <1>15, <1>16, <1>17, <1>18, <1>19, <1>20, <1>21, <1>22, <1>23, <1>24, <1>25, <1>26
  DEF Next, ClientStep, Locked, CleanerStep, CloserStep, Threads

LEMMA SlotsKept ==
    ASSUME TypeOK, PlacesFit, SlotsConserved, [Next]_vars
    PROVE  SlotsConserved' /\ slots' \in 0..MaxCreations /\ creations' \in 0..MaxCreations
<1> USE RegistryAssumption
<1>1. IsFiniteSet(HoldsSlot) /\ IsFiniteSet(Counted) /\ IsFiniteSet(HoldsSlot')
  BY FS_Subset DEF HoldsSlot, Counted
<1>2. Cardinality(HoldsSlot) \in Nat /\ Cardinality(Counted) \in Nat
  BY <1>1, FS_CardinalityType
<1>3. SlotsConserved' /\ slots' \in Nat
  <2>1. CASE Still
    BY <2>1 DEF Still, SlotsConserved, slotVars, TypeOK
  <2>2. ASSUME NEW c \in Clients, Takes(c) PROVE SlotsConserved' /\ slots' \in Nat
    BY <2>2, <1>1, <1>2, FS_AddElement DEF Takes, SlotsConserved, TypeOK
  <2>3. ASSUME NEW c \in Clients, Starts(c) PROVE SlotsConserved' /\ slots' \in Nat
    <3>1. Cardinality(Counted \cup {c}) = Cardinality(Counted) + 1
      BY <2>3, <1>1, FS_AddElement DEF Starts
    <3> QED
      BY <2>3, <1>1, <1>2, <3>1 DEF Starts, SlotsConserved, TypeOK
  <2>4. ASSUME NEW c \in Clients, Ends(c) PROVE SlotsConserved' /\ slots' \in Nat
    <3>1. Cardinality(Counted \ {c}) = Cardinality(Counted) - 1
      BY <2>4, <1>1, FS_RemoveElement DEF Ends
    <3> QED
      BY <2>4, <1>1, <1>2, <3>1 DEF Ends, SlotsConserved, TypeOK
  <2>5. ASSUME NEW c \in Clients, Returns(c) PROVE SlotsConserved' /\ slots' \in Nat
    BY <2>5, <1>1, <1>2, FS_RemoveElement DEF Returns, SlotsConserved, TypeOK
  <2> QED
    BY <2>1, <2>2, <2>3, <2>4, <2>5, SlotMoves
<1>4. Counted' \in SUBSET HoldsSlot'
  BY DEF Counted
<1>5. /\ Cardinality(HoldsSlot') \in Nat /\ Cardinality(Counted') \in Nat
      /\ Cardinality(Counted') <= Cardinality(HoldsSlot')
  BY <1>1, <1>4, FS_Subset, FS_CardinalityType
<1> QED
  BY <1>3, <1>5 DEF SlotsConserved, TypeOK

(* A step adds a session only when it has counted too few. *)
LEMMA LimitKept ==
    ASSUME TypeOK, WithinLimit, [Next]_vars PROVE WithinLimit'
<1> USE RegistryAssumption
<1>1. IsFiniteSet(sessions)
  BY FS_Subset DEF TypeOK
<1>2. Cardinality(sessions) \in Nat
  BY <1>1, FS_CardinalityType
<1>3. ASSUME NEW c \in Clients, Register(c) PROVE WithinLimit'
  <2>1. CASE Full
    BY <1>3, <2>1 DEF Register, WithinLimit
  <2>2. CASE ~Full
    <3>1. sessions' = sessions \cup {session[c]}
      BY <1>3, <2>2 DEF Register
    <3>2. Cardinality(sessions') <= Cardinality(sessions) + 1
      <4>1. Cardinality(sessions') =
                IF session[c] \in sessions THEN Cardinality(sessions)
                ELSE Cardinality(sessions) + 1
        BY <1>1, <3>1, FS_AddElement
      <4> QED
        BY <1>2, <4>1
    <3>3. Cardinality(sessions') \in Nat
      BY <1>1, <3>1, FS_AddElement, FS_CardinalityType
    <3> QED
      BY <1>2, <2>2, <3>2, <3>3 DEF Full, WithinLimit
  <2> QED
    BY <2>1, <2>2
<1>4. ASSUME sessions' \subseteq sessions PROVE WithinLimit'
  <2>1. Cardinality(sessions') <= Cardinality(sessions) /\ Cardinality(sessions') \in Nat
    BY <1>1, <1>4, FS_Subset, FS_CardinalityType
  <2> QED
    BY <1>2, <2>1 DEF WithinLimit
<1>5. (\E c \in Clients : Register(c)) \/ sessions' \subseteq sessions
  BY DEF Next, vars, Enter, Ask, EnterCreation, ClientStep, CleanerStep, CloserStep, Locked,
         Sweep, SweepNext, Kill, Wait, CountIn, EnsureCapacity, Prepare, PrepareFails,
         CountOut, ReleaseSlot, Lookup, ReportExpired, Operate, Operated, Remove, Snapshot,
         Wake, Cleaned, BeginShutdown, EmptyRegistry, CloseNext, Expire
<1> QED
  BY <1>3, <1>4, <1>5

LEMMA TypesKept ==
    ASSUME TypeOK, PlacesFit, SessionsFit, SlotsConserved, [Next]_vars PROVE TypeOK'
<1> USE RegistryAssumption DEF PlacesFit, SessionsFit, About, Threads, At, GoTo,
      Stopping, Goals, Creating, Places, Outcomes, lockVars, slotVars, lifeVars,
      stopVars, exitVars, TypeOK
<1>0. slots' \in 0..MaxCreations /\ creations' \in 0..MaxCreations
  BY SlotsKept
<1> USE <1>0
<1>1. ASSUME NEW t \in Clients, Enter(t) PROVE TypeOK'
  BY <1>1 DEF Enter, Ask, Told
<1>2. ASSUME NEW t \in Clients, EnterCreation(t) PROVE TypeOK'
  BY <1>2 DEF EnterCreation, Finish, Respond
<1>3. ASSUME NEW t \in Clients, CountIn(t) PROVE TypeOK'
  BY <1>3 DEF CountIn
<1>4. ASSUME NEW t \in Clients, EnsureCapacity(t) PROVE TypeOK'
  BY <1>4 DEF EnsureCapacity, Swept, Unlock, Respond
<1>5. ASSUME NEW t \in Clients, Prepare(t) PROVE TypeOK'
  BY <1>5 DEF Prepare
<1>6. ASSUME NEW t \in Clients, PrepareFails(t) PROVE TypeOK'
  BY <1>6 DEF PrepareFails, Respond
<1>7. ASSUME NEW t \in Clients, Register(t) PROVE TypeOK'
  BY <1>7 DEF Register, Swept, Unlock, Discard, Stop, Respond
<1>8. ASSUME NEW t \in Clients, CountOut(t) PROVE TypeOK'
  BY <1>8 DEF CountOut
<1>9. ASSUME NEW t \in Clients, ReleaseSlot(t) PROVE TypeOK'
  BY <1>9 DEF ReleaseSlot
<1>10. ASSUME NEW t \in Clients, Lookup(t) PROVE TypeOK'
  BY <1>10 DEF Lookup, Swept, Unlock, Stop, Finish, Respond
<1>11. ASSUME NEW t \in Clients, ReportExpired(t) PROVE TypeOK'
  BY <1>11 DEF ReportExpired, Unlock, Finish, Respond
<1>12. ASSUME NEW t \in Clients, Operate(t) PROVE TypeOK'
  BY <1>12 DEF Operate
<1>13. ASSUME NEW t \in Clients, Operated(t) PROVE TypeOK'
  BY <1>13 DEF Operated, Finish, Respond
<1>14. ASSUME NEW t \in Clients, Remove(t) PROVE TypeOK'
  BY <1>14 DEF Remove, Stop, Finish, Respond
<1>15. ASSUME NEW t \in Clients, Snapshot(t) PROVE TypeOK'
  BY <1>15 DEF Snapshot, Swept, Unlock, Finish, Respond
<1>16. ASSUME NEW t \in Threads, Sweep(t) PROVE TypeOK'
  BY <1>16 DEF Sweep, Spared, Stale
<1>17. ASSUME NEW t \in Threads, SweepNext(t) PROVE TypeOK'
  BY <1>17 DEF SweepNext, Stop
<1>18. ASSUME NEW t \in Threads, Kill(t) PROVE TypeOK'
  BY <1>18 DEF Kill
<1>19. ASSUME NEW t \in Threads, Wait(t) PROVE TypeOK'
  BY <1>19 DEF Wait
<1>20. ASSUME Wake PROVE TypeOK'
  BY <1>20 DEF Wake
<1>21. ASSUME Cleaned PROVE TypeOK'
  BY <1>21 DEF Cleaned, Swept, Unlock
<1>22. ASSUME BeginShutdown PROVE TypeOK'
  BY <1>22 DEF BeginShutdown
<1>23. ASSUME EmptyRegistry PROVE TypeOK'
  BY <1>23 DEF EmptyRegistry
<1>24. ASSUME CloseNext PROVE TypeOK'
  BY <1>24 DEF CloseNext, Stop
<1>25. ASSUME NEW s \in Ids, Expire(s) PROVE TypeOK'
  BY <1>25 DEF Expire
<1>26. CASE UNCHANGED vars
  BY <1>26 DEF vars, lockVars, slotVars, lifeVars, stopVars, exitVars
<1> QED
  BY <1>1, <1>2, <1>3, <1>4, <1>5, <1>6, <1>7, <1>8, <1>9, <1>10, <1>11, <1>12, <1>13,
     <1>14, <1>15, <1>16, <1>17, <1>18, <1>19, <1>20, <1>21, <1>22, <1>23, <1>24, <1>25, <1>26
  DEF Next, ClientStep, Locked, CleanerStep, CloserStep, Threads

(* What is doomed stays registered until its turn comes. *)
LEMMA DoomedKept ==
    ASSUME TypeOK, PlacesFit, DoomedFit, [Next]_vars PROVE DoomedFit'
<1> USE RegistryAssumption DEF TypeOK, PlacesFit, DoomedFit, At, GoTo, Stopping,
      Threads, Goals, Creating, lockVars, slotVars, lifeVars, stopVars, exitVars
<1>1. ASSUME NEW t \in Clients, Enter(t) PROVE DoomedFit'
  BY <1>1 DEF Enter, Ask, Told
<1>2. ASSUME NEW t \in Clients, EnterCreation(t) PROVE DoomedFit'
  BY <1>2 DEF EnterCreation, Finish, Respond
<1>3. ASSUME NEW t \in Clients, CountIn(t) PROVE DoomedFit'
  BY <1>3 DEF CountIn
<1>4. ASSUME NEW t \in Clients, EnsureCapacity(t) PROVE DoomedFit'
  BY <1>4 DEF EnsureCapacity, Swept, Unlock, Respond
<1>5. ASSUME NEW t \in Clients, Prepare(t) PROVE DoomedFit'
  BY <1>5 DEF Prepare
<1>6. ASSUME NEW t \in Clients, PrepareFails(t) PROVE DoomedFit'
  BY <1>6 DEF PrepareFails, Respond
<1>7. ASSUME NEW t \in Clients, Register(t) PROVE DoomedFit'
  BY <1>7 DEF Register, Swept, Unlock, Discard, Stop, Respond
<1>8. ASSUME NEW t \in Clients, CountOut(t) PROVE DoomedFit'
  BY <1>8 DEF CountOut
<1>9. ASSUME NEW t \in Clients, ReleaseSlot(t) PROVE DoomedFit'
  BY <1>9 DEF ReleaseSlot
<1>10. ASSUME NEW t \in Clients, Lookup(t) PROVE DoomedFit'
  BY <1>10 DEF Lookup, Swept, Unlock, Stop, Finish, Respond
<1>11. ASSUME NEW t \in Clients, ReportExpired(t) PROVE DoomedFit'
  BY <1>11 DEF ReportExpired, Unlock, Finish, Respond
<1>12. ASSUME NEW t \in Clients, Operate(t) PROVE DoomedFit'
  BY <1>12 DEF Operate
<1>13. ASSUME NEW t \in Clients, Operated(t) PROVE DoomedFit'
  BY <1>13 DEF Operated, Finish, Respond
<1>14. ASSUME NEW t \in Clients, Remove(t) PROVE DoomedFit'
  BY <1>14 DEF Remove, Stop, Finish, Respond
<1>15. ASSUME NEW t \in Clients, Snapshot(t) PROVE DoomedFit'
  BY <1>15 DEF Snapshot, Swept, Unlock, Finish, Respond
<1>16. ASSUME NEW t \in Threads, Sweep(t) PROVE DoomedFit'
  BY <1>16 DEF Sweep, Spared, Stale
<1>17. ASSUME NEW t \in Threads, SweepNext(t) PROVE DoomedFit'
  BY <1>17 DEF SweepNext, Stop
<1>18. ASSUME NEW t \in Threads, Kill(t) PROVE DoomedFit'
  BY <1>18 DEF Kill
<1>19. ASSUME NEW t \in Threads, Wait(t) PROVE DoomedFit'
  BY <1>19 DEF Wait
<1>20. ASSUME Wake PROVE DoomedFit'
  BY <1>20 DEF Wake
<1>21. ASSUME Cleaned PROVE DoomedFit'
  BY <1>21 DEF Cleaned, Swept, Unlock
<1>22. ASSUME BeginShutdown PROVE DoomedFit'
  BY <1>22 DEF BeginShutdown
<1>23. ASSUME EmptyRegistry PROVE DoomedFit'
  BY <1>23 DEF EmptyRegistry
<1>24. ASSUME CloseNext PROVE DoomedFit'
  BY <1>24 DEF CloseNext, Stop
<1>25. ASSUME NEW s \in Ids, Expire(s) PROVE DoomedFit'
  BY <1>25 DEF Expire
<1>26. CASE UNCHANGED vars
  BY <1>26 DEF vars, lockVars, slotVars, lifeVars, stopVars, exitVars
<1> QED
  BY <1>1, <1>2, <1>3, <1>4, <1>5, <1>6, <1>7, <1>8, <1>9, <1>10, <1>11, <1>12, <1>13,
     <1>14, <1>15, <1>16, <1>17, <1>18, <1>19, <1>20, <1>21, <1>22, <1>23, <1>24, <1>25, <1>26
  DEF Next, ClientStep, Locked, CleanerStep, CloserStep, Threads

(* A session changes hands in one step. *)
LEMMA OneOwnerKept ==
    ASSUME TypeOK, PlacesFit, SessionsFit, DoomedFit, OneOwner, [Next]_vars PROVE OneOwner'
<1> USE RegistryAssumption DEF TypeOK, PlacesFit, SessionsFit, DoomedFit,
      OneOwner, Preparing, About, At, GoTo, Stopping, Threads, lockVars,
      slotVars, lifeVars, stopVars, exitVars
<1>1. ASSUME NEW t \in Clients, Enter(t) PROVE OneOwner'
  BY <1>1 DEF Enter, Ask, Told
<1>2. ASSUME NEW t \in Clients, EnterCreation(t) PROVE OneOwner'
  BY <1>2 DEF EnterCreation, Finish, Respond
<1>3. ASSUME NEW t \in Clients, CountIn(t) PROVE OneOwner'
  BY <1>3 DEF CountIn
<1>4. ASSUME NEW t \in Clients, EnsureCapacity(t) PROVE OneOwner'
  BY <1>4 DEF EnsureCapacity, Swept, Unlock, Respond
<1>5. ASSUME NEW t \in Clients, Prepare(t) PROVE OneOwner'
  BY <1>5 DEF Prepare
<1>6. ASSUME NEW t \in Clients, PrepareFails(t) PROVE OneOwner'
  BY <1>6 DEF PrepareFails, Respond
<1>7. ASSUME NEW t \in Clients, Register(t) PROVE OneOwner'
  BY <1>7 DEF Register, Swept, Unlock, Discard, Stop, Respond
<1>8. ASSUME NEW t \in Clients, CountOut(t) PROVE OneOwner'
  BY <1>8 DEF CountOut
<1>9. ASSUME NEW t \in Clients, ReleaseSlot(t) PROVE OneOwner'
  BY <1>9 DEF ReleaseSlot
<1>10. ASSUME NEW t \in Clients, Lookup(t) PROVE OneOwner'
  BY <1>10 DEF Lookup, Swept, Unlock, Stop, Finish, Respond
<1>11. ASSUME NEW t \in Clients, ReportExpired(t) PROVE OneOwner'
  BY <1>11 DEF ReportExpired, Unlock, Finish, Respond
<1>12. ASSUME NEW t \in Clients, Operate(t) PROVE OneOwner'
  BY <1>12 DEF Operate
<1>13. ASSUME NEW t \in Clients, Operated(t) PROVE OneOwner'
  BY <1>13 DEF Operated, Finish, Respond
<1>14. ASSUME NEW t \in Clients, Remove(t) PROVE OneOwner'
  BY <1>14 DEF Remove, Stop, Finish, Respond
<1>15. ASSUME NEW t \in Clients, Snapshot(t) PROVE OneOwner'
  BY <1>15 DEF Snapshot, Swept, Unlock, Finish, Respond
<1>16. ASSUME NEW t \in Threads, Sweep(t) PROVE OneOwner'
  BY <1>16 DEF Sweep, Spared, Stale
<1>17. ASSUME NEW t \in Threads, SweepNext(t) PROVE OneOwner'
  BY <1>17 DEF SweepNext, Stop
<1>18. ASSUME NEW t \in Threads, Kill(t) PROVE OneOwner'
  BY <1>18 DEF Kill
<1>19. ASSUME NEW t \in Threads, Wait(t) PROVE OneOwner'
  BY <1>19 DEF Wait
<1>20. ASSUME Wake PROVE OneOwner'
  BY <1>20 DEF Wake
<1>21. ASSUME Cleaned PROVE OneOwner'
  BY <1>21 DEF Cleaned, Swept, Unlock
<1>22. ASSUME BeginShutdown PROVE OneOwner'
  BY <1>22 DEF BeginShutdown
<1>23. ASSUME EmptyRegistry PROVE OneOwner'
  BY <1>23 DEF EmptyRegistry
<1>24. ASSUME CloseNext PROVE OneOwner'
  BY <1>24 DEF CloseNext, Stop
<1>25. ASSUME NEW s \in Ids, Expire(s) PROVE OneOwner'
  BY <1>25 DEF Expire
<1>26. CASE UNCHANGED vars
  BY <1>26 DEF vars, lockVars, slotVars, lifeVars, stopVars, exitVars
<1> QED
  BY <1>1, <1>2, <1>3, <1>4, <1>5, <1>6, <1>7, <1>8, <1>9, <1>10, <1>11, <1>12, <1>13,
     <1>14, <1>15, <1>16, <1>17, <1>18, <1>19, <1>20, <1>21, <1>22, <1>23, <1>24, <1>25, <1>26
  DEF Next, ClientStep, Locked, CleanerStep, CloserStep, Threads

-----------------------------------------------------------------------------
LEMMA InitHolds == Init => IInv
<1> SUFFICES ASSUME Init PROVE IInv
  OBVIOUS
<1> USE RegistryAssumption
<1>1. TypeOK
  <2>1. slots \in 0..MaxCreations /\ creations \in 0..MaxCreations
    BY DEF Init
  <2>2. "idle" \in Places /\ "none" \in Outcomes
    BY DEF Places, Outcomes
  <2> QED
    BY <2>1, <2>2 DEF Init, TypeOK
<1>2. PlacesFit /\ SessionsFit
  BY DEF Init, PlacesFit, SessionsFit, About, Stopping, At, Threads
<1>3. HoldsSlot = {} /\ Counted = {}
  BY DEF Init, HoldsSlot, Counted, Creating, Stopping, Threads
<1>4. SlotsConserved /\ WithinLimit
  BY <1>3, FS_EmptySet DEF Init, SlotsConserved, WithinLimit
<1>5. DoomedFit /\ OneOwner
  BY DEF Init, DoomedFit, OneOwner, Preparing, Stopping, At, Threads
<1> QED
  BY <1>1, <1>2, <1>4, <1>5 DEF IInv

THEOREM Invariance == Spec => []IInv
<1>1. IInv /\ [Next]_vars => IInv'
  <2> SUFFICES ASSUME IInv, [Next]_vars PROVE IInv'
    OBVIOUS
  <2> QED
    BY TypesKept, PlacesKept, SessionsKept, SlotsKept, LimitKept, DoomedKept, OneOwnerKept
    DEF IInv
<1> QED
  BY InitHolds, <1>1, PTL DEF Spec

(* The registry never holds more sessions than max_active_sessions,        *)
(* whatever the number of requests and of concurrent creations             *)
(* (session_registry.py:1088-1099).                                        *)
THEOREM Limit == Spec => []WithinLimit
<1>1. IInv => WithinLimit
  BY DEF IInv
<1> QED
  BY Invariance, <1>1, PTL

(* No path through create_session loses or invents a creation slot or an   *)
(* active creation (session_registry.py:1001-1086).                        *)
THEOREM Slots == Spec => []SlotsConserved
<1>1. IInv => SlotsConserved
  BY DEF IInv
<1> QED
  BY Invariance, <1>1, PTL

(* Every variable of the registry keeps its type, the semaphore and the    *)
(* counter of creations their ranges.                                      *)
THEOREM RegistryTyping == Spec => []TypeOK
<1>1. IInv => TypeOK
  BY DEF IInv
<1> QED
  BY Invariance, <1>1, PTL

(* No session is ever stopped by two threads, or stopped while registered  *)
(* (session_registry.py:1115-1178).                                        *)
THEOREM StoppedOnce == Spec => []StoppedByOne
<1>1. IInv => StoppedByOne
  BY DEF IInv, OneOwner, StoppedByOne
<1> QED
  BY Invariance, <1>1, PTL
-----------------------------------------------------------------------------
(* A creation is the only one that knows its session until it has answered *)
(* and released its slot, so that no other request can start FASB in it.   *)
KnownFit ==
    \A c \in Clients : /\ session[c] \in born \cup {None}
                       /\ At(c, "idle") => session[c] = None
Untold ==
    \A c \in HoldsSlot, d \in Clients :
        c # d /\ session[c] # None => session[d] # session[c]

(* The FASB of a session whose creation has not ended belongs to the dict, *)
(* to a thread about to stop it, or to the creation before it registers.   *)
Covered(s) ==
    \/ s \in sessions \cup closing
    \/ \E t \in Threads : victim[t] = s /\ pc[t] = "kill"
    \/ \E c \in Clients : Preparing(c) /\ session[c] = s

(* shutdown takes the sessions of the dict over when it has none yet *)
ClosingFit == pc[Closer] \in {"idle", "empty"} => closing = {}

Guarded ==
    \A c \in HoldsSlot : session[c] \in solver => Covered(session[c])

FateInv == KnownFit /\ Untold /\ ClosingFit /\ Guarded

LEMMA KnownKept ==
    ASSUME TypeOK, PlacesFit, KnownFit, [Next]_vars PROVE KnownFit'
<1> USE RegistryAssumption DEF TypeOK, PlacesFit, KnownFit, At, GoTo, Stopping, Threads,
      lockVars, slotVars, lifeVars, stopVars, exitVars
<1>1. ASSUME NEW t \in Clients, Enter(t) PROVE KnownFit'
  BY <1>1 DEF Enter, Ask, Told
<1>2. ASSUME NEW t \in Clients, EnterCreation(t) PROVE KnownFit'
  BY <1>2 DEF EnterCreation, Finish, Respond
<1>3. ASSUME NEW t \in Clients, CountIn(t) PROVE KnownFit'
  BY <1>3 DEF CountIn
<1>4. ASSUME NEW t \in Clients, EnsureCapacity(t) PROVE KnownFit'
  BY <1>4 DEF EnsureCapacity, Swept, Unlock, Respond
<1>5. ASSUME NEW t \in Clients, Prepare(t) PROVE KnownFit'
  BY <1>5 DEF Prepare
<1>6. ASSUME NEW t \in Clients, PrepareFails(t) PROVE KnownFit'
  BY <1>6 DEF PrepareFails, Respond
<1>7. ASSUME NEW t \in Clients, Register(t) PROVE KnownFit'
  BY <1>7 DEF Register, Swept, Unlock, Discard, Stop, Respond
<1>8. ASSUME NEW t \in Clients, CountOut(t) PROVE KnownFit'
  BY <1>8 DEF CountOut
<1>9. ASSUME NEW t \in Clients, ReleaseSlot(t) PROVE KnownFit'
  BY <1>9 DEF ReleaseSlot
<1>10. ASSUME NEW t \in Clients, Lookup(t) PROVE KnownFit'
  BY <1>10 DEF Lookup, Swept, Unlock, Stop, Finish, Respond
<1>11. ASSUME NEW t \in Clients, ReportExpired(t) PROVE KnownFit'
  BY <1>11 DEF ReportExpired, Unlock, Finish, Respond
<1>12. ASSUME NEW t \in Clients, Operate(t) PROVE KnownFit'
  BY <1>12 DEF Operate
<1>13. ASSUME NEW t \in Clients, Operated(t) PROVE KnownFit'
  BY <1>13 DEF Operated, Finish, Respond
<1>14. ASSUME NEW t \in Clients, Remove(t) PROVE KnownFit'
  BY <1>14 DEF Remove, Stop, Finish, Respond
<1>15. ASSUME NEW t \in Clients, Snapshot(t) PROVE KnownFit'
  BY <1>15 DEF Snapshot, Swept, Unlock, Finish, Respond
<1>16. ASSUME NEW t \in Threads, Sweep(t) PROVE KnownFit'
  BY <1>16 DEF Sweep
<1>17. ASSUME NEW t \in Threads, SweepNext(t) PROVE KnownFit'
  BY <1>17 DEF SweepNext, Stop
<1>18. ASSUME NEW t \in Threads, Kill(t) PROVE KnownFit'
  BY <1>18 DEF Kill
<1>19. ASSUME NEW t \in Threads, Wait(t) PROVE KnownFit'
  BY <1>19 DEF Wait
<1>20. ASSUME Wake PROVE KnownFit'
  BY <1>20 DEF Wake
<1>21. ASSUME Cleaned PROVE KnownFit'
  BY <1>21 DEF Cleaned, Swept, Unlock
<1>22. ASSUME BeginShutdown PROVE KnownFit'
  BY <1>22 DEF BeginShutdown
<1>23. ASSUME EmptyRegistry PROVE KnownFit'
  BY <1>23 DEF EmptyRegistry
<1>24. ASSUME CloseNext PROVE KnownFit'
  BY <1>24 DEF CloseNext, Stop
<1>25. ASSUME NEW t \in Ids, Expire(t) PROVE KnownFit'
  BY <1>25 DEF Expire
<1>26. CASE UNCHANGED vars
  BY <1>26 DEF vars
<1> QED
  BY <1>1, <1>2, <1>3, <1>4, <1>5, <1>6, <1>7, <1>8, <1>9, <1>10, <1>11, <1>12, <1>13,
     <1>14, <1>15, <1>16, <1>17, <1>18, <1>19, <1>20, <1>21, <1>22, <1>23, <1>24, <1>25, <1>26
  DEF Next, ClientStep, Locked, CleanerStep, CloserStep, Threads

LEMMA ClosingKept ==
    ASSUME TypeOK, PlacesFit, ClosingFit, [Next]_vars PROVE ClosingFit'
<1> USE RegistryAssumption DEF TypeOK, PlacesFit, ClosingFit, At, GoTo, Stopping, Threads,
      lockVars, slotVars, lifeVars, stopVars, exitVars
<1>1. ASSUME NEW t \in Clients, Enter(t) PROVE ClosingFit'
  BY <1>1 DEF Enter, Ask, Told
<1>2. ASSUME NEW t \in Clients, EnterCreation(t) PROVE ClosingFit'
  BY <1>2 DEF EnterCreation, Finish, Respond
<1>3. ASSUME NEW t \in Clients, CountIn(t) PROVE ClosingFit'
  BY <1>3 DEF CountIn
<1>4. ASSUME NEW t \in Clients, EnsureCapacity(t) PROVE ClosingFit'
  BY <1>4 DEF EnsureCapacity, Swept, Unlock, Respond
<1>5. ASSUME NEW t \in Clients, Prepare(t) PROVE ClosingFit'
  BY <1>5 DEF Prepare
<1>6. ASSUME NEW t \in Clients, PrepareFails(t) PROVE ClosingFit'
  BY <1>6 DEF PrepareFails, Respond
<1>7. ASSUME NEW t \in Clients, Register(t) PROVE ClosingFit'
  BY <1>7 DEF Register, Swept, Unlock, Discard, Stop, Respond
<1>8. ASSUME NEW t \in Clients, CountOut(t) PROVE ClosingFit'
  BY <1>8 DEF CountOut
<1>9. ASSUME NEW t \in Clients, ReleaseSlot(t) PROVE ClosingFit'
  BY <1>9 DEF ReleaseSlot
<1>10. ASSUME NEW t \in Clients, Lookup(t) PROVE ClosingFit'
  BY <1>10 DEF Lookup, Swept, Unlock, Stop, Finish, Respond
<1>11. ASSUME NEW t \in Clients, ReportExpired(t) PROVE ClosingFit'
  BY <1>11 DEF ReportExpired, Unlock, Finish, Respond
<1>12. ASSUME NEW t \in Clients, Operate(t) PROVE ClosingFit'
  BY <1>12 DEF Operate
<1>13. ASSUME NEW t \in Clients, Operated(t) PROVE ClosingFit'
  BY <1>13 DEF Operated, Finish, Respond
<1>14. ASSUME NEW t \in Clients, Remove(t) PROVE ClosingFit'
  BY <1>14 DEF Remove, Stop, Finish, Respond
<1>15. ASSUME NEW t \in Clients, Snapshot(t) PROVE ClosingFit'
  BY <1>15 DEF Snapshot, Swept, Unlock, Finish, Respond
<1>16. ASSUME NEW t \in Threads, Sweep(t) PROVE ClosingFit'
  BY <1>16 DEF Sweep
<1>17. ASSUME NEW t \in Threads, SweepNext(t) PROVE ClosingFit'
  BY <1>17 DEF SweepNext, Stop
<1>18. ASSUME NEW t \in Threads, Kill(t) PROVE ClosingFit'
  BY <1>18 DEF Kill
<1>19. ASSUME NEW t \in Threads, Wait(t) PROVE ClosingFit'
  BY <1>19 DEF Wait
<1>20. ASSUME Wake PROVE ClosingFit'
  BY <1>20 DEF Wake
<1>21. ASSUME Cleaned PROVE ClosingFit'
  BY <1>21 DEF Cleaned, Swept, Unlock
<1>22. ASSUME BeginShutdown PROVE ClosingFit'
  BY <1>22 DEF BeginShutdown
<1>23. ASSUME EmptyRegistry PROVE ClosingFit'
  BY <1>23 DEF EmptyRegistry
<1>24. ASSUME CloseNext PROVE ClosingFit'
  BY <1>24 DEF CloseNext, Stop
<1>25. ASSUME NEW t \in Ids, Expire(t) PROVE ClosingFit'
  BY <1>25 DEF Expire
<1>26. CASE UNCHANGED vars
  BY <1>26 DEF vars
<1> QED
  BY <1>1, <1>2, <1>3, <1>4, <1>5, <1>6, <1>7, <1>8, <1>9, <1>10, <1>11, <1>12, <1>13,
     <1>14, <1>15, <1>16, <1>17, <1>18, <1>19, <1>20, <1>21, <1>22, <1>23, <1>24, <1>25, <1>26
  DEF Next, ClientStep, Locked, CleanerStep, CloserStep, Threads

(* What a session's FASB has is given up only by stopping it, or by a      *)
(* lookup that finds the session unavailable.                              *)
LEMMA CoveredKept ==
    ASSUME TypeOK, PlacesFit, ClosingFit, NEW s \in Ids, Covered(s), s \in solver',
           s \in available \/ ~ \E c \in Clients : Swept(c, "get") /\ session[c] = s,
           [Next]_vars
    PROVE  Covered(s)'
<1> USE RegistryAssumption DEF TypeOK, PlacesFit, Covered, Preparing, At, GoTo, Stopping,
      Threads, lockVars, slotVars, lifeVars, stopVars, exitVars
<1>1. ASSUME NEW t \in Clients, Enter(t) PROVE Covered(s)'
  BY <1>1 DEF Enter, Ask, Told
<1>2. ASSUME NEW t \in Clients, EnterCreation(t) PROVE Covered(s)'
  BY <1>2 DEF EnterCreation, Finish, Respond
<1>3. ASSUME NEW t \in Clients, CountIn(t) PROVE Covered(s)'
  BY <1>3 DEF CountIn
<1>4. ASSUME NEW t \in Clients, EnsureCapacity(t) PROVE Covered(s)'
  BY <1>4 DEF EnsureCapacity, Swept, Unlock, Respond
<1>5. ASSUME NEW t \in Clients, Prepare(t) PROVE Covered(s)'
  BY <1>5 DEF Prepare
<1>6. ASSUME NEW t \in Clients, PrepareFails(t) PROVE Covered(s)'
  BY <1>6 DEF PrepareFails, Respond
<1>7. ASSUME NEW t \in Clients, Register(t) PROVE Covered(s)'
  BY <1>7 DEF Register, Swept, Unlock, Discard, Stop, Respond
<1>8. ASSUME NEW t \in Clients, CountOut(t) PROVE Covered(s)'
  BY <1>8 DEF CountOut
<1>9. ASSUME NEW t \in Clients, ReleaseSlot(t) PROVE Covered(s)'
  BY <1>9 DEF ReleaseSlot
<1>10. ASSUME NEW t \in Clients, Lookup(t) PROVE Covered(s)'
  BY <1>10 DEF Lookup, Swept, Unlock, Stop, Finish, Respond
<1>11. ASSUME NEW t \in Clients, ReportExpired(t) PROVE Covered(s)'
  BY <1>11 DEF ReportExpired, Unlock, Finish, Respond
<1>12. ASSUME NEW t \in Clients, Operate(t) PROVE Covered(s)'
  BY <1>12 DEF Operate
<1>13. ASSUME NEW t \in Clients, Operated(t) PROVE Covered(s)'
  BY <1>13 DEF Operated, Finish, Respond
<1>14. ASSUME NEW t \in Clients, Remove(t) PROVE Covered(s)'
  BY <1>14 DEF Remove, Stop, Finish, Respond
<1>15. ASSUME NEW t \in Clients, Snapshot(t) PROVE Covered(s)'
  BY <1>15 DEF Snapshot, Swept, Unlock, Finish, Respond
<1>16. ASSUME NEW t \in Threads, Sweep(t) PROVE Covered(s)'
  <2>1. /\ UNCHANGED <<sessions, closing, victim, session>>
        /\ \A u \in Threads : u # t => pc'[u] = pc[u]
        /\ lock = None /\ pc[t] \in Goals /\ lock' = t /\ goal' = pc[t]
    BY <1>16 DEF Sweep
  <2>2. \A c \in Clients : Preparing(c) => Preparing(c)'
    BY <2>1
  <2> QED
    BY <2>1, <2>2 DEF Goals
<1>17. ASSUME NEW t \in Threads, SweepNext(t) PROVE Covered(s)'
  BY <1>17 DEF SweepNext, Stop
<1>18. ASSUME NEW t \in Threads, Kill(t) PROVE Covered(s)'
  BY <1>18 DEF Kill
<1>19. ASSUME NEW t \in Threads, Wait(t) PROVE Covered(s)'
  BY <1>19 DEF Wait
<1>20. ASSUME Wake PROVE Covered(s)'
  BY <1>20 DEF Wake
<1>21. ASSUME Cleaned PROVE Covered(s)'
  BY <1>21 DEF Cleaned, Swept, Unlock
<1>22. ASSUME BeginShutdown PROVE Covered(s)'
  BY <1>22 DEF BeginShutdown
<1>23. ASSUME EmptyRegistry PROVE Covered(s)'
  BY <1>23 DEF EmptyRegistry, ClosingFit
<1>24. ASSUME CloseNext PROVE Covered(s)'
  BY <1>24 DEF CloseNext, Stop
<1>25. ASSUME NEW t \in Ids, Expire(t) PROVE Covered(s)'
  BY <1>25 DEF Expire
<1>26. CASE UNCHANGED vars
  BY <1>26 DEF vars
<1> QED
  BY <1>1, <1>2, <1>3, <1>4, <1>5, <1>6, <1>7, <1>8, <1>9, <1>10, <1>11, <1>12, <1>13,
     <1>14, <1>15, <1>16, <1>17, <1>18, <1>19, <1>20, <1>21, <1>22, <1>23, <1>24, <1>25, <1>26
  DEF Next, ClientStep, Locked, CleanerStep, CloserStep, Threads

LEMMA SessionMoves ==
    ASSUME [Next]_vars
    PROVE  session' = session \/ \E e \in Clients : Enter(e) \/ Prepare(e)
BY DEF Next, vars, EnterCreation, ClientStep, CleanerStep, CloserStep, Locked,
       Sweep, SweepNext, Kill, Wait, CountIn, EnsureCapacity, PrepareFails, Register,
       CountOut, ReleaseSlot, Lookup, ReportExpired, Operate, Operated, Remove, Snapshot,
       Wake, Cleaned, BeginShutdown, EmptyRegistry, CloseNext, Expire

LEMMA SolverMoves ==
    ASSUME TypeOK, NEW s, s \in solver' \ solver, [Next]_vars
    PROVE  \E d \in Clients : \/ Prepare(d) /\ s \notin born /\ session'[d] = s
                              \/ At(d, "working") /\ session[d] = s
<1> USE RegistryAssumption DEF TypeOK, Threads
<1>1. ASSUME NEW d \in Clients, Prepare(d)
      PROVE  s \notin born /\ session'[d] = s
  BY <1>1 DEF Prepare
<1>2. ASSUME NEW d \in Clients, Operated(d)
      PROVE  At(d, "working") /\ session[d] = s
  BY <1>2 DEF Operated
<1>3. \/ solver' \subseteq solver
      \/ \E d \in Clients : Prepare(d) \/ Operated(d)
  BY DEF Next, vars, Enter, Ask, EnterCreation, ClientStep, CleanerStep, CloserStep, Locked,
         Sweep, SweepNext, Kill, Wait, CountIn, EnsureCapacity, PrepareFails, Register,
         CountOut, ReleaseSlot, Lookup, ReportExpired, Operate, Remove, Snapshot,
         Wake, Cleaned, BeginShutdown, EmptyRegistry, CloseNext, Expire, lifeVars
<1> QED
  BY <1>1, <1>2, <1>3

(* Who takes a slot comes from outside, and who asks or prepares keeps     *)
(* every slot where it is.                                                 *)
LEMMA HoldersMove ==
    ASSUME TypeOK, PlacesFit, [Next]_vars
    PROVE  /\ \A c \in HoldsSlot' : c \in HoldsSlot \/ At(c, "idle")
           /\ \A e \in Clients : Enter(e) => HoldsSlot' = HoldsSlot /\ e \notin HoldsSlot
           /\ \A e \in Clients : Prepare(e) => HoldsSlot' = HoldsSlot
<1>1. \A c \in HoldsSlot' : c \in HoldsSlot \/ At(c, "idle")
  BY SlotMoves DEF Still, Takes, Starts, Ends, Returns
<1> USE RegistryAssumption DEF TypeOK, PlacesFit, HoldsSlot, At, GoTo, Stopping, Threads,
      Goals, Creating, lockVars, slotVars, lifeVars, stopVars, exitVars
<1>2. ASSUME NEW e \in Clients, Enter(e) PROVE HoldsSlot' = HoldsSlot /\ e \notin HoldsSlot
  BY <1>2 DEF Enter, Ask, Told
<1>3. ASSUME NEW e \in Clients, Prepare(e) PROVE HoldsSlot' = HoldsSlot
  BY <1>3 DEF Prepare
<1> QED
  BY <1>1, <1>2, <1>3

LEMMA UntoldKept ==
    ASSUME TypeOK, PlacesFit, KnownFit, Untold, [Next]_vars PROVE Untold'
<1> USE RegistryAssumption
<1> SUFFICES ASSUME NEW c \in HoldsSlot', NEW d \in Clients, c # d, session'[c] # None
             PROVE  session'[d] # session'[c]
  BY DEF Untold
<1>0. c \in Clients /\ session \in [Threads -> Ids \cup {None}] /\ Clients \subseteq Threads
  BY DEF HoldsSlot, TypeOK, Threads
<1>1. CASE session' = session
  <2>1. c \in HoldsSlot
    BY <1>0, <1>1, HoldersMove DEF KnownFit
  <2> QED
    BY <1>1, <2>1 DEF Untold
<1>2. ASSUME NEW e \in Clients, Enter(e) PROVE session'[d] # session'[c]
  <2>1. c \in HoldsSlot /\ c # e
    BY <1>2, HoldersMove
  <2>2. PICK s : (s = None \/ s \in Told) /\ session' = [session EXCEPT ![e] = s]
    BY <1>2 DEF Enter, Ask
  <2>3. s # session[c]
    <3>1. session[c] # None
      BY <1>0, <2>1, <2>2
    <3>2. CASE s \in Told
      <4>1. PICK u \in Clients : At(u, "done") /\ s = session[u]
        BY <3>2 DEF Told
      <4>2. u # c
        BY <2>1, <4>1 DEF HoldsSlot, Creating, At, Stopping, PlacesFit, Threads
      <4> QED
        BY <2>1, <3>1, <4>1, <4>2 DEF Untold
    <3> QED
      BY <2>2, <3>1, <3>2
  <2> QED
    BY <1>0, <2>1, <2>2, <2>3 DEF Untold
<1>3. ASSUME NEW e \in Clients, Prepare(e) PROVE session'[d] # session'[c]
  <2>1. c \in HoldsSlot
    BY <1>3, HoldersMove
  <2>2. PICK s \in Ids \ born : session' = [session EXCEPT ![e] = s]
    BY <1>3 DEF Prepare
  <2>3. session[c] # s /\ session[d] # s
    BY <1>0, <2>2 DEF KnownFit
  <2> QED
    BY <1>0, <2>1, <2>2, <2>3 DEF Untold
<1> QED
  BY <1>1, <1>2, <1>3, SessionMoves

LEMMA GuardedKept ==
    ASSUME TypeOK, TypeOK', PlacesFit, ClosingFit, KnownFit, Untold, Guarded, [Next]_vars
    PROVE  Guarded'
<1> USE RegistryAssumption
<1> SUFFICES ASSUME NEW c \in HoldsSlot', session'[c] \in solver'
             PROVE  Covered(session[c])'
  BY DEF Guarded
<1> DEFINE s == session'[c]
<1>0. /\ c \in Clients /\ session \in [Threads -> Ids \cup {None}] /\ Clients \subseteq Threads
      /\ solver \subseteq Ids /\ born \subseteq Ids
  BY DEF HoldsSlot, TypeOK, Threads
<1>1. CASE session'[c] = session[c]
  <2>1. s \in Ids
    BY DEF TypeOK
  <2>2. c \in HoldsSlot
    BY <1>0, <1>1, <2>1, HoldersMove DEF KnownFit
  <2>3. pc[c] # "working" /\ ~ Swept(c, "get")
    BY <2>2 DEF HoldsSlot, Creating, Stopping, PlacesFit, Swept, At, Threads
  <2>4. ASSUME NEW d \in Clients, d # c PROVE session[d] # s
    BY <1>1, <2>1, <2>2, <2>4 DEF Untold
  <2>5. s \in solver
    <3>1. SUFFICES ASSUME s \notin solver PROVE FALSE
      OBVIOUS
    <3>2. s \in born
      BY <1>0, <1>1, <2>1 DEF KnownFit
    <3>3. ~ \E d \in Clients : At(d, "working") /\ session[d] = s
      BY <2>3, <2>4 DEF At
    <3> QED
      BY <3>1, <3>2, <3>3, SolverMoves
  <2>6. Covered(session[c])
    BY <1>1, <2>2, <2>5 DEF Guarded
  <2>7. ~ \E d \in Clients : Swept(d, "get") /\ session[d] = s
    BY <2>3, <2>4
  <2>8. \A x \in Ids : x = session[c] => Covered(x)'
    BY <1>1, <2>6, <2>7, CoveredKept
  <2> QED
    BY <1>1, <2>1, <2>8 DEF Covered
<1>2. CASE session'[c] # session[c]
  <2>1. PICK e \in Clients : Enter(e) \/ Prepare(e)
    BY <1>2, SessionMoves
  <2>2. c = e
    BY <1>0, <1>2, <2>1 DEF Enter, Ask, Prepare
  <2>3. ~ Enter(e)
    BY <2>2, HoldersMove
  <2>4. Preparing(c)'
    BY <1>0, <2>1, <2>2, <2>3 DEF Prepare, GoTo, Preparing, At, TypeOK
  <2> QED
    BY <1>0, <2>4 DEF Covered
<1> QED
  BY <1>1, <1>2

LEMMA FateInitially == Init => FateInv
BY RegistryAssumption DEF Init, FateInv, KnownFit, Untold, Guarded, ClosingFit, Threads

(* The registry forgets no session whose FASB runs without stopping it: a  *)
(* refused creation, expiry, DELETE, the cleanup thread and shutdown each  *)
(* hand it on to the next owner.                                           *)
THEOREM NoneForgotten == Spec => SolverAccounted
<1>1. IInv /\ FateInv /\ [Next]_vars => FateInv'
  BY TypesKept, KnownKept, ClosingKept, UntoldKept, GuardedKept DEF IInv, FateInv
<1>2. IInv /\ FateInv /\ [Next]_vars
        => [\A s \in Ids : s \in (solver \cap solver') \cap available /\ Accounted(s)
               => (Accounted(s))']_vars
  <2> SUFFICES ASSUME IInv, FateInv, [Next]_vars, NEW s \in Ids,
                      s \in (solver \cap solver') \cap available, Accounted(s)
               PROVE  (Accounted(s))'
    OBVIOUS
  <2>1. Covered(s)
    BY DEF Accounted, InCharge, FateInv, Guarded, Covered
  <2>2. Covered(s)'
    BY <2>1, CoveredKept DEF IInv, FateInv
  <2>3. \A c \in Clients : Preparing(c)' => c \in HoldsSlot' /\ c \in Threads
    BY DEF Preparing, HoldsSlot, At, Creating, Threads
  <2> QED
    BY <2>2, <2>3 DEF Covered, Accounted, InCharge
<1> QED
  BY Invariance, FateInitially, <1>1, <1>2, PTL DEF Spec, SolverAccounted
=============================================================================
