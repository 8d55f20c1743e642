--------------------------- MODULE SessionRegistry ---------------------------
(***************************************************************************)
(* The registry of all sessions (session_registry.py:972-1178): creation   *)
(* slots, the two capacity checks around a creation, lookup with expiry,   *)
(* DELETE, the cleanup thread and shutdown.                                *)
(*                                                                         *)
(* A session is seen from outside: whether FASB runs, whether it is        *)
(* available and expired, and which thread holds its operation_lock.       *)
(* Module Session says what happens inside.                                *)
(***************************************************************************)
EXTENDS Integers, FiniteSets

CONSTANTS
    Clients,        \* HTTP requests; each is served once
    Cleaner,        \* the thread of _cleanup_loop
    Closer,         \* the thread that runs shutdown at exit
    Ids,            \* session identifiers
    Serves,         \* the kinds of request the clients send
    Effects,        \* what an operation may do to FASB
    MaxActive,      \* _max_active_sessions
    MaxCreations,   \* _max_concurrent_creations
    None

Threads == Clients \cup {Cleaner, Closer}
Kinds == {"create", "use", "delete", "health"}
Starting == {"restart", "restore"}
Losing == {"lose", "giveUp"}
AllEffects == {"none"} \cup Starting \cup Losing

ASSUME RegistryAssumption ==
    /\ Cleaner \notin Clients /\ Closer \notin Clients /\ Cleaner # Closer
    /\ None \notin Threads /\ None \notin Ids
    /\ IsFiniteSet(Clients) /\ IsFiniteSet(Ids)
    /\ Serves \subseteq Kinds /\ Effects \subseteq AllEffects /\ Effects # {}
    /\ MaxActive \in Nat \ {0} /\ MaxCreations \in Nat \ {0}

VARIABLES
    sessions,       \* the keys of _sessions
    slots,          \* free slots of _creation_slots
    creations,      \* _active_creations
    lock,           \* the thread that holds _lock across a stop
    doomed,         \* expired_ids that its holder has still to stop
    goal,           \* what the holder does when that is done
    closing,        \* the sessions shutdown has still to stop
    exiting,        \* _shutdown_event
    born,           \* identifiers in use
    solver,         \* the sessions whose FASB runs
    available,      \* those with solver_available
    expired,        \* those whose expires_at has passed
    stopping,       \* those whose stopping event is set
    worker,         \* the thread that holds the operation_lock of a session
    pc,             \* where each thread is
    session,        \* the session each thread is about
    victim,         \* the session each thread is stopping
    back,           \* where it goes on after that
    outcome         \* the response of each client

lockVars == <<lock, doomed, goal>>
slotVars == <<slots, creations>>
lifeVars == <<born, solver, available, expired, stopping>>
stopVars == <<victim, back>>
exitVars == <<closing, exiting>>
vars == <<sessions, slots, creations, lock, doomed, goal, closing, exiting, born,
          solver, available, expired, stopping, worker, pc, session, victim, back,
          outcome>>

Goals == {"capacity", "register", "get", "health", "cleanup"}
Creating == {"count", "capacity", "prepare", "register", "leave", "release"}
Places == Goals \cup Creating
            \cup {"idle", "sweep", "kill", "wait", "unlock", "operate", "working",
                  "remove", "empty", "close", "done"}
Outcomes == {"none", "busy", "full", "failed", "created", "notFound", "expired", "ok"}

TypeOK ==
    /\ sessions \subseteq born /\ born \subseteq Ids /\ solver \subseteq born
    /\ available \subseteq born /\ expired \subseteq born /\ stopping \subseteq born
    /\ closing \subseteq born /\ doomed \subseteq born
    /\ slots \in 0..MaxCreations /\ creations \in 0..MaxCreations
    /\ lock \in Threads \cup {None} /\ goal \in Goals \cup {None}
    /\ exiting \in BOOLEAN
    /\ worker \in [Ids -> Clients \cup {None}]
    /\ pc \in [Threads -> Places]
    /\ session \in [Threads -> Ids \cup {None}]
    /\ victim \in [Threads -> Ids \cup {None}]
    /\ back \in [Threads -> Places]
    /\ outcome \in [Threads -> Outcomes]

Init ==
    /\ sessions = {} /\ slots = MaxCreations /\ creations = 0
    /\ lock = None /\ doomed = {} /\ goal = None
    /\ closing = {} /\ exiting = FALSE
    /\ born = {} /\ solver = {} /\ available = {} /\ expired = {} /\ stopping = {}
    /\ worker = [s \in Ids |-> None]
    /\ pc = [t \in Threads |-> "idle"]
    /\ session = [t \in Threads |-> None] /\ victim = [t \in Threads |-> None]
    /\ back = [t \in Threads |-> "idle"]
    /\ outcome = [t \in Threads |-> "none"]

At(t, place) == pc[t] = place
GoTo(t, place) == pc' = [pc EXCEPT ![t] = place]
Respond(t, answer) == outcome' = [outcome EXCEPT ![t] = answer]
Finish(t, answer) == GoTo(t, "done") /\ Respond(t, answer)

-----------------------------------------------------------------------------
(* Arrival: which route a request takes, about a session that some client  *)
(* has been told of.                                                       *)

Told == {session[u] : u \in {v \in Clients : At(v, "done") /\ outcome[v] = "created"}}

Ask(c, kind, s, place) ==
    /\ kind \in Serves
    /\ At(c, "idle")
    /\ session' = [session EXCEPT ![c] = s]
    /\ GoTo(c, place)
    /\ UNCHANGED <<sessions, slotVars, lockVars, exitVars, lifeVars, worker, stopVars,
                   outcome>>

Enter(c) ==
    \/ Ask(c, "health", None, "health")
    \/ \E s \in Told : Ask(c, "use", s, "get") \/ Ask(c, "delete", s, "remove")

(* the semaphore, taken without waiting *)
EnterCreation(c) ==
    /\ At(c, "idle") /\ "create" \in Serves
    /\ IF slots > 0
       THEN /\ slots' = slots - 1
            /\ GoTo(c, "count") /\ UNCHANGED outcome
       ELSE Finish(c, "busy") /\ UNCHANGED slots
    /\ UNCHANGED <<sessions, creations, lockVars, exitVars, lifeVars, worker, session,
                   stopVars>>

(* expires_at passes *)
Expire(s) ==
    /\ s \in born \ expired
    /\ expired' = expired \cup {s}
    /\ UNCHANGED <<sessions, slotVars, lockVars, exitVars, born, solver, available,
                   stopping, worker, pc, session, stopVars, outcome>>

-----------------------------------------------------------------------------
(* SessionContext.stop(), in the thread t, which then goes on at "place" *)

Stop(t, s, place) ==
    /\ victim' = [victim EXCEPT ![t] = s]
    /\ back' = [back EXCEPT ![t] = place]
    /\ GoTo(t, "kill")

Kill(t) ==
    /\ At(t, "kill")
    /\ stopping' = stopping \cup {victim[t]}
    /\ solver' = solver \ {victim[t]}
    /\ GoTo(t, "wait")
    /\ UNCHANGED <<sessions, slotVars, lockVars, exitVars, born, available, expired,
                   worker, session, stopVars, outcome>>

Wait(t) ==
    /\ At(t, "wait") /\ worker[victim[t]] = None
    /\ available' = available \ {victim[t]}
    /\ GoTo(t, back[t])
    /\ victim' = [victim EXCEPT ![t] = None]
    /\ UNCHANGED <<sessions, slotVars, lockVars, exitVars, born, solver, expired,
                   stopping, worker, session, back, outcome>>

-----------------------------------------------------------------------------
(* _cleanup_expired_locked, at the start of every block that needs it: the *)
(* registry lock is held while the expired sessions are stopped.           *)

Spared(t) == IF At(t, "get") THEN {session[t]} ELSE {}
OnlyUnavailable == born \ available
Stale == expired \cup (born \ available)

Sweep(t) ==
    /\ pc[t] \in Goals /\ lock = None
    /\ lock' = t /\ goal' = pc[t]
    /\ doomed' = (sessions \cap Stale) \ Spared(t)
    /\ GoTo(t, "sweep")
    /\ UNCHANGED <<sessions, slotVars, exitVars, lifeVars, worker, session, stopVars,
                   outcome>>

SweepNext(t) ==
    /\ At(t, "sweep") /\ lock = t
    /\ \E s \in doomed :
          /\ doomed' = doomed \ {s}
          /\ sessions' = sessions \ {s}
          /\ Stop(t, s, "sweep")
    /\ UNCHANGED <<slotVars, lock, goal, exitVars, lifeVars, worker, session, outcome>>

Swept(t, aim) == At(t, "sweep") /\ lock = t /\ doomed = {} /\ goal = aim
Unlock == lock' = None /\ goal' = None /\ UNCHANGED doomed

-----------------------------------------------------------------------------
(* create_session *)

CountIn(c) ==
    /\ At(c, "count") /\ lock = None
    /\ creations' = creations + 1
    /\ GoTo(c, "capacity")
    /\ UNCHANGED <<sessions, slots, lockVars, exitVars, lifeVars, worker, session,
                   stopVars, outcome>>

Full == Cardinality(sessions) >= MaxActive

RefusalCountsOut(c) ==
    /\ Swept(c, "capacity") /\ Unlock
    /\ IF Full THEN GoTo(c, "leave") /\ Respond(c, "full") /\ creations' = creations - 1
       ELSE GoTo(c, "prepare") /\ UNCHANGED <<outcome, creations>>
    /\ UNCHANGED <<sessions, slots, exitVars, lifeVars, worker, session, stopVars>>

RefusesTooEarly(c) ==
    /\ Swept(c, "capacity") /\ Unlock
    /\ IF Full THEN Finish(c, "full")
       ELSE GoTo(c, "prepare") /\ UNCHANGED outcome
    /\ UNCHANGED <<sessions, slotVars, exitVars, lifeVars, worker, session, stopVars>>

EnsureCapacity(c) ==
    /\ Swept(c, "capacity") /\ Unlock
    /\ IF Full THEN GoTo(c, "leave") /\ Respond(c, "full")
       ELSE GoTo(c, "prepare") /\ UNCHANGED outcome
    /\ UNCHANGED <<sessions, slotVars, exitVars, lifeVars, worker, session, stopVars>>

(* Fast Downward, plasp and FASB have answered: a session with a plan *)
Prepare(c) ==
    /\ At(c, "prepare")
    /\ \E s \in Ids \ born :
          /\ born' = born \cup {s} /\ solver' = solver \cup {s}
          /\ available' = available \cup {s}
          /\ session' = [session EXCEPT ![c] = s]
    /\ GoTo(c, "register")
    /\ UNCHANGED <<sessions, slotVars, lockVars, exitVars, expired, stopping, worker,
                   stopVars, outcome>>

(* one of them has failed; FASB is stopped before the error leaves *)
PrepareFails(c) ==
    /\ At(c, "prepare")
    /\ GoTo(c, "leave") /\ Respond(c, "failed")
    /\ UNCHANGED <<sessions, slotVars, lockVars, exitVars, lifeVars, worker, session,
                   stopVars>>

(* the prepared session of a refused creation *)
Abandon(c) == GoTo(c, "leave") /\ UNCHANGED stopVars
Discard(c) == Stop(c, session[c], "leave")

RegisterUnchecked(c) ==
    /\ Swept(c, "register") /\ Unlock
    /\ sessions' = sessions \cup {session[c]}
    /\ GoTo(c, "leave") /\ Respond(c, "created")
    /\ UNCHANGED <<slotVars, exitVars, lifeVars, worker, session, stopVars>>

Register(c) ==
    /\ Swept(c, "register") /\ Unlock
    /\ IF Full
       THEN Discard(c) /\ Respond(c, "full") /\ UNCHANGED sessions
       ELSE /\ sessions' = sessions \cup {session[c]}
            /\ GoTo(c, "leave") /\ Respond(c, "created") /\ UNCHANGED stopVars
    /\ UNCHANGED <<slotVars, exitVars, lifeVars, worker, session>>

(* the finally block *)
CountOut(c) ==
    /\ At(c, "leave") /\ lock = None
    /\ creations' = creations - 1
    /\ GoTo(c, "release")
    /\ UNCHANGED <<sessions, slots, lockVars, exitVars, lifeVars, worker, session,
                   stopVars, outcome>>

ReleaseSlot(c) ==
    /\ At(c, "release")
    /\ slots' = slots + 1
    /\ GoTo(c, "done")
    /\ UNCHANGED <<sessions, creations, lockVars, exitVars, lifeVars, worker, session,
                   stopVars, outcome>>

-----------------------------------------------------------------------------
(* get_session and the operation that follows *)

Lookup(c) ==
    /\ Swept(c, "get")
    /\ LET s == session[c]
       IN  \/ /\ s \notin sessions
              /\ Finish(c, "notFound") /\ Unlock
              /\ UNCHANGED <<sessions, expired, stopVars>>
           \/ /\ s \in sessions \ available
              /\ sessions' = sessions \ {s}
              /\ Finish(c, "notFound") /\ Unlock
              /\ UNCHANGED <<expired, stopVars>>
           \/ /\ s \in (sessions \cap available) \cap expired
              /\ sessions' = sessions \ {s}
              /\ Stop(c, s, "unlock")
              /\ UNCHANGED <<expired, lockVars, outcome>>
           \/ /\ s \in (sessions \cap available) \ expired
              /\ GoTo(c, "operate") /\ Unlock
              /\ UNCHANGED <<sessions, expired, stopVars, outcome>>
    /\ UNCHANGED <<slotVars, exitVars, born, solver, available, stopping, worker,
                   session>>

(* SessionExpiredError leaves the lock's block *)
ReportExpired(c) ==
    /\ At(c, "unlock")
    /\ Finish(c, "expired") /\ Unlock
    /\ UNCHANGED <<sessions, slotVars, exitVars, lifeVars, worker, session, stopVars>>

Operate(c) ==
    /\ At(c, "operate") /\ worker[session[c]] = None
    /\ worker' = [worker EXCEPT ![session[c]] = c]
    /\ GoTo(c, "working")
    /\ UNCHANGED <<sessions, slotVars, lockVars, exitVars, lifeVars, session, stopVars,
                   outcome>>

OperatedUnderLock(c) ==
    /\ At(c, "working") /\ lock = None
    /\ worker' = [worker EXCEPT ![session[c]] = None]
    /\ Finish(c, "ok")
    /\ UNCHANGED <<sessions, slotVars, lockVars, exitVars, lifeVars, session, stopVars>>

(* An operation leaves FASB as it is, starts it anew, restores it, loses   *)
(* it unnoticed, or fails to restore it.                                   *)
Operated(c) ==
    /\ At(c, "working")
    /\ worker' = [worker EXCEPT ![session[c]] = None]
    /\ LET s == session[c]
       IN  \E effect \in Effects :
              /\ solver' = (solver \ (IF effect \in Losing THEN {s} ELSE {}))
                               \cup (IF effect \in Starting THEN {s} ELSE {})
              /\ available' = (available \ (IF effect = "giveUp" THEN {s} ELSE {}))
                                  \cup (IF effect = "restore" THEN {s} ELSE {})
    /\ Finish(c, "ok")
    /\ UNCHANGED <<sessions, slotVars, lockVars, exitVars, born, expired, stopping,
                   session, stopVars>>

-----------------------------------------------------------------------------
(* stop_session, capacity_snapshot, _cleanup_loop and shutdown *)

RemoveKeepsEntry(c) ==
    /\ At(c, "remove") /\ lock = None
    /\ IF session[c] \in sessions
       THEN Stop(c, session[c], "done") /\ Respond(c, "ok")
       ELSE Finish(c, "notFound") /\ UNCHANGED stopVars
    /\ UNCHANGED <<sessions, slotVars, lockVars, exitVars, lifeVars, worker, session>>

Remove(c) ==
    /\ At(c, "remove") /\ lock = None
    /\ LET s == session[c]
       IN  IF s \in sessions
           THEN /\ sessions' = sessions \ {s}
                /\ Stop(c, s, "done") /\ Respond(c, "ok")
           ELSE Finish(c, "notFound") /\ UNCHANGED <<sessions, stopVars>>
    /\ UNCHANGED <<slotVars, lockVars, exitVars, lifeVars, worker, session>>

Snapshot(c) ==
    /\ Swept(c, "health") /\ Unlock
    /\ Finish(c, "ok")
    /\ UNCHANGED <<sessions, slotVars, exitVars, lifeVars, worker, session, stopVars>>

Wake ==
    /\ At(Cleaner, "idle")
    /\ GoTo(Cleaner, IF exiting THEN "done" ELSE "cleanup")
    /\ UNCHANGED <<sessions, slotVars, lockVars, exitVars, lifeVars, worker, session,
                   stopVars, outcome>>

Cleaned ==
    /\ Swept(Cleaner, "cleanup") /\ Unlock
    /\ GoTo(Cleaner, "idle")
    /\ UNCHANGED <<sessions, slotVars, exitVars, lifeVars, worker, session, stopVars,
                   outcome>>

BeginShutdown ==
    /\ At(Closer, "idle")
    /\ exiting' = TRUE
    /\ GoTo(Closer, "empty")
    /\ UNCHANGED <<sessions, slotVars, lockVars, closing, lifeVars, worker, session,
                   stopVars, outcome>>

EmptyRegistry ==
    /\ At(Closer, "empty") /\ lock = None
    /\ closing' = sessions /\ sessions' = {}
    /\ GoTo(Closer, "close")
    /\ UNCHANGED <<slotVars, lockVars, exiting, lifeVars, worker, session, stopVars,
                   outcome>>

CloseNext ==
    /\ At(Closer, "close")
    /\ \/ \E s \in closing : closing' = closing \ {s} /\ Stop(Closer, s, "close")
       \/ closing = {} /\ GoTo(Closer, "done") /\ UNCHANGED <<closing, stopVars>>
    /\ UNCHANGED <<sessions, slotVars, lockVars, exiting, lifeVars, worker, session,
                   outcome>>

-----------------------------------------------------------------------------
Locked(t) == Sweep(t) \/ SweepNext(t) \/ Kill(t) \/ Wait(t)

ClientStep(c) ==
    \/ Locked(c)
    \/ CountIn(c) \/ EnsureCapacity(c) \/ Prepare(c) \/ PrepareFails(c) \/ Register(c)
    \/ CountOut(c) \/ ReleaseSlot(c)
    \/ Lookup(c) \/ ReportExpired(c) \/ Operate(c) \/ Operated(c)
    \/ Remove(c) \/ Snapshot(c)

CleanerStep == Locked(Cleaner) \/ Wake \/ Cleaned
CloserStep == Kill(Closer) \/ Wait(Closer) \/ EmptyRegistry \/ CloseNext

Next == \/ \E c \in Clients : Enter(c) \/ EnterCreation(c) \/ ClientStep(c)
        \/ CleanerStep \/ BeginShutdown \/ CloserStep
        \/ \E s \in Ids : Expire(s)

Spec == Init /\ [][Next]_vars

(* Every call ends, so every thread's next step is fair.  It is strongly   *)
(* fair because the cleanup thread comes back to the registry lock for     *)
(* ever; it sleeps at least a second in between, in which a thread that    *)
(* waits for the lock gets it.                                             *)
Fairness ==
    /\ \A c \in Clients : SF_vars(ClientStep(c))
    /\ SF_vars(CleanerStep) /\ SF_vars(CloserStep)

FairSpec == Spec /\ Fairness

-----------------------------------------------------------------------------
(* Properties *)

(* The number of registered sessions never exceeds the limit, however many *)
(* creations prepare a session at the same time                            *)
(* (session_registry.py:1094-1099).                                        *)
WithinLimit == Cardinality(sessions) <= MaxActive

(* the clients inside the try block of create_session *)
Stopping(t) == pc[t] \in {"kill", "wait"}
HoldsSlot == {c \in Clients : \/ pc[c] \in Creating
                              \/ lock = c /\ goal \in Creating
                              \/ Stopping(c) /\ back[c] = "leave"}
Counted == {c \in HoldsSlot : pc[c] \notin {"count", "release"}}

(* Every creation slot is free or held by a creation under way, and        *)
(* _active_creations counts those between its two updates, whichever way a *)
(* creation ends (session_registry.py:1001-1086).                          *)
SlotsConserved ==
    /\ slots + Cardinality(HoldsSlot) = MaxCreations
    /\ creations = Cardinality(Counted)

(* DELETE, expiry, cleanup, shutdown and a refused creation never stop one *)
(* session twice, and none of them stops a session still registered: each  *)
(* takes it out of the dict first (session_registry.py:1115-1178).         *)
StoppedByOne ==
    \A t \in Threads : Stopping(t) =>
        /\ victim[t] \notin sessions
        /\ \A u \in Threads \ {t} : Stopping(u) => victim[u] # victim[t]

(* A running FASB belongs to a session that is registered, or that some    *)
(* thread is creating or about to stop.                                    *)
InCharge(t, s) ==
    \/ session[t] = s /\ t \in HoldsSlot
    \/ victim[t] = s /\ pc[t] = "kill"
Accounted(s) == s \in sessions \cup closing \/ \E t \in Threads : InCharge(t, s)

(* On no path (refused creation, expiry, cleanup, DELETE, shutdown) does   *)
(* the registry forget a session whose FASB runs without stopping it.  Two *)
(* ways remain to lose one, and module Session has them: an operation that *)
(* starts FASB again, and get_session dropping a session whose solver only *)
(* seems unavailable.                                                      *)
SolverAccounted ==
    [][\A s \in Ids : s \in (solver \cap solver') \cap available /\ Accounted(s)
          => (Accounted(s))']_vars

(* Every request is answered, although a session that waits for its own    *)
(* operation is stopped under the lock all others need                     *)
(* (session_registry.py:1123-1178).                                        *)
ClientsEnd == \A c \in Clients : ~At(c, "idle") ~> At(c, "done")

(* An expired session leaves the registry without any request for it,      *)
(* unless the service shuts down (session_registry.py:1164-1178).          *)
ExpiredGo ==
    \A s \in Ids : s \in sessions \cap expired ~> s \notin sessions \/ exiting
=============================================================================
