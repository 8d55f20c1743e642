---------------------------- MODULE FasbService ----------------------------
(***************************************************************************)
(* PlanpilotService of planpilot_service.py: the handle of the FASB        *)
(* process, the output buffer and the thread that fills it, and the way    *)
(* send_command finds the end of a response: FASB prints no prompt, so a   *)
(* second command #? is written after each one, and lines that hold a      *)
(* number are counted.                                                     *)
(*                                                                         *)
(* One worker, the thread that holds the session's operation_lock, sends   *)
(* commands and restarts FASB.  The stoppers (stop(), cancel_query_job())  *)
(* call stop_fasb without any lock.  Each step is one access to a shared   *)
(* attribute.  Processes are numbered in the order they are started; each  *)
(* has a buffer and a reader thread of its own.                            *)
(***************************************************************************)
EXTENDS Naturals, Sequences, FiniteSets, SequencesExt

CONSTANTS
    Worker,
    Stoppers,
    MaxProcesses,   \* bound: how often FASB is started
    MaxCommands,    \* bound: how many commands are sent
    Faults          \* "die": FASB may die; "prepare": the program may be missing

Actors == Stoppers \cup {Worker}
Processes == 1..MaxProcesses
NoProcess == 0

ASSUME FasbAssumption ==
    /\ Worker \notin Stoppers
    /\ MaxProcesses \in Nat /\ MaxCommands \in Nat
    /\ Faults \subseteq {"die", "prepare"}

VARIABLES
    process,    \* self.process
    started,    \* the number of processes started; the newest owns output_buffer
    fasb,       \* each process: alive, ready, unread stdin and stdout, changes
    buffer,     \* the output buffer of each process
    sent,       \* the number of commands sent
    at,         \* where each actor is
    seen,       \* the local variable "process" of _stop_current_process
    work,       \* the local variables of the worker
    outcome     \* how the worker's last call ended

vars == <<process, started, fasb, buffer, sent, at, seen, work, outcome>>

-----------------------------------------------------------------------------
(* Commands, lines and the framing of a response *)

(* text: ?, ! n and |= ; count: #? and #! ; change: + f and - f *)
Kinds == {"text", "count", "change"}

Statuses == {"none", "ok", "error", "capacity"}

(* id: the command a line answers; 0 for the banner *)
Lines == [id : 0..MaxCommands, kind : {"banner", "text", "number"}]
Requests == [id : 1..MaxCommands, kind : Kinds]

Banner == [id |-> 0, kind |-> "banner"]
IsNumber(line) == line.kind = "number"

(* what FASB prints for a request *)
Output(request) ==
    IF request.kind = "change" THEN <<>>
    ELSE <<[id |-> request.id,
            kind |-> IF request.kind = "count" THEN "number" ELSE "text"]>>

(* the facets a request activates or deactivates in FASB *)
Effect(request) == IF request.kind = "change" THEN {request.id} ELSE {}

NoMarkerAfterChange(kind) ==
    IF kind = "count" THEN 2 ELSE IF kind = "change" THEN 0 ELSE 1
ExpectedNumbers(kind) == IF kind = "count" THEN 2 ELSE 1

NumbersIn(lines) == Cardinality({i \in DOMAIN lines : IsNumber(lines[i])})

(* everything before the last number: the answer without the marker *)
BeforeMarker(lines) ==
    SubSeq(lines, 1, SelectLastInSeq(lines, IsNumber) - 1)

-----------------------------------------------------------------------------

NotStarted == [alive |-> FALSE, ready |-> FALSE, stdin |-> <<>>,
               stdout |-> <<>>, loaded |-> {}]

Places == {"idle", "enter", "write", "look", "same", "poll", "clock", "spawn",
           "ready", "stop", "clear", "kill", "done"}

(* id, kind: the command; mine: the local "process" of send_command; next,  *)
(* status: where _stop_current_process returns to, and with which outcome;  *)
(* late: the deadline of the response has passed                            *)
Work == [id : 0..MaxCommands, kind : Kinds, mine : 0..MaxProcesses,
         next : {"idle", "spawn"}, status : Statuses, late : BOOLEAN]

TypeOK ==
    /\ process \in 0..MaxProcesses
    /\ started \in 0..MaxProcesses
    /\ fasb \in [Processes -> [alive : BOOLEAN, ready : BOOLEAN,
                               stdin : Seq(Requests), stdout : Seq(Lines),
                               loaded : SUBSET (1..MaxCommands)]]
    /\ buffer \in [Processes -> Seq(Lines)]
    /\ sent \in 0..MaxCommands
    /\ at \in [Actors -> Places]
    /\ seen \in [Actors -> 0..MaxProcesses]
    /\ work \in Work
    /\ outcome \in [status : Statuses, id : 0..MaxCommands, kind : Kinds,
                    lines : Seq(Lines)]

Init ==
    /\ process = NoProcess
    /\ started = 0
    /\ fasb = [g \in Processes |-> NotStarted]
    /\ buffer = [g \in Processes |-> <<>>]
    /\ sent = 0
    /\ at = [a \in Actors |-> IF a = Worker THEN "idle" ELSE "stop"]
    /\ seen = [a \in Actors |-> NoProcess]
    /\ work = [id |-> 0, kind |-> "text", mine |-> NoProcess, next |-> "idle",
               status |-> "none", late |-> FALSE]
    /\ outcome = [status |-> "none", id |-> 0, kind |-> "text", lines |-> <<>>]

Goto(a, place) == at' = [at EXCEPT ![a] = place]

(* the worker's call ends *)
EndWith(status, lines) ==
    /\ Goto(Worker, "idle")
    /\ outcome' = [status |-> status, id |-> work.id, kind |-> work.kind,
                   lines |-> lines]

(* _terminate_process waits until the process is gone *)
Terminated(g) == IF g = NoProcess THEN fasb ELSE [fasb EXCEPT ![g].alive = FALSE]

Terminate(g) == fasb' = Terminated(g)

(* the worker calls _stop_current_process *)
StopThen(next, status) ==
    /\ Goto(Worker, "stop")
    /\ work' = [work EXCEPT !.next = next, !.status = status]

-----------------------------------------------------------------------------
(* _stop_current_process, of the worker or through stop_fasb *)

(* a session has stoppers once its first start has ended *)
StopRead(a) ==
    /\ at[a] = "stop"
    /\ a \in Stoppers => outcome.status # "none"
    /\ seen' = [seen EXCEPT ![a] = process]
    /\ Goto(a, "clear")
    /\ UNCHANGED <<process, started, fasb, buffer, sent, work, outcome>>

StopClear(a) ==
    /\ at[a] = "clear"
    /\ process' = NoProcess
    /\ Goto(a, "kill")
    /\ UNCHANGED <<started, fasb, buffer, sent, seen, work, outcome>>

StopKill(a) ==
    /\ at[a] = "kill"
    /\ Terminate(seen[a])
    /\ seen' = [seen EXCEPT ![a] = NoProcess]
    /\ IF a # Worker THEN Goto(a, "done") /\ UNCHANGED outcome
       ELSE IF work.next = "spawn" THEN Goto(a, "spawn") /\ UNCHANGED outcome
       ELSE EndWith(work.status, <<>>)
    /\ UNCHANGED <<process, started, buffer, sent, work>>

-----------------------------------------------------------------------------
(* restart_FASB; run_planpilot_service is the same followed by a command *)

RestartOver ==
    /\ at[Worker] = "idle"
    /\ started < MaxProcesses
    /\ Goto(Worker, "spawn")
    /\ work' = [work EXCEPT !.id = 0, !.kind = "text", !.next = "spawn"]
    /\ UNCHANGED <<process, started, fasb, buffer, sent, seen, outcome>>

Restart ==
    /\ at[Worker] = "idle"
    /\ started < MaxProcesses
    /\ Goto(Worker, "stop")
    /\ work' = [work EXCEPT !.id = 0, !.kind = "text", !.next = "spawn"]
    /\ UNCHANGED <<process, started, fasb, buffer, sent, seen, outcome>>

(* _ensure_lp_file fails before the running process is stopped *)
RestartFails ==
    /\ at[Worker] = "idle"
    /\ started < MaxProcesses
    /\ "prepare" \in Faults
    /\ \E status \in {"error", "capacity"} :
         outcome' = [status |-> status, id |-> 0, kind |-> "text", lines |-> <<>>]
    /\ UNCHANGED <<process, started, fasb, buffer, sent, at, seen, work>>

Spawn ==
    /\ at[Worker] = "spawn"
    /\ started' = started + 1
    /\ process' = started + 1
    /\ fasb' = [fasb EXCEPT ![started + 1].alive = TRUE]
    /\ work' = [work EXCEPT !.late = FALSE]
    /\ Goto(Worker, "ready")
    /\ UNCHANGED <<buffer, sent, seen, outcome>>

(* _wait_for_fasb_ready *)
SeesBanner ==
    /\ at[Worker] = "ready"
    /\ ~ work.late
    /\ Contains(buffer[started], Banner)
    /\ EndWith("ok", <<>>)
    /\ UNCHANGED <<process, started, fasb, buffer, sent, seen, work>>

NotReady ==
    /\ at[Worker] = "ready"
    /\ work.late
    /\ StopThen("idle", "capacity")
    /\ UNCHANGED <<process, started, fasb, buffer, sent, seen, outcome>>

-----------------------------------------------------------------------------
(* send_command *)

Begin(kind) ==
    /\ at[Worker] = "idle"
    /\ started > 0 /\ sent < MaxCommands
    /\ sent' = sent + 1
    /\ work' = [work EXCEPT !.id = sent + 1, !.kind = kind]
    /\ IF process = NoProcess
       THEN outcome' = [status |-> "error", id |-> sent + 1, kind |-> kind,
                        lines |-> <<>>] /\ UNCHANGED at
       ELSE Goto(Worker, "enter") /\ UNCHANGED outcome
    /\ UNCHANGED <<process, started, fasb, buffer, seen>>

Cleared == [buffer EXCEPT ![started] = <<>>]

(* a handle that a stopper has cleared is an AttributeError later on *)
EnterCommand ==
    /\ at[Worker] = "enter"
    /\ work' = [work EXCEPT !.mine = process]
    /\ buffer' = Cleared
    /\ IF process = NoProcess THEN EndWith("error", <<>>)
                              ELSE Goto(Worker, "write") /\ UNCHANGED outcome
    /\ UNCHANGED <<process, started, fasb, sent, seen>>

(* the command and the marker; a dead process breaks the pipe *)
Write ==
    /\ at[Worker] = "write"
    /\ IF fasb[work.mine].alive
       THEN /\ fasb' = [fasb EXCEPT ![work.mine].stdin =
                 @ \o <<[id |-> work.id, kind |-> work.kind],
                        [id |-> work.id, kind |-> "count"]>>]
            /\ work' = [work EXCEPT !.late = FALSE]
            /\ Goto(Worker, "look")
       ELSE StopThen("idle", "error") /\ UNCHANGED fasb
    /\ UNCHANGED <<process, started, buffer, sent, seen, outcome>>

Complete == NumbersIn(buffer[started]) >= ExpectedNumbers(work.kind)

Look ==
    /\ at[Worker] = "look"
    /\ IF Complete THEN EndWith("ok", BeforeMarker(buffer[started]))
                   ELSE Goto(Worker, "same") /\ UNCHANGED outcome
    /\ UNCHANGED <<process, started, fasb, buffer, sent, seen, work>>

CheckSame ==
    /\ at[Worker] = "same"
    /\ IF process # work.mine THEN EndWith("error", <<>>)
                              ELSE Goto(Worker, "poll") /\ UNCHANGED outcome
    /\ UNCHANGED <<process, started, fasb, buffer, sent, seen, work>>

Poll ==
    /\ at[Worker] = "poll"
    /\ IF fasb[work.mine].alive THEN Goto(Worker, "clock") /\ UNCHANGED work
                                ELSE StopThen("idle", "error")
    /\ UNCHANGED <<process, started, fasb, buffer, sent, seen, outcome>>

RestartsClock ==
    /\ at[Worker] = "clock"
    /\ work' = [work EXCEPT !.late = FALSE]
    /\ Goto(Worker, "look")
    /\ UNCHANGED <<process, started, fasb, buffer, sent, seen, outcome>>

StillTime ==
    /\ at[Worker] = "clock"
    /\ ~ work.late
    /\ Goto(Worker, "look")
    /\ UNCHANGED <<process, started, fasb, buffer, sent, seen, work, outcome>>

Unconverted == "timeout"
GivenUp == IF process = NoProcess THEN "error" ELSE "capacity"

(* TimeoutError; terminating a cleared handle is an AttributeError *)
GiveUp ==
    /\ at[Worker] = "clock"
    /\ work.late
    /\ Terminate(process)
    /\ process' = NoProcess
    /\ EndWith(GivenUp, <<>>)
    /\ UNCHANGED <<started, buffer, sent, seen, work>>

Waits == at[Worker] \in {"look", "same", "poll", "clock", "ready"}

DeadlinePasses ==
    /\ Waits /\ ~ work.late
    /\ work' = [work EXCEPT !.late = TRUE]
    /\ UNCHANGED <<process, started, fasb, buffer, sent, at, seen, outcome>>

-----------------------------------------------------------------------------
(* FASB and the reader threads *)

Boot(g) ==
    /\ fasb[g].alive /\ ~ fasb[g].ready
    /\ fasb' = [fasb EXCEPT ![g].ready = TRUE, ![g].stdout = Append(@, Banner)]
    /\ UNCHANGED <<process, started, buffer, sent, at, seen, work, outcome>>

Serve(g) ==
    /\ fasb[g].alive /\ fasb[g].ready /\ fasb[g].stdin # <<>>
    /\ fasb' = [fasb EXCEPT ![g].stdin = Tail(@),
                            ![g].stdout = @ \o Output(Head(fasb[g].stdin)),
                            ![g].loaded = @ \cup Effect(Head(fasb[g].stdin))]
    /\ UNCHANGED <<process, started, buffer, sent, at, seen, work, outcome>>

Die(g) ==
    /\ "die" \in Faults
    /\ fasb[g].alive
    /\ Terminate(g)
    /\ UNCHANGED <<process, started, buffer, sent, at, seen, work, outcome>>

(* _read_stdout got the buffer of its own process as an argument *)
SharedBuffer(g) == started
BufferOf(g) == g

ReadLine(g) ==
    /\ fasb[g].stdout # <<>>
    /\ fasb' = [fasb EXCEPT ![g].stdout = Tail(@)]
    /\ buffer' = [buffer EXCEPT ![BufferOf(g)] = Append(@, Head(fasb[g].stdout))]
    /\ UNCHANGED <<process, started, sent, at, seen, work, outcome>>

-----------------------------------------------------------------------------

Stop(a) == StopRead(a) \/ StopClear(a) \/ StopKill(a)

Command == \/ EnterCommand \/ Write \/ Look \/ CheckSame \/ Poll
           \/ StillTime \/ GiveUp

Restarting == Spawn \/ SeesBanner \/ NotReady

Next ==
    \/ \E a \in Actors : Stop(a)
    \/ Restart \/ RestartFails \/ Restarting
    \/ \E kind \in Kinds : Begin(kind)
    \/ Command
    \/ DeadlinePasses
    \/ \E g \in Processes : Boot(g) \/ Serve(g) \/ Die(g) \/ ReadLine(g)

Spec == Init /\ [][Next]_vars

(* The threads run and time passes.  FASB owes nothing: it may hang.       *)
FairSpec ==
    /\ Spec
    /\ \A a \in Actors : WF_vars(Stop(a))
    /\ WF_vars(Command) /\ WF_vars(Restarting) /\ WF_vars(DeadlinePasses)

-----------------------------------------------------------------------------
(* Properties *)

(* A successful command returns what FASB printed for this command, all of *)
(* it and nothing else, whatever an earlier command, an interrupted one or *)
(* an earlier process still had to say (the numeric framing of             *)
(* send_command, and _read_stdout's buffer of its own).                    *)
AnswerBelongs ==
    (at[Worker] = "idle" /\ outcome.status = "ok" /\ outcome.id # 0)
      => outcome.lines = Output([id |-> outcome.id, kind |-> outcome.kind])

(* nobody can stop a running FASB: it is not self.process, and nobody in   *)
(* _stop_current_process is about to terminate it                          *)
Stray(g) == /\ fasb[g].alive /\ process # g
            /\ \A a \in Actors : seen[a] # g

(* No restart, failure, interruption or deadline of the worker loses a     *)
(* process; only a stopper does, which clears self.process after the       *)
(* worker has put another process there.                                   *)
WorkerKeepsProcess ==
    [][\A g \in Processes :
         (Stray(g))' /\ ~ Stray(g) =>
           \E s \in Stoppers : at[s] = "clear" /\ at'[s] = "kill"]_vars

(* When a command that changes the selections returns, FASB has executed   *)
(* it: the session may count on it for every later answer (the marker that *)
(* send_command waits for although + and - print nothing).                 *)
AcknowledgedIsLoaded ==
    (at[Worker] = "idle" /\ outcome.status = "ok" /\ outcome.kind = "change")
      => \E g \in Processes : outcome.id \in fasb[g].loaded

(* Every call of the worker returns although FASB may hang for ever, and   *)
(* so does every stop_fasb.                                                *)
CallsEnd ==
    /\ []<>(at[Worker] = "idle")
    /\ \A s \in Stoppers : (at[s] = "clear") ~> (at[s] = "done")
=============================================================================
