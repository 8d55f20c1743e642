------------------------- MODULE FasbServiceProofs -------------------------
(***************************************************************************)
(* Safety of PlanpilotService for any stoppers and any bounds: the worker  *)
(* loses no process, and the answer of a command is its own.               *)
(***************************************************************************)
EXTENDS FasbService, FiniteSetTheorems, SequenceTheorems, TLAPS

(* where the worker is *)
Waiting == {"look", "same", "poll", "clock"}
OnCommand == {"write"} \cup Waiting
Stopping == {"stop", "clear", "kill"}
Starting == \/ at[Worker] = "spawn"
            \/ at[Worker] \in Stopping /\ work.next = "spawn"

(* self.process is the newest process or nothing, and _stop_current_process *)
(* of the worker holds or has cleared it.                                   *)
Handle ==
    /\ process \in {NoProcess, started}
    /\ \A a \in Actors : at[a] \notin {"clear", "kill"} => seen[a] = NoProcess
    /\ \A a \in Actors : seen[a] <= started
    /\ at[Worker] = "clear" => process \in {seen[Worker], NoProcess}
    /\ at[Worker] \in {"kill", "spawn"} => process = NoProcess

Locals ==
    /\ at[Worker] \in Stopping /\ work.next = "idle" => work.status # "ok"
    /\ Starting => started < MaxProcesses
    /\ Starting \/ at[Worker] = "ready" => work.id = 0 /\ work.kind = "text"
    /\ at[Worker] \in {"ready", "enter"} \cup OnCommand => started > 0
    /\ at[Worker] \in {"enter"} \cup OnCommand => work.id > 0
    /\ at[Worker] \in OnCommand => work.mine = started

HandleInv == TypeOK /\ Handle /\ Locals

(* The pipes of the newest process, from its banner to the marker of the   *)
(* command: a command begins with all of them empty.                       *)
Stdin == fasb[started].stdin
Stdout == fasb[started].stdout
Read == buffer[started]

Asked == [id |-> work.id, kind |-> work.kind]
Marker == [id |-> work.id, kind |-> "count"]
Number == [id |-> work.id, kind |-> "number"]
Answer == Output(Asked)

Booting ==
    /\ Stdin = <<>>
    /\ \/ ~ fasb[started].ready /\ Stdout = <<>> /\ Read = <<>>
       \/ fasb[started].ready /\ Stdout = <<Banner>> /\ Read = <<>>
       \/ fasb[started].ready /\ Stdout = <<>> /\ Read = <<Banner>>

Quiet == fasb[started].ready /\ Stdin = <<>> /\ Stdout = <<>>

Unanswered == Stdin = <<Asked, Marker>> /\ Stdout = <<>> /\ Read = <<>>
Answered ==
    /\ Stdin = <<Marker>>
    /\ \/ Stdout = Answer /\ Read = <<>>
       \/ Stdout = <<>> /\ Read = Answer
Marked ==
    /\ Stdin = <<>>
    /\ \/ Stdout = Append(Answer, Number) /\ Read = <<>>
       \/ Stdout = <<Number>> /\ Read = Answer
       \/ Stdout = <<>> /\ Read = Append(Answer, Number)
Executed == Effect(Asked) \subseteq fasb[started].loaded

UnderWay == /\ fasb[started].ready
            /\ \/ Unanswered
               \/ Answered /\ Executed
               \/ Marked /\ Executed

Pipes ==
    /\ \A g \in Processes : g > started => fasb[g] = NotStarted /\ buffer[g] = <<>>
    /\ at[Worker] = "ready" => Booting
    /\ at[Worker] \in {"idle", "enter"} /\ process # NoProcess => Quiet
    /\ at[Worker] = "write" => Quiet /\ Read = <<>>
    /\ at[Worker] \in Waiting => UnderWay

(* what a successful call has left *)
Outcomes ==
    outcome.status = "ok" =>
        /\ outcome.id = 0 => outcome.kind = "text"
        /\ outcome.id # 0 =>
             outcome.lines = Output([id |-> outcome.id, kind |-> outcome.kind])
        /\ outcome.kind = "change" =>
             \E g \in Processes : outcome.id \in fasb[g].loaded

FasbInv == HandleInv /\ Pipes /\ Outcomes

-----------------------------------------------------------------------------
(* The framing: counting numbers finds the marker, and nothing before it. *)
LEMMA NoNumberInNothing == NumbersIn(<<>>) = 0
<1>1. {i \in DOMAIN <<>> : IsNumber(<<>>[i])} = {}
  OBVIOUS
<1> QED
  BY <1>1, FS_EmptySet DEF NumbersIn

LEMMA NumbersInOne ==
    ASSUME NEW line
    PROVE  NumbersIn(<<line>>) = IF IsNumber(line) THEN 1 ELSE 0
<1>1. CASE IsNumber(line)
  <2>1. {i \in DOMAIN <<line>> : IsNumber(<<line>>[i])} = {1}
    BY <1>1
  <2> QED
    BY <1>1, <2>1, FS_Singleton DEF NumbersIn
<1>2. CASE ~ IsNumber(line)
  <2>1. {i \in DOMAIN <<line>> : IsNumber(<<line>>[i])} = {}
    BY <1>2
  <2> QED
    BY <1>2, <2>1, FS_EmptySet DEF NumbersIn
<1> QED
  BY <1>1, <1>2

LEMMA ShortSequences ==
    ASSUME NEW x \in Lines, NEW y \in Lines
    PROVE  /\ Append(<<>>, x) = <<x>> /\ Head(<<x>>) = x /\ Tail(<<x>>) = <<>>
           /\ Append(<<x>>, y) = <<x, y>>
           /\ Head(<<x, y>>) = x /\ Tail(<<x, y>>) = <<y>>
<1>1. Append(<<>>, x) = <<x>>
  OBVIOUS
<1>5. Append(<<x>>, y) = <<x, y>>
  <2> DEFINE s == Append(<<x>>, y)
             t == <<x, y>>
  <2>1. <<x>> \in Seq(Lines)
    OBVIOUS
  <2>2. s \in Seq(Lines) /\ Len(s) = 2 /\ s[1] = x /\ s[2] = y
    BY <2>1
  <2>3. t \in Seq(Lines) /\ Len(t) = 2 /\ t[1] = x /\ t[2] = y
    OBVIOUS
  <2> HIDE DEF s, t
  <2>4. \A i \in 1..Len(s) : s[i] = t[i]
    BY <2>2, <2>3
  <2>5. s = t
    BY <2>2, <2>3, <2>4, SeqEqual
  <2> QED
    BY <2>5 DEF s, t
<1>2. Head(<<x>>) = x /\ Head(<<x, y>>) = x
  OBVIOUS
<1>3. Tail(<<x>>) = <<>>
  OBVIOUS
<1>4. Tail(<<x, y>>) = <<y>>
  OBVIOUS
<1> QED
  BY <1>1, <1>2, <1>3, <1>4, <1>5

LEMMA MarkerIsLast ==
    ASSUME NEW lines \in Seq(Lines), NEW line \in Lines, IsNumber(line)
    PROVE  BeforeMarker(Append(lines, line)) = lines
<1> DEFINE all == Append(lines, line)
           I == {i \in 1..Len(all) : IsNumber(all[i])}
<1>1. all \in Seq(Lines) /\ Len(all) = Len(lines) + 1 /\ all[Len(all)] = line
  OBVIOUS
<1>2. Len(all) \in I /\ \A i \in I : Len(all) >= i
  BY <1>1
<1>3. \A x \in I : (\A y \in I : x >= y) => x = Len(all)
  BY <1>1, <1>2
<1>4. Max(I) = Len(all)
  BY <1>2, <1>3 DEF Max
<1>5. SelectLastInSeq(all, IsNumber) = Len(all)
  <2>1. SelectLastInSeq(all, IsNumber) = IF I # {} THEN Max(I) ELSE 0
    BY Zenon DEF SelectLastInSeq
  <2> QED
    BY <1>2, <1>4, <2>1
<1>6. SubSeq(all, 1, Len(lines)) = lines
  BY <1>1
<1> QED
  BY <1>1, <1>5, <1>6 DEF BeforeMarker

LEMMA Framing ==
    ASSUME NEW id \in 1..MaxCommands, NEW kind \in Kinds
    PROVE  LET answer == Output([id |-> id, kind |-> kind])
               number == [id |-> id, kind |-> "number"]
           IN  /\ answer \in Seq(Lines) /\ number \in Lines
               /\ NumbersIn(<<>>) < ExpectedNumbers(kind)
               /\ NumbersIn(answer) \in Nat
               /\ NumbersIn(answer) < ExpectedNumbers(kind)
               /\ BeforeMarker(Append(answer, number)) = answer
<1> DEFINE answer == Output([id |-> id, kind |-> kind])
           number == [id |-> id, kind |-> "number"]
<1>1. answer \in Seq(Lines) /\ number \in Lines
  <2>1. number \in Lines /\ [id |-> id, kind |-> "text"] \in Lines
    BY DEF Lines
  <2>2. answer \in {<<>>, <<number>>, <<[id |-> id, kind |-> "text"]>>}
    BY DEF Output
  <2>3. \A line \in Lines : <<line>> \in Seq(Lines)
    OBVIOUS
  <2>4. <<>> \in Seq(Lines)
    OBVIOUS
  <2> QED
    BY <2>1, <2>2, <2>3, <2>4, Zenon
<1>2. NumbersIn(<<>>) < ExpectedNumbers(kind)
  BY NoNumberInNothing DEF ExpectedNumbers
<1>3. NumbersIn(answer) \in Nat /\ NumbersIn(answer) < ExpectedNumbers(kind)
  <2>1. CASE kind = "change"
    BY <2>1, NoNumberInNothing DEF Output, ExpectedNumbers
  <2>2. CASE kind = "count"
    BY <2>2, NumbersInOne DEF Output, ExpectedNumbers, IsNumber
  <2>3. CASE kind = "text"
    <3>1. NumbersIn(answer) = 0
      BY <2>3, NumbersInOne DEF Output, IsNumber
    <3> QED
      BY <2>3, <3>1 DEF ExpectedNumbers
  <2> QED
    BY <2>1, <2>2, <2>3 DEF Kinds
<1>4. BeforeMarker(Append(answer, number)) = answer
  BY <1>1, MarkerIsLast DEF IsNumber
<1> QED
  BY <1>1, <1>2, <1>3, <1>4

-----------------------------------------------------------------------------
(* Types of the processes. *)
Process == [alive : BOOLEAN, ready : BOOLEAN, stdin : Seq(Requests),
            stdout : Seq(Lines), loaded : SUBSET (1..MaxCommands)]

LEMMA Actor == Worker \in Actors /\ NoProcess \notin Processes
BY DEF Actors, NoProcess, Processes

(* What a step does to the process g, and leaves of the others. *)
Alters(g, alive, ready, stdin, stdout, loaded) ==
    /\ fasb' \in [Processes -> Process]
    /\ \A h \in Processes \ {g} : fasb'[h] = fasb[h]
    /\ fasb'[g].alive = alive /\ fasb'[g].ready = ready
    /\ fasb'[g].stdin = stdin /\ fasb'[g].stdout = stdout
    /\ fasb'[g].loaded = loaded

LEMMA RecordAlters ==
    ASSUME TypeOK, NEW g \in Processes, NEW p \in Process,
           fasb' = [fasb EXCEPT ![g] = p]
    PROVE  Alters(g, p.alive, p.ready, p.stdin, p.stdout, p.loaded)
BY DEF TypeOK, Process, Alters

LEMMA TerminateAlters ==
    ASSUME TypeOK, NEW g \in Processes, Terminate(g)
    PROVE  Alters(g, FALSE, fasb[g].ready, fasb[g].stdin, fasb[g].stdout,
                  fasb[g].loaded)
<1> DEFINE p == [fasb[g] EXCEPT !.alive = FALSE]
<1>1. fasb[g] \in Process
  BY DEF TypeOK, Process
<1>2. fasb' = [fasb EXCEPT ![g] = p]
  BY <1>1, Actor DEF Terminate, Terminated, TypeOK
<1>3. p \in Process
  BY <1>1 DEF Process
<1> QED
  BY <1>1, <1>2, <1>3, RecordAlters DEF Process

LEMMA SpawnAlters ==
    ASSUME TypeOK, NEW g \in Processes, fasb' = [fasb EXCEPT ![g].alive = TRUE]
    PROVE  Alters(g, TRUE, fasb[g].ready, fasb[g].stdin, fasb[g].stdout,
                  fasb[g].loaded)
<1> DEFINE p == [fasb[g] EXCEPT !.alive = TRUE]
<1>1. fasb[g] \in Process
  BY DEF TypeOK, Process
<1>2. fasb' = [fasb EXCEPT ![g] = p]
  BY <1>1 DEF TypeOK
<1>3. p \in Process
  BY <1>1 DEF Process
<1> QED
  BY <1>1, <1>2, <1>3, RecordAlters DEF Process

LEMMA WriteAlters ==
    ASSUME TypeOK, NEW g \in Processes, NEW a \in Requests, NEW b \in Requests,
           fasb' = [fasb EXCEPT ![g].stdin = @ \o <<a, b>>]
    PROVE  Alters(g, fasb[g].alive, fasb[g].ready, fasb[g].stdin \o <<a, b>>,
                  fasb[g].stdout, fasb[g].loaded)
<1> DEFINE p == [fasb[g] EXCEPT !.stdin = fasb[g].stdin \o <<a, b>>]
<1>1. fasb[g] \in Process
  BY DEF TypeOK, Process
<1>2. fasb' = [fasb EXCEPT ![g] = p]
  BY <1>1 DEF TypeOK
<1>3. fasb[g].stdin \o <<a, b>> \in Seq(Requests)
  <2>1. fasb[g].stdin \in Seq(Requests) /\ <<a, b>> \in Seq(Requests)
    BY <1>1 DEF Process
  <2> QED
    BY <2>1
<1>4. p \in Process
  BY <1>1, <1>3 DEF Process
<1> QED
  BY <1>1, <1>2, <1>4, RecordAlters DEF Process

LEMMA BootAlters ==
    ASSUME TypeOK, NEW g \in Processes, Boot(g)
    PROVE  Alters(g, fasb[g].alive, TRUE, fasb[g].stdin,
                  Append(fasb[g].stdout, Banner), fasb[g].loaded)
<1> DEFINE p == [fasb[g] EXCEPT !.ready = TRUE, !.stdout = Append(fasb[g].stdout, Banner)]
<1>1. fasb[g] \in Process
  BY DEF TypeOK, Process
<1>2. fasb' = [fasb EXCEPT ![g] = p]
  BY <1>1 DEF TypeOK, Boot
<1>3. Append(fasb[g].stdout, Banner) \in Seq(Lines)
  BY <1>1, FasbAssumption DEF Process, Banner, Lines
<1>4. p \in Process
  BY <1>1, <1>3 DEF Process
<1> QED
  BY <1>1, <1>2, <1>4, RecordAlters DEF Process

LEMMA ServeAlters ==
    ASSUME TypeOK, NEW g \in Processes, Serve(g)
    PROVE  Alters(g, fasb[g].alive, fasb[g].ready, Tail(fasb[g].stdin),
                  fasb[g].stdout \o Output(Head(fasb[g].stdin)),
                  fasb[g].loaded \cup Effect(Head(fasb[g].stdin)))
<1> DEFINE q == Head(fasb[g].stdin)
           p == [fasb[g] EXCEPT !.stdin = Tail(fasb[g].stdin),
                                !.stdout = fasb[g].stdout \o Output(q),
                                !.loaded = fasb[g].loaded \cup Effect(q)]
<1>1. fasb[g] \in Process
  BY DEF TypeOK, Process
<1>2. fasb' = [fasb EXCEPT ![g] = p]
  BY <1>1 DEF TypeOK, Serve
<1>3. q \in Requests /\ Tail(fasb[g].stdin) \in Seq(Requests)
  BY <1>1 DEF Process, Serve
<1>4. Output(q) \in Seq(Lines) /\ Effect(q) \subseteq 1..MaxCommands
  <2>1. q.id \in 1..MaxCommands /\ q.kind \in Kinds
    BY <1>3 DEF Requests
  <2>2. q = [id |-> q.id, kind |-> q.kind]
    BY <1>3 DEF Requests
  <2>3. Output(q) \in Seq(Lines)
    BY <2>1, <2>2, Framing
  <2> QED
    BY <2>1, <2>3 DEF Effect
<1>5. fasb[g].stdout \o Output(q) \in Seq(Lines)
  BY <1>1, <1>4 DEF Process
<1>6. p \in Process
  BY <1>1, <1>3, <1>4, <1>5 DEF Process
<1> QED
  BY <1>1, <1>2, <1>6, RecordAlters DEF Process

LEMMA ReadAlters ==
    ASSUME TypeOK, NEW g \in Processes, ReadLine(g)
    PROVE  /\ Alters(g, fasb[g].alive, fasb[g].ready, fasb[g].stdin,
                     Tail(fasb[g].stdout), fasb[g].loaded)
           /\ buffer' = [buffer EXCEPT ![g] = Append(buffer[g], Head(fasb[g].stdout))]
           /\ buffer' \in [Processes -> Seq(Lines)]
<1> DEFINE p == [fasb[g] EXCEPT !.stdout = Tail(fasb[g].stdout)]
<1>1. fasb[g] \in Process
  BY DEF TypeOK, Process
<1>2. fasb' = [fasb EXCEPT ![g] = p]
  BY <1>1 DEF TypeOK, ReadLine
<1>3. Tail(fasb[g].stdout) \in Seq(Lines) /\ Head(fasb[g].stdout) \in Lines
  BY <1>1 DEF Process, ReadLine
<1>4. p \in Process
  BY <1>1, <1>3 DEF Process
<1>5. buffer' = [buffer EXCEPT ![g] = Append(buffer[g], Head(fasb[g].stdout))]
  BY DEF TypeOK, ReadLine, BufferOf
<1>6. buffer' \in [Processes -> Seq(Lines)]
  BY <1>3, <1>5 DEF TypeOK
<1>7. Alters(g, p.alive, p.ready, p.stdin, p.stdout, p.loaded)
  BY <1>2, <1>4, RecordAlters
<1> QED
  BY <1>1, <1>5, <1>6, <1>7 DEF Process

(* Steps that leave the pipes of the newest process as they are. *)
KeepsPipes ==
    /\ started' = started
    /\ \A h \in Processes : h > started => fasb'[h] = fasb[h] /\ buffer'[h] = buffer[h]
    /\ started \in Processes =>
         /\ fasb'[started].ready = fasb[started].ready
         /\ fasb'[started].stdin = fasb[started].stdin
         /\ fasb'[started].stdout = fasb[started].stdout
         /\ fasb[started].loaded \subseteq fasb'[started].loaded
         /\ buffer'[started] = buffer[started]

(* What the worker may still count on after such a step. *)
NoNews ==
    /\ at'[Worker] = "ready" => at[Worker] = "ready"
    /\ at'[Worker] \in {"idle", "enter"} /\ process' # NoProcess =>
         \/ at[Worker] \in {"idle", "enter"} /\ process # NoProcess
         \/ started > 0 /\ Quiet
    /\ at'[Worker] = "write" => at[Worker] = "write"
    /\ at'[Worker] \in Waiting => /\ at[Worker] \in Waiting
                                  /\ work'.id = work.id /\ work'.kind = work.kind

LEMMA PipesKept ==
    ASSUME TypeOK, Handle, Locals, Pipes, KeepsPipes, NoNews
    PROVE  Pipes'
<1>1. started > 0 => started \in Processes
  BY DEF TypeOK, Processes
<1>2. at'[Worker] = "ready" => Booting'
  BY <1>1 DEF KeepsPipes, NoNews, Pipes, Locals, Booting, Stdin, Stdout, Read
<1>3. at'[Worker] \in {"idle", "enter"} /\ process' # NoProcess => Quiet'
  BY <1>1 DEF KeepsPipes, NoNews, Pipes, Handle, Quiet, Stdin, Stdout, TypeOK, NoProcess
<1>4. at'[Worker] = "write" => Quiet' /\ Read' = <<>>
  BY <1>1 DEF KeepsPipes, NoNews, Pipes, Locals, OnCommand, Quiet, Stdin, Stdout, Read
<1>5. at'[Worker] \in Waiting => UnderWay'
  <2> SUFFICES ASSUME at'[Worker] \in Waiting
               PROVE  UnderWay'
    OBVIOUS
  <2>1. UnderWay /\ started \in Processes
    BY <1>1 DEF NoNews, Pipes, Locals, OnCommand
  <2>2. Asked' = Asked /\ Marker' = Marker /\ Number' = Number /\ Answer' = Answer
    BY DEF NoNews, Asked, Marker, Number, Answer
  <2>3. Stdin' = Stdin /\ Stdout' = Stdout /\ Read' = Read
    BY <2>1 DEF KeepsPipes, Stdin, Stdout, Read
  <2>4. (Unanswered => Unanswered') /\ (Answered => Answered') /\ (Marked => Marked')
    BY <2>2, <2>3 DEF Unanswered, Answered, Marked
  <2>5. Executed => Executed'
    BY <2>1, <2>2 DEF KeepsPipes, Executed
  <2> QED
    BY <2>1, <2>4, <2>5 DEF KeepsPipes, UnderWay
<1> QED
  BY <1>2, <1>3, <1>4, <1>5 DEF KeepsPipes, Pipes

LoadedGrows == \A g \in Processes : fasb[g].loaded \subseteq fasb'[g].loaded

LEMMA OutcomesKept ==
    ASSUME Outcomes, LoadedGrows, outcome' = outcome \/ outcome'.status # "ok"
    PROVE  Outcomes'
BY DEF Outcomes, LoadedGrows

(* Where a step takes an actor, and how the worker's calls end or go on. *)
GoesTo(a, place) ==
    /\ at' \in [Actors -> Places]
    /\ at'[a] = place
    /\ \A b \in Actors \ {a} : at'[b] = at[b]

LEMMA Goes ==
    ASSUME TypeOK, NEW a \in Actors, NEW place \in Places, Goto(a, place)
    PROVE  GoesTo(a, place)
BY DEF TypeOK, Goto, GoesTo

Outcome == [status : Statuses, id : 0..MaxCommands, kind : Kinds,
            lines : Seq(Lines)]

LEMMA Ends ==
    ASSUME TypeOK, NEW status \in Statuses, NEW lines \in Seq(Lines),
           EndWith(status, lines)
    PROVE  /\ GoesTo(Worker, "idle")
           /\ outcome' \in Outcome
           /\ outcome'.status = status /\ outcome'.lines = lines
           /\ outcome'.id = work.id /\ outcome'.kind = work.kind
<1>1. GoesTo(Worker, "idle")
  BY Goes, Actor DEF EndWith, Places
<1>2. work.id \in 0..MaxCommands /\ work.kind \in Kinds
  BY DEF TypeOK, Work
<1> QED
  BY <1>1, <1>2 DEF EndWith, Outcome

LEMMA Stops ==
    ASSUME TypeOK, NEW next \in {"idle", "spawn"}, NEW status \in Statuses,
           StopThen(next, status)
    PROVE  /\ GoesTo(Worker, "stop")
           /\ work' \in Work
           /\ work'.next = next /\ work'.status = status
           /\ work'.id = work.id /\ work'.kind = work.kind
<1>1. GoesTo(Worker, "stop")
  BY Goes, Actor DEF StopThen, Places
<1>2. work \in Work
  BY DEF TypeOK
<1> QED
  BY <1>1, <1>2 DEF StopThen, Work

-----------------------------------------------------------------------------
(* _stop_current_process, of the worker and of the stoppers. *)
LEMMA StopKept ==
    ASSUME FasbInv, NEW a \in Actors, Stop(a)
    PROVE  FasbInv'
<1>0. /\ TypeOK /\ Handle /\ Locals /\ Pipes /\ Outcomes
      /\ Worker \in Actors /\ NoProcess \notin Processes
      /\ MaxProcesses \in Nat /\ MaxCommands \in Nat
      /\ started \in Nat /\ sent \in 0..MaxCommands /\ work \in Work /\ outcome \in Outcome
      /\ <<>> \in Seq(Lines) /\ process \in Nat /\ seen \in [Actors -> Nat]
  BY Actor, FasbAssumption DEF FasbInv, HandleInv, TypeOK, Outcome
<1>1. CASE StopRead(a)
  <2>1. GoesTo(a, "clear")
    BY <1>0, <1>1, Goes DEF StopRead, Places
  <2>2. TypeOK'
    BY <1>0, <1>1, <2>1 DEF StopRead, GoesTo, TypeOK, Outcome
  <2>3. Handle'
    BY <1>0, <1>1, <2>1 DEF StopRead, GoesTo, Handle, Locals, Waiting,
       OnCommand, Stopping, Starting, NoProcess
  <2>4. Locals'
    BY <1>0, <1>1, <2>1 DEF StopRead, GoesTo, Handle, Locals, Waiting,
       OnCommand, Stopping, Starting, NoProcess
  <2>5. KeepsPipes
    BY <1>0, <1>1, <2>1 DEF StopRead, KeepsPipes, Handle
  <2>6. NoNews
    BY <1>0, <1>1, <2>1 DEF StopRead, GoesTo, NoNews, Handle, Waiting,
       NoProcess
  <2>7. LoadedGrows /\ (outcome' = outcome \/ outcome'.status # "ok")
    BY <1>0, <1>1, <2>1 DEF StopRead, LoadedGrows, Locals, Stopping
  <2> QED
    BY <1>0, <2>2, <2>3, <2>4, <2>5, <2>6, <2>7, PipesKept, OutcomesKept DEF
       FasbInv, HandleInv
<1>2. CASE StopClear(a)
  <2>1. GoesTo(a, "kill")
    BY <1>0, <1>2, Goes DEF StopClear, Places
  <2>2. TypeOK'
    BY <1>0, <1>2, <2>1 DEF StopClear, GoesTo, TypeOK, Outcome, NoProcess
  <2>3. Handle'
    BY <1>0, <1>2, <2>1 DEF StopClear, GoesTo, Handle, Locals, Waiting,
       OnCommand, Stopping, Starting, NoProcess
  <2>4. Locals'
    BY <1>0, <1>2, <2>1 DEF StopClear, GoesTo, Handle, Locals, Waiting,
       OnCommand, Stopping, Starting, NoProcess
  <2>5. KeepsPipes
    BY <1>0, <1>2, <2>1 DEF StopClear, KeepsPipes, Handle
  <2>6. NoNews
    BY <1>0, <1>2, <2>1 DEF StopClear, GoesTo, NoNews, Handle, Waiting,
       NoProcess
  <2>7. LoadedGrows /\ (outcome' = outcome \/ outcome'.status # "ok")
    BY <1>0, <1>2, <2>1 DEF StopClear, LoadedGrows, Locals, Stopping
  <2> QED
    BY <1>0, <2>2, <2>3, <2>4, <2>5, <2>6, <2>7, PipesKept, OutcomesKept DEF
       FasbInv, HandleInv
<1>3. CASE StopKill(a)
  <2>1. /\ outcome' \in Outcome
        /\ outcome' = outcome \/ outcome'.status # "ok"
        /\ GoesTo(a, IF a # Worker THEN "done"
                     ELSE IF work.next = "spawn" THEN "spawn" ELSE "idle")
    <3>1. CASE a # Worker \/ work.next = "spawn"
      BY <1>0, <1>3, <3>1, Goes DEF StopKill, Places
    <3>2. CASE a = Worker /\ work.next # "spawn"
      <4>1. /\ EndWith(work.status, <<>>)
            /\ work.status \in Statuses /\ work.status # "ok"
        BY <1>0, <1>3, <3>2 DEF StopKill, Work, Locals, Stopping
      <4> QED
        BY <1>0, <3>2, <4>1, Ends
    <3> QED
      BY <3>1, <3>2
  <2>2. UNCHANGED <<process, started, buffer, sent, work>>
    BY <1>3 DEF StopKill
  <2>3. at[a] = "kill" /\ seen' = [seen EXCEPT ![a] = NoProcess]
    BY <1>3 DEF StopKill
  <2>4. CASE seen[a] = NoProcess
    <3>1. UNCHANGED fasb
      BY <1>3, <2>4 DEF StopKill, Terminate, Terminated
    <3>2. TypeOK'
      BY <1>0, <2>1, <2>2, <2>3, <3>1 DEF NoProcess, GoesTo, TypeOK, Outcome
    <3>3. Handle'
      BY <1>0, <2>1, <2>2, <2>3, <3>1 DEF NoProcess, GoesTo, Handle, Locals,
         Waiting, OnCommand, Stopping, Starting
    <3>4. Locals'
      BY <1>0, <2>1, <2>2, <2>3, <3>1 DEF NoProcess, GoesTo, Handle, Locals,
         Waiting, OnCommand, Stopping, Starting
    <3>5. KeepsPipes
      BY <1>0, <2>1, <2>2, <2>3, <3>1 DEF NoProcess, KeepsPipes, Handle
    <3>6. NoNews
      BY <1>0, <2>1, <2>2, <2>3, <3>1 DEF NoProcess, GoesTo, NoNews, Handle,
         Waiting
    <3>7. LoadedGrows /\ (outcome' = outcome \/ outcome'.status # "ok")
      BY <1>0, <2>1, <2>2, <2>3, <3>1 DEF NoProcess, LoadedGrows, Locals,
         Stopping
    <3> QED
      BY <1>0, <3>2, <3>3, <3>4, <3>5, <3>6, <3>7, PipesKept, OutcomesKept DEF
         FasbInv, HandleInv
  <2>5. CASE seen[a] # NoProcess
    <3>1. seen[a] \in Processes
      BY <1>0, <2>5 DEF TypeOK, Processes, NoProcess
    <3>2. Alters(seen[a], FALSE, fasb[seen[a]].ready, fasb[seen[a]].stdin,
                 fasb[seen[a]].stdout, fasb[seen[a]].loaded)
      BY <1>0, <1>3, <3>1, TerminateAlters DEF StopKill
    <3>3. TypeOK'
      BY <1>0, <2>1, <2>2, <2>3, <3>1, <3>2 DEF NoProcess, Alters, GoesTo,
         TypeOK, Outcome, Process
    <3>4. Handle'
      BY <1>0, <2>1, <2>2, <2>3, <3>1, <3>2 DEF NoProcess, Alters, GoesTo,
         Handle, Locals, Waiting, OnCommand, Stopping, Starting
    <3>5. Locals'
      BY <1>0, <2>1, <2>2, <2>3, <3>1, <3>2 DEF NoProcess, Alters, GoesTo,
         Handle, Locals, Waiting, OnCommand, Stopping, Starting
    <3>6. KeepsPipes
      BY <1>0, <2>1, <2>2, <2>3, <3>1, <3>2 DEF NoProcess, Alters, KeepsPipes,
         Handle
    <3>7. NoNews
      BY <1>0, <2>1, <2>2, <2>3, <3>1, <3>2 DEF NoProcess, Alters, GoesTo,
         NoNews, Handle, Waiting
    <3>8. LoadedGrows /\ (outcome' = outcome \/ outcome'.status # "ok")
      BY <1>0, <2>1, <2>2, <2>3, <3>1, <3>2 DEF NoProcess, Alters,
         LoadedGrows, Locals, Stopping
    <3> QED
      BY <1>0, <3>3, <3>4, <3>5, <3>6, <3>7, <3>8, PipesKept, OutcomesKept DEF
         FasbInv, HandleInv
  <2> QED
    BY <2>4, <2>5
<1> QED
  BY <1>1, <1>2, <1>3 DEF Stop

-----------------------------------------------------------------------------
(* Starting FASB until its banner or the deadline. *)
LEMMA RestartKept ==
    ASSUME FasbInv, Restart \/ RestartFails \/ Restarting
    PROVE  FasbInv'
<1>0. /\ TypeOK /\ Handle /\ Locals /\ Pipes /\ Outcomes
      /\ Worker \in Actors /\ NoProcess \notin Processes
      /\ MaxProcesses \in Nat /\ MaxCommands \in Nat
      /\ started \in Nat /\ sent \in 0..MaxCommands /\ work \in Work /\ outcome \in Outcome
      /\ <<>> \in Seq(Lines) /\ process \in Nat /\ seen \in [Actors -> Nat]
  BY Actor, FasbAssumption DEF FasbInv, HandleInv, TypeOK, Outcome
<1>1. CASE Restart
  <2>1. GoesTo(Worker, "stop")
    BY <1>0, <1>1, Goes DEF Restart, Places
  <2>2. /\ work' \in Work
        /\ work'.id = 0 /\ work'.kind = "text" /\ work'.next = "spawn"
    <3>1. work' = [work EXCEPT !.id = 0, !.kind = "text", !.next = "spawn"]
      BY <1>1 DEF Restart
    <3>2. 0 \in 0..MaxCommands
      BY <1>0
    <3> QED
      BY <1>0, <3>1, <3>2 DEF Work, Kinds
  <2>3. TypeOK'
    BY <1>0, <1>1, <2>1, <2>2 DEF Restart, GoesTo, TypeOK, Outcome
  <2>4. Handle'
    BY <1>0, <1>1, <2>1, <2>2 DEF Restart, GoesTo, Handle, Locals, Waiting,
       OnCommand, Stopping, Starting, NoProcess
  <2>5. Locals'
    BY <1>0, <1>1, <2>1, <2>2 DEF Restart, GoesTo, Handle, Locals, Waiting,
       OnCommand, Stopping, Starting, NoProcess
  <2>6. KeepsPipes
    BY <1>0, <1>1, <2>1, <2>2 DEF Restart, KeepsPipes, Handle
  <2>7. NoNews
    BY <1>0, <1>1, <2>1, <2>2 DEF Restart, GoesTo, NoNews, Handle, Waiting,
       NoProcess
  <2>8. LoadedGrows /\ (outcome' = outcome \/ outcome'.status # "ok")
    BY <1>0, <1>1, <2>1, <2>2 DEF Restart, LoadedGrows, Locals, Stopping
  <2> QED
    BY <1>0, <2>3, <2>4, <2>5, <2>6, <2>7, <2>8, PipesKept, OutcomesKept DEF
       FasbInv, HandleInv
<1>2. CASE RestartFails
  <2>1. outcome' \in Outcome /\ outcome'.status # "ok"
    BY <1>0, <1>2 DEF RestartFails, Outcome, Statuses, Kinds
  <2>2. at[Worker] = "idle" /\ UNCHANGED <<process, started, fasb, buffer, sent, at, seen, work>>
    BY <1>2 DEF RestartFails
  <2>3. TypeOK'
    BY <1>0, <2>1, <2>2 DEF Waiting, GoesTo, TypeOK, Outcome
  <2>4. Handle'
    BY <1>0, <2>1, <2>2 DEF Waiting, GoesTo, Handle, Locals, OnCommand,
       Stopping, Starting, NoProcess
  <2>5. Locals'
    BY <1>0, <2>1, <2>2 DEF Waiting, GoesTo, Handle, Locals, OnCommand,
       Stopping, Starting, NoProcess
  <2>6. KeepsPipes
    BY <1>0, <2>1, <2>2 DEF Waiting, KeepsPipes, Handle
  <2>7. NoNews
    BY <1>0, <2>1, <2>2 DEF Waiting, GoesTo, NoNews, Handle, NoProcess
  <2>8. LoadedGrows /\ (outcome' = outcome \/ outcome'.status # "ok")
    BY <1>0, <2>1, <2>2 DEF Waiting, LoadedGrows, Locals, Stopping
  <2> QED
    BY <1>0, <2>3, <2>4, <2>5, <2>6, <2>7, <2>8, PipesKept, OutcomesKept DEF
       FasbInv, HandleInv
<1>3. CASE Spawn
  <2>1. started + 1 \in Processes
    BY <1>0, <1>3 DEF Spawn, Locals, Starting, Processes
  <2>2. Alters(started + 1, TRUE, fasb[started + 1].ready, fasb[started + 1].stdin,
               fasb[started + 1].stdout, fasb[started + 1].loaded)
    BY <1>0, <1>3, <2>1, SpawnAlters DEF Spawn
  <2>3. /\ GoesTo(Worker, "ready") /\ work' \in Work
        /\ work'.id = work.id /\ work'.kind = work.kind
    BY <1>0, <1>3, Goes DEF Spawn, Places, Work
  <2>4. Booting'
    <3>1. fasb[started + 1] = NotStarted /\ buffer[started + 1] = <<>>
      BY <1>0, <2>1 DEF Pipes
    <3>2. started' = started + 1 /\ buffer' = buffer
      BY <1>3 DEF Spawn
    <3>3. ~ NotStarted.ready /\ NotStarted.stdin = <<>> /\ NotStarted.stdout = <<>>
      BY DEF NotStarted
    <3> QED
      BY <2>2, <3>1, <3>2, <3>3 DEF Alters, Booting, Stdin, Stdout, Read
  <2>5. /\ at[Worker] = "spawn" /\ started' = started + 1 /\ process' = started + 1
        /\ UNCHANGED <<buffer, sent, seen, outcome>>
    BY <1>3 DEF Spawn
  <2>6. TypeOK'
    <3>1. started + 1 \in 0..MaxProcesses
      BY <1>0, <2>1 DEF Processes
    <3> QED
      BY <1>0, <2>2, <2>3, <2>5, <3>1 DEF Alters, GoesTo, TypeOK, Process
  <2>7. Handle'
    BY <1>0, <2>1, <2>2, <2>3, <2>5 DEF Alters, GoesTo, Handle, Locals,
       Waiting, OnCommand, Stopping, Starting, NoProcess
  <2>8. Locals'
    BY <1>0, <2>1, <2>2, <2>3, <2>5 DEF Alters, GoesTo, Handle, Locals,
       Waiting, OnCommand, Stopping, Starting, NoProcess
  <2>9. Pipes'
    BY <1>0, <2>1, <2>2, <2>3, <2>5, <2>4 DEF Alters, GoesTo, Pipes, Waiting,
       Processes
  <2>10. LoadedGrows /\ (outcome' = outcome \/ outcome'.status # "ok")
    BY <1>0, <2>1, <2>2, <2>3, <2>5 DEF Alters, LoadedGrows, Locals, Stopping
  <2> QED
    BY <1>0, <2>6, <2>7, <2>8, <2>9, <2>10, OutcomesKept DEF FasbInv,
       HandleInv
<1>4. CASE SeesBanner
  <2>1. work.id = 0 /\ work.kind = "text" /\ started \in Processes /\ Booting
    BY <1>0, <1>4 DEF SeesBanner, Locals, Pipes, TypeOK, Processes
  <2>2. /\ GoesTo(Worker, "idle") /\ outcome' \in Outcome
        /\ outcome'.id = 0 /\ outcome'.kind = "text"
    BY <1>0, <1>4, <2>1, Ends DEF SeesBanner, Statuses
  <2>3. started > 0 /\ Quiet
    BY <1>4, <2>1 DEF SeesBanner, Booting, Quiet, Read, Contains, Processes
  <2>4. TypeOK'
    BY <1>0, <1>4, <2>2 DEF SeesBanner, GoesTo, TypeOK, Outcome
  <2>5. Handle'
    BY <1>0, <1>4, <2>2 DEF SeesBanner, GoesTo, Handle, Locals, Waiting,
       OnCommand, Stopping, Starting, NoProcess
  <2>6. Locals'
    BY <1>0, <1>4, <2>2 DEF SeesBanner, GoesTo, Handle, Locals, Waiting,
       OnCommand, Stopping, Starting, NoProcess
  <2>7. KeepsPipes
    BY <1>0, <1>4, <2>2 DEF SeesBanner, KeepsPipes, Handle
  <2>8. NoNews
    BY <1>0, <1>4, <2>2, <2>3 DEF SeesBanner, GoesTo, NoNews, Handle, Waiting,
       NoProcess
  <2>9. Outcomes'
    BY <1>0, <1>4, <2>2 DEF Outcomes
  <2> QED
    BY <1>0, <2>4, <2>5, <2>6, <2>7, <2>8, <2>9, PipesKept DEF FasbInv,
       HandleInv
<1>5. CASE NotReady
  <2>1. /\ GoesTo(Worker, "stop") /\ work' \in Work
        /\ work'.next = "idle" /\ work'.status # "ok"
        /\ work'.id = work.id /\ work'.kind = work.kind
    BY <1>0, <1>5, Stops DEF NotReady, Statuses
  <2>2. TypeOK'
    BY <1>0, <1>5, <2>1 DEF NotReady, GoesTo, TypeOK, Outcome
  <2>3. Handle'
    BY <1>0, <1>5, <2>1 DEF NotReady, GoesTo, Handle, Locals, Waiting,
       OnCommand, Stopping, Starting, NoProcess
  <2>4. Locals'
    BY <1>0, <1>5, <2>1 DEF NotReady, GoesTo, Handle, Locals, Waiting,
       OnCommand, Stopping, Starting, NoProcess
  <2>5. KeepsPipes
    BY <1>0, <1>5, <2>1 DEF NotReady, KeepsPipes, Handle
  <2>6. NoNews
    BY <1>0, <1>5, <2>1 DEF NotReady, GoesTo, NoNews, Handle, Waiting,
       NoProcess
  <2>7. LoadedGrows /\ (outcome' = outcome \/ outcome'.status # "ok")
    BY <1>0, <1>5, <2>1 DEF NotReady, LoadedGrows, Locals, Stopping
  <2> QED
    BY <1>0, <2>2, <2>3, <2>4, <2>5, <2>6, <2>7, PipesKept, OutcomesKept DEF
       FasbInv, HandleInv
<1> QED
  BY <1>1, <1>2, <1>3, <1>4, <1>5 DEF Restarting

-----------------------------------------------------------------------------
(* send_command, from the check of the handle to its return. *)
LEMMA CommandKept ==
    ASSUME FasbInv, (\E kind \in Kinds : Begin(kind)) \/ Command \/ DeadlinePasses
    PROVE  FasbInv'
<1>0. /\ TypeOK /\ Handle /\ Locals /\ Pipes /\ Outcomes
      /\ Worker \in Actors /\ NoProcess \notin Processes
      /\ MaxProcesses \in Nat /\ MaxCommands \in Nat
      /\ started \in Nat /\ sent \in 0..MaxCommands /\ work \in Work /\ outcome \in Outcome
      /\ <<>> \in Seq(Lines) /\ process \in Nat /\ seen \in [Actors -> Nat]
  BY Actor, FasbAssumption DEF FasbInv, HandleInv, TypeOK, Outcome
<1>1. CASE \E kind \in Kinds : Begin(kind)
  <2>1. PICK kind \in Kinds : Begin(kind)
    BY <1>1
  <2>2. /\ at[Worker] = "idle" /\ started > 0
        /\ UNCHANGED <<process, started, fasb, buffer, seen>>
    BY <2>1 DEF Begin
  <2>3. /\ sent < MaxCommands /\ sent' = sent + 1
        /\ work' = [work EXCEPT !.id = sent + 1, !.kind = kind]
        /\ sent + 1 \in 1..MaxCommands
    <3>1. /\ sent < MaxCommands /\ sent' = sent + 1
          /\ work' = [work EXCEPT !.id = sent + 1, !.kind = kind]
      BY <2>1 DEF Begin
    <3>2. sent \in Nat /\ MaxCommands \in Nat
      BY <1>0
    <3> QED
      BY <3>1, <3>2
  <2>4. work' \in Work /\ work'.id > 0
    <3>1. PICK id \in 1..MaxCommands : /\ id = sent + 1
                                       /\ work' = [work EXCEPT !.id = id, !.kind = kind]
      BY <2>3
    <3>2. id \in 0..MaxCommands /\ id > 0
      BY <1>0
    <3> QED
      BY <1>0, <3>1, <3>2 DEF Work
  <2>5. CASE process = NoProcess
    <3>1. /\ outcome' = [status |-> "error", id |-> sent + 1, kind |-> kind,
                         lines |-> <<>>]
          /\ UNCHANGED at
      BY <2>1, <2>5 DEF Begin
    <3>2. outcome' \in Outcome /\ outcome'.status # "ok"
      BY <1>0, <2>3, <3>1 DEF Outcome, Statuses
    <3>3. TypeOK'
      BY <1>0, <2>2, <2>3, <2>4, <2>5, <3>1, <3>2 DEF Waiting, GoesTo, TypeOK,
         Outcome
    <3>4. Handle'
      BY <1>0, <2>2, <2>3, <2>4, <2>5, <3>1, <3>2 DEF Waiting, GoesTo, Handle,
         Locals, OnCommand, Stopping, Starting, NoProcess
    <3>5. Locals'
      BY <1>0, <2>2, <2>3, <2>4, <2>5, <3>1, <3>2 DEF Waiting, GoesTo, Handle,
         Locals, OnCommand, Stopping, Starting, NoProcess
    <3>6. KeepsPipes
      BY <1>0, <2>2, <2>3, <2>4, <2>5, <3>1, <3>2 DEF Waiting, KeepsPipes,
         Handle
    <3>7. NoNews
      BY <1>0, <2>2, <2>3, <2>4, <2>5, <3>1, <3>2 DEF Waiting, GoesTo, NoNews,
         Handle, NoProcess
    <3>8. LoadedGrows /\ (outcome' = outcome \/ outcome'.status # "ok")
      BY <1>0, <2>2, <2>3, <2>4, <2>5, <3>1, <3>2 DEF Waiting, LoadedGrows,
         Locals, Stopping
    <3> QED
      BY <1>0, <3>3, <3>4, <3>5, <3>6, <3>7, <3>8, PipesKept, OutcomesKept DEF
         FasbInv, HandleInv
  <2>6. CASE process # NoProcess
    <3>1. GoesTo(Worker, "enter") /\ UNCHANGED outcome
      BY <1>0, <2>1, <2>6, Goes DEF Begin, Places
    <3>2. TypeOK'
      BY <1>0, <2>2, <2>3, <2>4, <2>6, <3>1 DEF Waiting, GoesTo, TypeOK,
         Outcome
    <3>3. Handle'
      BY <1>0, <2>2, <2>3, <2>4, <2>6, <3>1 DEF Waiting, GoesTo, Handle,
         Locals, OnCommand, Stopping, Starting, NoProcess
    <3>4. Locals'
      BY <1>0, <2>2, <2>3, <2>4, <2>6, <3>1 DEF Waiting, GoesTo, Handle,
         Locals, OnCommand, Stopping, Starting, NoProcess
    <3>5. KeepsPipes
      BY <1>0, <2>2, <2>3, <2>4, <2>6, <3>1 DEF Waiting, KeepsPipes, Handle
    <3>6. NoNews
      BY <1>0, <2>2, <2>3, <2>4, <2>6, <3>1 DEF Waiting, GoesTo, NoNews,
         Handle, NoProcess
    <3>7. LoadedGrows /\ (outcome' = outcome \/ outcome'.status # "ok")
      BY <1>0, <2>2, <2>3, <2>4, <2>6, <3>1 DEF Waiting, LoadedGrows, Locals,
         Stopping
    <3> QED
      BY <1>0, <3>2, <3>3, <3>4, <3>5, <3>6, <3>7, PipesKept, OutcomesKept DEF
         FasbInv, HandleInv
  <2> QED
    BY <2>5, <2>6
<1>2. CASE EnterCommand
  <2>1. /\ at[Worker] = "enter" /\ started \in Processes
        /\ UNCHANGED <<process, started, fasb, sent, seen>>
    BY <1>0, <1>2 DEF EnterCommand, Locals, TypeOK, Processes
  <2>2. /\ work' \in Work /\ work'.mine = process
        /\ work'.id = work.id /\ work'.kind = work.kind
    BY <1>0, <1>2 DEF EnterCommand, TypeOK, Work
  <2>3. /\ buffer' \in [Processes -> Seq(Lines)] /\ buffer'[started] = <<>>
        /\ \A h \in Processes : h # started => buffer'[h] = buffer[h]
    BY <1>0, <1>2, <2>1 DEF EnterCommand, Cleared, TypeOK
  <2>4. CASE process = NoProcess
    <3>1. GoesTo(Worker, "idle") /\ outcome' \in Outcome /\ outcome'.status # "ok"
      BY <1>0, <1>2, <2>4, Ends DEF EnterCommand, Statuses
    <3>2. TypeOK'
      BY <1>0, <2>1, <2>2, <2>3, <2>4, <3>1 DEF Waiting, GoesTo, TypeOK,
         Outcome
    <3>3. Handle'
      BY <1>0, <2>1, <2>2, <2>3, <2>4, <3>1 DEF Waiting, GoesTo, Handle,
         Locals, OnCommand, Stopping, Starting, NoProcess
    <3>4. Locals'
      BY <1>0, <2>1, <2>2, <2>3, <2>4, <3>1 DEF Waiting, GoesTo, Handle,
         Locals, OnCommand, Stopping, Starting, NoProcess
    <3>5. Pipes'
      BY <1>0, <2>1, <2>2, <2>3, <2>4, <3>1 DEF GoesTo, Pipes, Waiting
    <3>6. LoadedGrows /\ (outcome' = outcome \/ outcome'.status # "ok")
      BY <1>0, <2>1, <2>2, <2>3, <2>4, <3>1 DEF Waiting, LoadedGrows, Locals,
         Stopping
    <3> QED
      BY <1>0, <3>2, <3>3, <3>4, <3>5, <3>6, OutcomesKept DEF FasbInv,
         HandleInv
  <2>5. CASE process # NoProcess
    <3>1. GoesTo(Worker, "write") /\ UNCHANGED outcome
      BY <1>0, <1>2, <2>5, Goes DEF EnterCommand, Places
    <3>2. Quiet' /\ Read' = <<>>
      BY <1>0, <2>1, <2>3, <2>5 DEF Pipes, Quiet, Stdin, Stdout, Read
    <3>3. TypeOK'
      BY <1>0, <2>1, <2>2, <2>3, <2>5, <3>1 DEF Waiting, GoesTo, TypeOK,
         Outcome
    <3>4. Handle'
      BY <1>0, <2>1, <2>2, <2>3, <2>5, <3>1 DEF Waiting, GoesTo, Handle,
         Locals, OnCommand, Stopping, Starting, NoProcess
    <3>5. Locals'
      BY <1>0, <2>1, <2>2, <2>3, <2>5, <3>1 DEF Waiting, GoesTo, Handle,
         Locals, OnCommand, Stopping, Starting, NoProcess
    <3>6. Pipes'
      BY <1>0, <2>1, <2>2, <2>3, <2>5, <3>1, <3>2 DEF GoesTo, Pipes, Waiting
    <3>7. LoadedGrows /\ (outcome' = outcome \/ outcome'.status # "ok")
      BY <1>0, <2>1, <2>2, <2>3, <2>5, <3>1 DEF Waiting, LoadedGrows, Locals,
         Stopping
    <3> QED
      BY <1>0, <3>3, <3>4, <3>5, <3>6, <3>7, OutcomesKept DEF FasbInv,
         HandleInv
  <2> QED
    BY <2>4, <2>5
<1>3. CASE Write
  <2>1. /\ at[Worker] = "write" /\ work.mine = started /\ started \in Processes
        /\ Quiet /\ Read = <<>>
        /\ UNCHANGED <<process, started, buffer, sent, seen, outcome>>
    BY <1>0, <1>3 DEF Write, Locals, OnCommand, TypeOK, Processes, Pipes
  <2>2. CASE fasb[work.mine].alive
    <3>1. Asked \in Requests /\ Marker \in Requests
      BY <1>0, <2>1 DEF Locals, OnCommand, Work, Asked, Marker, Requests, Kinds
    <3>2. Alters(started, fasb[started].alive, fasb[started].ready,
                 fasb[started].stdin \o <<Asked, Marker>>, fasb[started].stdout,
                 fasb[started].loaded)
      BY <1>0, <1>3, <2>1, <2>2, <3>1, WriteAlters DEF Write, Asked, Marker
    <3>3. <<>> \o <<Asked, Marker>> = <<Asked, Marker>>
      OBVIOUS
    <3>4. /\ GoesTo(Worker, "look") /\ work' \in Work /\ work'.mine = work.mine
          /\ work'.id = work.id /\ work'.kind = work.kind
      BY <1>0, <1>3, <2>2, Goes DEF Write, Places, Work
    <3>5. UnderWay'
      <4>1. Asked' = Asked /\ Marker' = Marker
        BY <3>4 DEF Asked, Marker
      <4>2. Stdin' = <<Asked, Marker>> /\ Stdout' = <<>> /\ Read' = <<>>
        BY <2>1, <3>2, <3>3 DEF Alters, Quiet, Stdin, Stdout, Read
      <4> QED
        BY <2>1, <3>2, <4>1, <4>2 DEF Alters, Quiet, UnderWay, Unanswered
    <3>6. TypeOK'
      BY <1>0, <2>1, <3>2, <3>4 DEF Alters, GoesTo, TypeOK, Outcome, Process
    <3>7. Handle'
      BY <1>0, <2>1, <3>2, <3>4 DEF Alters, GoesTo, Handle, Locals, Waiting,
         OnCommand, Stopping, Starting, NoProcess
    <3>8. Locals'
      BY <1>0, <2>1, <3>2, <3>4 DEF Alters, GoesTo, Handle, Locals, Waiting,
         OnCommand, Stopping, Starting, NoProcess
    <3>9. Pipes'
      BY <1>0, <2>1, <3>2, <3>4, <3>5 DEF GoesTo, Alters, Pipes, Waiting
    <3>10. LoadedGrows /\ (outcome' = outcome \/ outcome'.status # "ok")
      BY <1>0, <2>1, <3>2, <3>4 DEF Alters, LoadedGrows, Locals, Stopping
    <3> QED
      BY <1>0, <3>6, <3>7, <3>8, <3>9, <3>10, OutcomesKept DEF FasbInv,
         HandleInv
  <2>3. CASE ~ fasb[work.mine].alive
    <3>1. /\ GoesTo(Worker, "stop") /\ work' \in Work /\ UNCHANGED fasb
          /\ work'.next = "idle" /\ work'.status # "ok"
          /\ work'.id = work.id /\ work'.kind = work.kind
      BY <1>0, <1>3, <2>3, Stops DEF Write, Statuses
    <3>2. TypeOK'
      BY <1>0, <2>1, <3>1 DEF Waiting, GoesTo, TypeOK, Outcome
    <3>3. Handle'
      BY <1>0, <2>1, <3>1 DEF Waiting, GoesTo, Handle, Locals, OnCommand,
         Stopping, Starting, NoProcess
    <3>4. Locals'
      BY <1>0, <2>1, <3>1 DEF Waiting, GoesTo, Handle, Locals, OnCommand,
         Stopping, Starting, NoProcess
    <3>5. KeepsPipes
      BY <1>0, <2>1, <3>1 DEF Waiting, KeepsPipes, Handle
    <3>6. NoNews
      BY <1>0, <2>1, <3>1 DEF Waiting, GoesTo, NoNews, Handle, NoProcess
    <3>7. LoadedGrows /\ (outcome' = outcome \/ outcome'.status # "ok")
      BY <1>0, <2>1, <3>1 DEF Waiting, LoadedGrows, Locals, Stopping
    <3> QED
      BY <1>0, <3>2, <3>3, <3>4, <3>5, <3>6, <3>7, PipesKept, OutcomesKept DEF
         FasbInv, HandleInv
  <2> QED
    BY <2>2, <2>3
<1>4. CASE Look
  <2>1. /\ work.id \in 1..MaxCommands /\ work.kind \in Kinds
        /\ at[Worker] = "look" /\ UnderWay /\ started \in Processes
        /\ UNCHANGED <<process, started, fasb, buffer, sent, seen, work>>
    BY <1>0, <1>4 DEF Look, Locals, OnCommand, TypeOK, Work, Pipes, Waiting, Processes
  <2>2. /\ Answer \in Seq(Lines) /\ Number \in Lines
        /\ NumbersIn(<<>>) < ExpectedNumbers(work.kind)
        /\ NumbersIn(Answer) \in Nat
        /\ NumbersIn(Answer) < ExpectedNumbers(work.kind)
        /\ BeforeMarker(Append(Answer, Number)) = Answer
    BY <2>1, Framing DEF Answer, Asked, Number
  <2>3. CASE Complete
    <3>1. Read \in {<<>>, Answer, Append(Answer, Number)}
      BY <2>1 DEF UnderWay, Unanswered, Answered, Marked
    <3>2. NumbersIn(Read) >= ExpectedNumbers(work.kind) /\ ExpectedNumbers(work.kind) \in Nat
      BY <2>3 DEF Complete, Read, ExpectedNumbers
    <3>3. Read # <<>> /\ Read # Answer
      BY <2>2, <3>2, NoNumberInNothing, Framing DEF ExpectedNumbers
    <3>4. Read = Append(Answer, Number)
      BY <3>1, <3>3
    <3>5. Append(Answer, Number) # <<>> /\ Append(Answer, Number) # Answer
      BY <3>3, <3>4
    <3>6. Quiet /\ Executed /\ started > 0
      BY <2>1, <3>4, <3>5 DEF UnderWay, Unanswered, Answered, Marked, Quiet, Processes
    <3>7. EndWith("ok", Answer)
      BY <1>4, <2>2, <2>3, <3>4 DEF Look, Read
    <3>8. /\ GoesTo(Worker, "idle") /\ outcome' \in Outcome
          /\ outcome'.lines = Answer
          /\ outcome'.id = work.id /\ outcome'.kind = work.kind
      BY <1>0, <2>2, <3>7, Ends DEF Statuses
    <3>9. TypeOK'
      BY <1>0, <2>1, <3>8 DEF Waiting, GoesTo, TypeOK, Outcome
    <3>10. Handle'
      BY <1>0, <2>1, <3>8 DEF Waiting, GoesTo, Handle, Locals, OnCommand,
         Stopping, Starting, NoProcess
    <3>11. Locals'
      BY <1>0, <2>1, <3>8 DEF Waiting, GoesTo, Handle, Locals, OnCommand,
         Stopping, Starting, NoProcess
    <3>12. KeepsPipes
      BY <1>0, <2>1, <3>8 DEF Waiting, KeepsPipes, Handle
    <3>13. NoNews
      BY <1>0, <2>1, <3>8, <3>6 DEF Waiting, GoesTo, NoNews, Handle, NoProcess
    <3>14. Outcomes'
      BY <1>0, <2>1, <3>8, <3>6 DEF Outcomes, Answer, Asked, Executed, Effect
    <3> QED
      BY <1>0, <3>9, <3>10, <3>11, <3>12, <3>13, <3>14, PipesKept DEF FasbInv,
         HandleInv
  <2>4. CASE ~ Complete
    <3>1. GoesTo(Worker, "same") /\ UNCHANGED outcome
      BY <1>0, <1>4, <2>4, Goes DEF Look, Places
    <3>2. TypeOK'
      BY <1>0, <2>1, <3>1 DEF Waiting, GoesTo, TypeOK, Outcome
    <3>3. Handle'
      BY <1>0, <2>1, <3>1 DEF Waiting, GoesTo, Handle, Locals, OnCommand,
         Stopping, Starting, NoProcess
    <3>4. Locals'
      BY <1>0, <2>1, <3>1 DEF Waiting, GoesTo, Handle, Locals, OnCommand,
         Stopping, Starting, NoProcess
    <3>5. KeepsPipes
      BY <1>0, <2>1, <3>1 DEF Waiting, KeepsPipes, Handle
    <3>6. NoNews
      BY <1>0, <2>1, <3>1 DEF Waiting, GoesTo, NoNews, Handle, NoProcess
    <3>7. LoadedGrows /\ (outcome' = outcome \/ outcome'.status # "ok")
      BY <1>0, <2>1, <3>1 DEF Waiting, LoadedGrows, Locals, Stopping
    <3> QED
      BY <1>0, <3>2, <3>3, <3>4, <3>5, <3>6, <3>7, PipesKept, OutcomesKept DEF
         FasbInv, HandleInv
  <2> QED
    BY <2>3, <2>4
<1>5. CASE CheckSame
  <2>1. /\ at[Worker] = "same"
        /\ UNCHANGED <<process, started, fasb, buffer, sent, seen, work>>
    BY <1>5 DEF CheckSame
  <2>2. CASE process # work.mine
    <3>1. process = NoProcess
      BY <1>0, <2>1, <2>2 DEF Handle, Locals, OnCommand, Waiting
    <3>2. GoesTo(Worker, "idle") /\ outcome' \in Outcome /\ outcome'.status # "ok"
      BY <1>0, <1>5, <2>2, Ends DEF CheckSame, Statuses
    <3>3. TypeOK'
      BY <1>0, <2>1, <3>1, <3>2 DEF Waiting, GoesTo, TypeOK, Outcome
    <3>4. Handle'
      BY <1>0, <2>1, <3>1, <3>2 DEF Waiting, GoesTo, Handle, Locals,
         OnCommand, Stopping, Starting, NoProcess
    <3>5. Locals'
      BY <1>0, <2>1, <3>1, <3>2 DEF Waiting, GoesTo, Handle, Locals,
         OnCommand, Stopping, Starting, NoProcess
    <3>6. KeepsPipes
      BY <1>0, <2>1, <3>1, <3>2 DEF Waiting, KeepsPipes, Handle
    <3>7. NoNews
      BY <1>0, <2>1, <3>1, <3>2 DEF Waiting, GoesTo, NoNews, Handle, NoProcess
    <3>8. LoadedGrows /\ (outcome' = outcome \/ outcome'.status # "ok")
      BY <1>0, <2>1, <3>1, <3>2 DEF Waiting, LoadedGrows, Locals, Stopping
    <3> QED
      BY <1>0, <3>3, <3>4, <3>5, <3>6, <3>7, <3>8, PipesKept, OutcomesKept DEF
         FasbInv, HandleInv
  <2>3. CASE process = work.mine
    <3>1. GoesTo(Worker, "poll") /\ UNCHANGED outcome
      BY <1>0, <1>5, <2>3, Goes DEF CheckSame, Places
    <3>2. TypeOK'
      BY <1>0, <2>1, <3>1 DEF Waiting, GoesTo, TypeOK, Outcome
    <3>3. Handle'
      BY <1>0, <2>1, <3>1 DEF Waiting, GoesTo, Handle, Locals, OnCommand,
         Stopping, Starting, NoProcess
    <3>4. Locals'
      BY <1>0, <2>1, <3>1 DEF Waiting, GoesTo, Handle, Locals, OnCommand,
         Stopping, Starting, NoProcess
    <3>5. KeepsPipes
      BY <1>0, <2>1, <3>1 DEF Waiting, KeepsPipes, Handle
    <3>6. NoNews
      BY <1>0, <2>1, <3>1 DEF Waiting, GoesTo, NoNews, Handle, NoProcess
    <3>7. LoadedGrows /\ (outcome' = outcome \/ outcome'.status # "ok")
      BY <1>0, <2>1, <3>1 DEF Waiting, LoadedGrows, Locals, Stopping
    <3> QED
      BY <1>0, <3>2, <3>3, <3>4, <3>5, <3>6, <3>7, PipesKept, OutcomesKept DEF
         FasbInv, HandleInv
  <2> QED
    BY <2>2, <2>3
<1>6. CASE Poll
  <2>1. /\ at[Worker] = "poll"
        /\ UNCHANGED <<process, started, fasb, buffer, sent, seen, outcome>>
    BY <1>6 DEF Poll
  <2>2. CASE fasb[work.mine].alive
    <3>1. GoesTo(Worker, "clock") /\ UNCHANGED work
      BY <1>0, <1>6, <2>2, Goes DEF Poll, Places
    <3>2. TypeOK'
      BY <1>0, <2>1, <3>1 DEF Waiting, GoesTo, TypeOK, Outcome
    <3>3. Handle'
      BY <1>0, <2>1, <3>1 DEF Waiting, GoesTo, Handle, Locals, OnCommand,
         Stopping, Starting, NoProcess
    <3>4. Locals'
      BY <1>0, <2>1, <3>1 DEF Waiting, GoesTo, Handle, Locals, OnCommand,
         Stopping, Starting, NoProcess
    <3>5. KeepsPipes
      BY <1>0, <2>1, <3>1 DEF Waiting, KeepsPipes, Handle
    <3>6. NoNews
      BY <1>0, <2>1, <3>1 DEF Waiting, GoesTo, NoNews, Handle, NoProcess
    <3>7. LoadedGrows /\ (outcome' = outcome \/ outcome'.status # "ok")
      BY <1>0, <2>1, <3>1 DEF Waiting, LoadedGrows, Locals, Stopping
    <3> QED
      BY <1>0, <3>2, <3>3, <3>4, <3>5, <3>6, <3>7, PipesKept, OutcomesKept DEF
         FasbInv, HandleInv
  <2>3. CASE ~ fasb[work.mine].alive
    <3>1. /\ GoesTo(Worker, "stop") /\ work' \in Work
          /\ work'.next = "idle" /\ work'.status # "ok"
          /\ work'.id = work.id /\ work'.kind = work.kind
      BY <1>0, <1>6, <2>3, Stops DEF Poll, Statuses
    <3>2. TypeOK'
      BY <1>0, <2>1, <3>1 DEF Waiting, GoesTo, TypeOK, Outcome
    <3>3. Handle'
      BY <1>0, <2>1, <3>1 DEF Waiting, GoesTo, Handle, Locals, OnCommand,
         Stopping, Starting, NoProcess
    <3>4. Locals'
      BY <1>0, <2>1, <3>1 DEF Waiting, GoesTo, Handle, Locals, OnCommand,
         Stopping, Starting, NoProcess
    <3>5. KeepsPipes
      BY <1>0, <2>1, <3>1 DEF Waiting, KeepsPipes, Handle
    <3>6. NoNews
      BY <1>0, <2>1, <3>1 DEF Waiting, GoesTo, NoNews, Handle, NoProcess
    <3>7. LoadedGrows /\ (outcome' = outcome \/ outcome'.status # "ok")
      BY <1>0, <2>1, <3>1 DEF Waiting, LoadedGrows, Locals, Stopping
    <3> QED
      BY <1>0, <3>2, <3>3, <3>4, <3>5, <3>6, <3>7, PipesKept, OutcomesKept DEF
         FasbInv, HandleInv
  <2> QED
    BY <2>2, <2>3
<1>7. CASE StillTime
  <2>1. GoesTo(Worker, "look")
    BY <1>0, <1>7, Goes DEF StillTime, Places
  <2>2. TypeOK'
    BY <1>0, <1>7, <2>1 DEF StillTime, GoesTo, TypeOK, Outcome
  <2>3. Handle'
    BY <1>0, <1>7, <2>1 DEF StillTime, GoesTo, Handle, Locals, Waiting,
       OnCommand, Stopping, Starting, NoProcess
  <2>4. Locals'
    BY <1>0, <1>7, <2>1 DEF StillTime, GoesTo, Handle, Locals, Waiting,
       OnCommand, Stopping, Starting, NoProcess
  <2>5. KeepsPipes
    BY <1>0, <1>7, <2>1 DEF StillTime, KeepsPipes, Handle
  <2>6. NoNews
    BY <1>0, <1>7, <2>1 DEF StillTime, GoesTo, NoNews, Handle, Waiting,
       NoProcess
  <2>7. LoadedGrows /\ (outcome' = outcome \/ outcome'.status # "ok")
    BY <1>0, <1>7, <2>1 DEF StillTime, LoadedGrows, Locals, Stopping
  <2> QED
    BY <1>0, <2>2, <2>3, <2>4, <2>5, <2>6, <2>7, PipesKept, OutcomesKept DEF
       FasbInv, HandleInv
<1>8. CASE GiveUp
  <2>1. /\ at[Worker] = "clock" /\ process' = NoProcess
        /\ UNCHANGED <<started, buffer, sent, seen, work>>
    BY <1>8 DEF GiveUp
  <2>2. GoesTo(Worker, "idle") /\ outcome' \in Outcome /\ outcome'.status # "ok"
    BY <1>0, <1>8, Ends DEF GiveUp, GivenUp, Statuses
  <2>3. CASE process = NoProcess
    <3>1. UNCHANGED fasb
      BY <1>8, <2>3 DEF GiveUp, Terminate, Terminated
    <3>2. TypeOK'
      BY <1>0, <2>1, <2>2, <3>1 DEF Waiting, GoesTo, TypeOK, Outcome,
         NoProcess
    <3>3. Handle'
      BY <1>0, <2>1, <2>2, <3>1 DEF Waiting, GoesTo, Handle, Locals,
         OnCommand, Stopping, Starting, NoProcess
    <3>4. Locals'
      BY <1>0, <2>1, <2>2, <3>1 DEF Waiting, GoesTo, Handle, Locals,
         OnCommand, Stopping, Starting, NoProcess
    <3>5. KeepsPipes
      BY <1>0, <2>1, <2>2, <3>1 DEF Waiting, KeepsPipes, Handle
    <3>6. NoNews
      BY <1>0, <2>1, <2>2, <3>1 DEF Waiting, GoesTo, NoNews, Handle, NoProcess
    <3>7. LoadedGrows /\ (outcome' = outcome \/ outcome'.status # "ok")
      BY <1>0, <2>1, <2>2, <3>1 DEF Waiting, LoadedGrows, Locals, Stopping
    <3> QED
      BY <1>0, <3>2, <3>3, <3>4, <3>5, <3>6, <3>7, PipesKept, OutcomesKept DEF
         FasbInv, HandleInv
  <2>4. CASE process # NoProcess
    <3>1. process \in Processes
      BY <1>0, <2>4 DEF TypeOK, Processes, NoProcess
    <3>2. Alters(process, FALSE, fasb[process].ready, fasb[process].stdin,
                 fasb[process].stdout, fasb[process].loaded)
      BY <1>0, <1>8, <3>1, TerminateAlters DEF GiveUp
    <3>3. TypeOK'
      BY <1>0, <2>1, <2>2, <3>1, <3>2 DEF Alters, GoesTo, TypeOK, Outcome,
         Process, NoProcess
    <3>4. Handle'
      BY <1>0, <2>1, <2>2, <3>1, <3>2 DEF Alters, GoesTo, Handle, Locals,
         Waiting, OnCommand, Stopping, Starting, NoProcess
    <3>5. Locals'
      BY <1>0, <2>1, <2>2, <3>1, <3>2 DEF Alters, GoesTo, Handle, Locals,
         Waiting, OnCommand, Stopping, Starting, NoProcess
    <3>6. KeepsPipes
      BY <1>0, <2>1, <2>2, <3>1, <3>2 DEF Alters, KeepsPipes, Handle
    <3>7. NoNews
      BY <1>0, <2>1, <2>2, <3>1, <3>2 DEF Alters, GoesTo, NoNews, Handle,
         Waiting, NoProcess
    <3>8. LoadedGrows /\ (outcome' = outcome \/ outcome'.status # "ok")
      BY <1>0, <2>1, <2>2, <3>1, <3>2 DEF Alters, LoadedGrows, Locals,
         Stopping
    <3> QED
      BY <1>0, <3>3, <3>4, <3>5, <3>6, <3>7, <3>8, PipesKept, OutcomesKept DEF
         FasbInv, HandleInv
  <2> QED
    BY <2>3, <2>4
<1>9. CASE DeadlinePasses
  <2>1. /\ work' \in Work
        /\ work' = [work EXCEPT !.late = TRUE]
        /\ UNCHANGED <<process, started, fasb, buffer, sent, at, seen, outcome>>
    BY <1>0, <1>9 DEF DeadlinePasses, Work
  <2>2. /\ work'.id = work.id /\ work'.kind = work.kind /\ work'.mine = work.mine
        /\ work'.next = work.next /\ work'.status = work.status
    BY <1>0, <2>1 DEF Work
  <2>3. TypeOK'
    BY <1>0, <2>1, <2>2 DEF Waiting, GoesTo, TypeOK, Outcome
  <2>4. Handle'
    BY <1>0, <2>1, <2>2 DEF Waiting, GoesTo, Handle, Locals, OnCommand,
       Stopping, Starting, NoProcess
  <2>5. Locals'
    BY <1>0, <2>1, <2>2 DEF Waiting, GoesTo, Handle, Locals, OnCommand,
       Stopping, Starting, NoProcess
  <2>6. KeepsPipes
    BY <1>0, <2>1, <2>2 DEF Waiting, KeepsPipes, Handle
  <2>7. NoNews
    BY <1>0, <2>1, <2>2 DEF Waiting, GoesTo, NoNews, Handle, NoProcess
  <2>8. LoadedGrows /\ (outcome' = outcome \/ outcome'.status # "ok")
    BY <1>0, <2>1, <2>2 DEF Waiting, LoadedGrows, Locals, Stopping
  <2> QED
    BY <1>0, <2>3, <2>4, <2>5, <2>6, <2>7, <2>8, PipesKept, OutcomesKept DEF
       FasbInv, HandleInv
<1> QED
  BY <1>1, <1>2, <1>3, <1>4, <1>5, <1>6, <1>7, <1>8, <1>9 DEF Command

-----------------------------------------------------------------------------
(* FASB boots, executes a command or dies; a reader thread reads a line. *)
LEMMA FasbKept ==
    ASSUME FasbInv, NEW g \in Processes,
           Boot(g) \/ Serve(g) \/ Die(g) \/ ReadLine(g)
    PROVE  FasbInv'
<1>0. /\ TypeOK /\ Handle /\ Locals /\ Pipes /\ Outcomes
      /\ Worker \in Actors /\ NoProcess \notin Processes
      /\ MaxProcesses \in Nat /\ MaxCommands \in Nat
      /\ started \in Nat /\ sent \in 0..MaxCommands /\ work \in Work /\ outcome \in Outcome
      /\ <<>> \in Seq(Lines) /\ process \in Nat /\ seen \in [Actors -> Nat]
  BY Actor, FasbAssumption DEF FasbInv, HandleInv, TypeOK, Outcome
<1>1. UNCHANGED <<process, started, sent, at, seen, work, outcome>>
  BY DEF Boot, Serve, Die, ReadLine
<1>2. g <= started
  <2>1. g > started => fasb[g] = NotStarted
    BY <1>0 DEF Pipes
  <2>2. ~ NotStarted.alive /\ NotStarted.stdout = <<>>
    BY DEF NotStarted
  <2>3. fasb[g].alive \/ fasb[g].stdout # <<>>
    BY DEF Boot, Serve, Die, ReadLine
  <2> QED
    BY <1>0, <2>1, <2>2, <2>3 DEF Processes
<1>2a. \A h \in Processes : h > started => h # g
  BY <1>0, <1>2 DEF Processes
<1>3. Handle' /\ Locals' /\ NoNews
  BY <1>0, <1>1 DEF Handle, Locals, Starting, NoNews
<1>4. /\ Asked' = Asked /\ Marker' = Marker /\ Number' = Number /\ Answer' = Answer
      /\ at'[Worker] \in Waiting => work.id \in 1..MaxCommands /\ work.kind \in Kinds
  BY <1>0, <1>1 DEF Asked, Marker, Number, Answer, Locals, OnCommand, Work
<1>5. CASE Boot(g)
  <2>1. Alters(g, fasb[g].alive, TRUE, fasb[g].stdin,
               Append(fasb[g].stdout, Banner), fasb[g].loaded)
    BY <1>0, <1>5, BootAlters
  <2>2. UNCHANGED buffer /\ ~ fasb[g].ready
    BY <1>5 DEF Boot
  <2>3. TypeOK'
    BY <1>0, <1>1, <2>1, <2>2 DEF Alters, Process, TypeOK
  <2>4. Outcomes'
    BY <1>0, <1>1, <2>1, OutcomesKept DEF Alters, LoadedGrows
  <2>5. CASE g = started
    <3>1. at[Worker] = "ready" => Booting'
      <4>1. Append(<<>>, Banner) = <<Banner>>
        OBVIOUS
      <4> QED
        BY <1>0, <1>1, <2>1, <2>2, <2>5, <4>1
        DEF Alters, Pipes, Booting, Stdin, Stdout, Read
    <3>2. ~ Quiet /\ ~ UnderWay
      BY <2>2, <2>5 DEF Quiet, UnderWay
    <3>3. \A h \in Processes : h > started =>
             fasb'[h] = NotStarted /\ buffer'[h] = <<>>
      <4>1. \A h \in Processes : h # g => fasb'[h] = fasb[h]
        BY <2>1 DEF Alters
      <4> QED
        BY <1>0, <1>2a, <2>2, <4>1 DEF Pipes
    <3>4. Pipes'
      BY <1>0, <1>1, <3>1, <3>2, <3>3 DEF Pipes
    <3> QED
      BY <1>3, <2>3, <2>4, <3>4 DEF FasbInv, HandleInv
  <2>6. CASE g # started
    <3>1. \A h \in Processes : h # g => fasb'[h] = fasb[h]
      BY <2>1 DEF Alters
    <3>2. KeepsPipes
      BY <1>1, <1>2a, <2>2, <2>6, <3>1 DEF KeepsPipes
    <3> QED
      BY <1>0, <1>3, <2>3, <2>4, <3>2, PipesKept DEF FasbInv, HandleInv
  <2> QED
    BY <2>5, <2>6
<1>6. CASE Serve(g)
  <2>1. Alters(g, fasb[g].alive, fasb[g].ready, Tail(fasb[g].stdin),
               fasb[g].stdout \o Output(Head(fasb[g].stdin)),
               fasb[g].loaded \cup Effect(Head(fasb[g].stdin)))
    BY <1>0, <1>6, ServeAlters
  <2>2. UNCHANGED buffer /\ fasb[g].stdin # <<>>
    BY <1>6 DEF Serve
  <2>3. TypeOK'
    BY <1>0, <1>1, <2>1, <2>2 DEF Alters, Process, TypeOK
  <2>4. Outcomes'
    BY <1>0, <1>1, <2>1, OutcomesKept DEF Alters, LoadedGrows
  <2>5. CASE g = started
    <3>1. ~ Booting /\ ~ Quiet /\ ~ Marked
      BY <2>2, <2>5 DEF Booting, Quiet, Marked, Stdin
    <3>2. ASSUME at[Worker] \in Waiting
          PROVE  UnderWay'
      <4>1. UnderWay /\ Answer \in Seq(Lines) /\ Number \in Lines
        BY <1>0, <1>1, <1>4, <3>2, Framing DEF Pipes, Answer, Asked, Number
      <4>2. CASE Unanswered
        <5>1. /\ Tail(<<Asked, Marker>>) = <<Marker>> /\ Head(<<Asked, Marker>>) = Asked
              /\ <<>> \o Answer = Answer
          BY <4>1
        <5>2. Stdin' = <<Marker>> /\ Stdout' = Answer /\ Read' = <<>>
          BY <1>1, <2>1, <2>2, <2>5, <4>2, <5>1
          DEF Alters, Unanswered, Stdin, Stdout, Read, Answer
        <5>3. Executed'
          BY <1>1, <1>4, <2>1, <2>5, <4>2, <5>1 DEF Alters, Unanswered, Stdin, Executed
        <5> QED
          BY <1>1, <1>4, <2>1, <2>5, <4>1, <5>2, <5>3 DEF Alters, UnderWay, Answered
      <4>3. CASE Answered /\ Executed
        <5>1. /\ Tail(<<Marker>>) = <<>> /\ Head(<<Marker>>) = Marker
              /\ <<>> \o <<Number>> = <<Number>>
              /\ Answer \o <<Number>> = Append(Answer, Number)
          BY <4>1
        <5>2. Output(Marker) = <<Number>>
          BY DEF Output, Marker, Number
        <5>3. /\ Stdin' = <<>> /\ Read' = Read
              /\ Stdout' = IF Stdout = <<>> THEN <<Number>> ELSE Append(Answer, Number)
          BY <1>1, <2>1, <2>2, <2>5, <4>3, <5>1, <5>2
          DEF Alters, Answered, Stdin, Stdout, Read
        <5>4. Marked'
          BY <1>4, <4>1, <4>3, <5>1, <5>3 DEF Answered, Marked
        <5>5. Executed'
          BY <1>1, <1>4, <2>1, <2>5, <4>3 DEF Alters, Executed
        <5> QED
          BY <1>1, <2>1, <2>5, <4>1, <5>4, <5>5 DEF Alters, UnderWay
      <4> QED
        BY <3>1, <4>1, <4>2, <4>3 DEF UnderWay
    <3>3. \A h \in Processes : h > started =>
             fasb'[h] = NotStarted /\ buffer'[h] = <<>>
      <4>1. \A h \in Processes : h # g => fasb'[h] = fasb[h]
        BY <2>1 DEF Alters
      <4> QED
        BY <1>0, <1>2a, <2>2, <4>1 DEF Pipes
    <3>4. Pipes'
      BY <1>0, <1>1, <3>1, <3>2, <3>3 DEF Pipes
    <3> QED
      BY <1>3, <2>3, <2>4, <3>4 DEF FasbInv, HandleInv
  <2>6. CASE g # started
    <3>1. \A h \in Processes : h # g => fasb'[h] = fasb[h]
      BY <2>1 DEF Alters
    <3>2. KeepsPipes
      BY <1>1, <1>2a, <2>2, <2>6, <3>1 DEF KeepsPipes
    <3> QED
      BY <1>0, <1>3, <2>3, <2>4, <3>2, PipesKept DEF FasbInv, HandleInv
  <2> QED
    BY <2>5, <2>6
<1>7. CASE Die(g)
  <2>1. Alters(g, FALSE, fasb[g].ready, fasb[g].stdin, fasb[g].stdout, fasb[g].loaded)
    BY <1>0, <1>7, TerminateAlters DEF Die
  <2>2. UNCHANGED buffer
    BY <1>7 DEF Die
  <2>3. TypeOK'
    BY <1>0, <1>1, <2>1, <2>2 DEF Alters, Process, TypeOK
  <2>4. Outcomes'
    BY <1>0, <1>1, <2>1, OutcomesKept DEF Alters, LoadedGrows
  <2>5. KeepsPipes
    BY <1>0, <1>1, <1>2, <2>1, <2>2 DEF Alters, KeepsPipes, Processes
  <2> QED
    BY <1>0, <1>3, <2>3, <2>4, <2>5, PipesKept DEF FasbInv, HandleInv
<1>8. CASE ReadLine(g)
  <2>1. /\ Alters(g, fasb[g].alive, fasb[g].ready, fasb[g].stdin,
                  Tail(fasb[g].stdout), fasb[g].loaded)
        /\ buffer' = [buffer EXCEPT ![g] = Append(buffer[g], Head(fasb[g].stdout))]
        /\ buffer' \in [Processes -> Seq(Lines)]
        /\ buffer \in [Processes -> Seq(Lines)]
    BY <1>0, <1>8, ReadAlters DEF TypeOK
  <2>2. fasb[g].stdout # <<>>
    BY <1>8 DEF ReadLine
  <2>3. TypeOK'
    BY <1>0, <1>1, <2>1 DEF Alters, Process, TypeOK
  <2>4. Outcomes'
    BY <1>0, <1>1, <2>1, OutcomesKept DEF Alters, LoadedGrows
  <2>5. \A h \in Processes : h # g => buffer'[h] = buffer[h] /\ fasb'[h] = fasb[h]
    BY <2>1 DEF Alters
  <2>6. CASE g = started
    <3>1. Read' = Append(Read, Head(Stdout)) /\ Stdout' = Tail(Stdout) /\ Stdin' = Stdin
      BY <1>1, <2>1, <2>6 DEF Alters, Stdin, Stdout, Read
    <3>2. at[Worker] = "ready" => Booting'
      <4>1. /\ Append(<<>>, Banner) = <<Banner>> /\ Tail(<<Banner>>) = <<>>
            /\ Head(<<Banner>>) = Banner
        OBVIOUS
      <4> QED
        BY <1>0, <1>1, <2>1, <2>2, <2>6, <3>1, <4>1
        DEF Alters, Pipes, Booting, Stdout
    <3>3. ~ Quiet /\ ~ Unanswered
      BY <2>2, <2>6 DEF Quiet, Unanswered, Stdout
    <3>4. ASSUME at[Worker] \in Waiting
          PROVE  UnderWay'
      <4>1. UnderWay /\ Answer \in Seq(Lines) /\ Number \in Lines
        BY <1>0, <1>1, <1>4, <3>4, Framing DEF Pipes, Answer, Asked, Number
      <4>2. Executed => Executed'
        BY <1>1, <1>4, <2>1, <2>6 DEF Alters, Executed
      <4>3. Answer = <<>> \/ \E line \in Lines : Answer = <<line>>
        <5>1. Answer = <<>> \/ \E line : Answer = <<line>>
          BY DEF Answer, Output
        <5>2. ASSUME NEW line, Answer = <<line>>
              PROVE  line \in Lines
          BY <4>1, <5>2
        <5> QED
          BY <5>1, <5>2
      <4>4. ASSUME Answered
            PROVE  Answered'
        <5>1. Stdout = Answer /\ Read = <<>> /\ Answer # <<>>
          BY <2>2, <2>6, <4>4 DEF Answered, Stdout
        <5>2. PICK line \in Lines : Answer = <<line>>
          BY <4>3, <5>1
        <5>3. Append(<<>>, Head(<<line>>)) = <<line>> /\ Tail(<<line>>) = <<>>
          BY <5>2, ShortSequences
        <5>4. Stdout' = <<>> /\ Read' = Answer
          BY <3>1, <5>1, <5>2, <5>3
        <5> QED
          BY <1>4, <3>1, <4>4, <5>4 DEF Answered
      <4>5. ASSUME Marked
            PROVE  Marked'
        <5>1. CASE Stdout = <<Number>> /\ Read = Answer
          <6>1. Head(<<Number>>) = Number /\ Tail(<<Number>>) = <<>>
            BY <4>1, ShortSequences
          <6>2. Stdout' = <<>> /\ Read' = Append(Answer, Number)
            BY <3>1, <5>1, <6>1
          <6> QED
            BY <1>4, <3>1, <4>5, <6>2 DEF Marked
        <5>2. CASE Stdout = Append(Answer, Number) /\ Read = <<>> /\ Answer = <<>>
          <6>1. /\ Append(<<>>, Number) = <<Number>>
                /\ Head(<<Number>>) = Number /\ Tail(<<Number>>) = <<>>
            BY <4>1, ShortSequences
          <6>2. Stdout' = <<>> /\ Read' = Append(Answer, Number)
            BY <3>1, <5>2, <6>1
          <6> QED
            BY <1>4, <3>1, <4>5, <6>2 DEF Marked
        <5>3. CASE Stdout = Append(Answer, Number) /\ Read = <<>> /\ Answer # <<>>
          <6>1. PICK line \in Lines : Answer = <<line>>
            BY <4>3, <5>3
          <6>2. /\ Append(<<line>>, Number) = <<line, Number>>
                /\ Head(<<line, Number>>) = line /\ Tail(<<line, Number>>) = <<Number>>
                /\ Append(<<>>, line) = <<line>>
            BY <4>1, <6>1, ShortSequences
          <6>3. Stdout' = <<Number>> /\ Read' = Answer
            BY <3>1, <5>3, <6>1, <6>2
          <6> QED
            BY <1>4, <3>1, <4>5, <6>3 DEF Marked
        <5> QED
          BY <2>2, <2>6, <4>5, <5>1, <5>2, <5>3 DEF Marked, Stdout
      <4> QED
        BY <1>1, <2>1, <2>6, <3>3, <4>1, <4>2, <4>4, <4>5 DEF Alters, UnderWay
    <3>5. Pipes'
      BY <1>0, <1>1, <2>6, <2>5, <3>2, <3>3, <3>4 DEF Pipes, Processes
    <3> QED
      BY <1>3, <2>3, <2>4, <3>5 DEF FasbInv, HandleInv
  <2>7. CASE g # started
    <3>1. \A h \in Processes : h > started \/ h = started => h # g
      BY <1>0, <1>2, <2>7 DEF Processes
    <3>2. KeepsPipes
      BY <1>1, <2>5, <3>1 DEF KeepsPipes
    <3> QED
      BY <1>0, <1>3, <2>3, <2>4, <3>2, PipesKept DEF FasbInv, HandleInv
  <2> QED
    BY <2>6, <2>7
<1> QED
  BY <1>5, <1>6, <1>7, <1>8

-----------------------------------------------------------------------------
LEMMA FasbInvInit ==
    ASSUME Init
    PROVE  FasbInv
<1>1. TypeOK
  <2>1. NotStarted \in Process
    BY DEF NotStarted, Process
  <2>2. fasb \in [Processes -> Process] /\ buffer \in [Processes -> Seq(Lines)]
    BY <2>1 DEF Init
  <2>3. at \in [Actors -> Places] /\ seen \in [Actors -> 0..MaxProcesses]
    BY FasbAssumption DEF Init, Places, NoProcess
  <2>4. work \in Work
    BY FasbAssumption DEF Init, Work, Kinds, Statuses, NoProcess
  <2>5. outcome \in Outcome
    BY FasbAssumption DEF Init, Outcome, Kinds, Statuses
  <2>6. process \in 0..MaxProcesses /\ started \in 0..MaxProcesses /\ sent \in 0..MaxCommands
    BY FasbAssumption DEF Init, NoProcess
  <2> QED
    BY <2>2, <2>3, <2>4, <2>5, <2>6 DEF TypeOK, Process, Outcome
<1>2. at[Worker] = "idle" /\ process = NoProcess /\ outcome.status = "none"
  BY Actor DEF Init
<1>3. Handle
  BY <1>2 DEF Init, Handle, NoProcess
<1>4. Locals
  BY <1>2 DEF Locals, Starting, Stopping, OnCommand, Waiting
<1>5. Pipes
  BY <1>2 DEF Init, Pipes, Waiting
<1> QED
  BY <1>1, <1>2, <1>3, <1>4, <1>5 DEF FasbInv, HandleInv, Outcomes

LEMMA FasbInvKept ==
    ASSUME FasbInv, [Next]_vars
    PROVE  FasbInv'
<1>1. CASE \E a \in Actors : Stop(a)
  BY <1>1, StopKept
<1>2. CASE Restart \/ RestartFails \/ Restarting
  BY <1>2, RestartKept
<1>3. CASE (\E kind \in Kinds : Begin(kind)) \/ Command \/ DeadlinePasses
  BY <1>3, CommandKept
<1>4. CASE \E g \in Processes : Boot(g) \/ Serve(g) \/ Die(g) \/ ReadLine(g)
  BY <1>4, FasbKept
<1>5. CASE UNCHANGED vars
  <2>1. TypeOK'
    BY <1>5 DEF vars, FasbInv, HandleInv, TypeOK
  <2>2. Handle' /\ Locals' /\ Outcomes'
    BY <1>5 DEF vars, FasbInv, HandleInv, Handle, Locals, Starting, Outcomes
  <2>3. KeepsPipes /\ NoNews
    BY <1>5 DEF vars, KeepsPipes, NoNews
  <2>4. Pipes'
    BY <2>3, PipesKept DEF FasbInv, HandleInv
  <2> QED
    BY <2>1, <2>2, <2>4 DEF FasbInv, HandleInv
<1> QED
  BY <1>1, <1>2, <1>3, <1>4, <1>5 DEF Next

(* A process that nobody can stop any more is lost by a stopper. *)
LEMMA StrayKept ==
    ASSUME FasbInv, [Next]_vars, NEW g \in Processes, (Stray(g))', ~ Stray(g)
    PROVE  \E x \in Stoppers : at[x] = "clear" /\ at'[x] = "kill"
<1>0. /\ TypeOK /\ Handle /\ Locals /\ Worker \in Actors /\ NoProcess \notin Processes
      /\ at \in [Actors -> Places] /\ seen \in [Actors -> 0..MaxProcesses]
      /\ started \in Nat /\ g \in Nat /\ g # NoProcess /\ MaxProcesses \in Nat
  BY Actor, FasbAssumption DEF FasbInv, HandleInv, TypeOK, Processes
<1>1. /\ fasb'[g].alive /\ process' # g /\ \A a \in Actors : seen'[a] # g
      /\ fasb[g].alive => process = g \/ \E a \in Actors : seen[a] = g
  BY DEF Stray
<1>2. CASE \E a \in Actors : Stop(a)
  <2>1. PICK a \in Actors : Stop(a)
    BY <1>2
  <2>2. CASE StopRead(a)
    <3>1. UNCHANGED <<process, fasb>> /\ seen' = [seen EXCEPT ![a] = process]
      BY <2>2 DEF StopRead
    <3>2. at[a] = "stop" /\ seen[a] = NoProcess
      BY <1>0, <2>2 DEF StopRead, Handle
    <3> QED
      BY <1>0, <1>1, <3>1, <3>2
  <2>3. CASE StopClear(a)
    <3>1. /\ at[a] = "clear" /\ at'[a] = "kill" /\ process' = NoProcess
          /\ UNCHANGED <<fasb, seen>>
      BY <1>0, <2>3 DEF StopClear, Goto
    <3>2. a # Worker
      BY <1>0, <1>1, <3>1 DEF Handle
    <3> QED
      BY <3>1, <3>2 DEF Actors
  <2>4. CASE StopKill(a)
    <3>1. seen' = [seen EXCEPT ![a] = NoProcess] /\ UNCHANGED process
      BY <2>4 DEF StopKill
    <3>2. fasb' = Terminated(seen[a])
      BY <2>4 DEF StopKill, Terminate
    <3>3. fasb'[g].alive => fasb[g].alive /\ seen[a] # g
      <4>1. CASE seen[a] = NoProcess
        BY <1>0, <3>2, <4>1 DEF Terminated
      <4>2. CASE seen[a] # NoProcess
        <5>1. seen[a] \in Processes
          BY <1>0, <4>2 DEF Processes, NoProcess
        <5>2. Alters(seen[a], FALSE, fasb[seen[a]].ready, fasb[seen[a]].stdin,
                     fasb[seen[a]].stdout, fasb[seen[a]].loaded)
          BY <1>0, <3>2, <5>1, TerminateAlters DEF Terminate
        <5> QED
          BY <5>1, <5>2 DEF Alters
      <4> QED
        BY <4>1, <4>2
    <3> QED
      BY <1>0, <1>1, <3>1, <3>3
  <2> QED
    BY <2>1, <2>2, <2>3, <2>4 DEF Stop
<1>3. CASE Spawn
  <2>1. started + 1 \in Processes
    BY <1>0, <1>3 DEF Spawn, Locals, Starting, Processes
  <2>2. Alters(started + 1, TRUE, fasb[started + 1].ready, fasb[started + 1].stdin,
               fasb[started + 1].stdout, fasb[started + 1].loaded)
    BY <1>0, <1>3, <2>1, SpawnAlters DEF Spawn
  <2>3. process = NoProcess /\ process' = started + 1 /\ UNCHANGED seen
    BY <1>0, <1>3 DEF Spawn, Handle
  <2> QED
    BY <1>0, <1>1, <2>1, <2>2, <2>3 DEF Alters
<1>4. CASE GiveUp
  <2>1. process' = NoProcess /\ UNCHANGED seen /\ Terminate(process)
    BY <1>4 DEF GiveUp
  <2>2. CASE process = NoProcess
    BY <1>0, <1>1, <2>1, <2>2 DEF Terminate, Terminated
  <2>3. CASE process # NoProcess
    <3>1. process \in Processes
      BY <1>0, <2>3 DEF TypeOK, Processes, NoProcess
    <3>2. Alters(process, FALSE, fasb[process].ready, fasb[process].stdin,
                 fasb[process].stdout, fasb[process].loaded)
      BY <1>0, <2>1, <3>1, TerminateAlters
    <3> QED
      BY <1>0, <1>1, <2>1, <3>1, <3>2 DEF Alters
  <2> QED
    BY <2>2, <2>3
<1>5. CASE Write
  <2>1. UNCHANGED <<process, seen>> /\ work.mine = started /\ started \in Processes
    BY <1>0, <1>5 DEF Write, Locals, OnCommand, TypeOK, Processes
  <2>2. fasb'[g].alive = fasb[g].alive
    <3>1. fasb \in [Processes -> Process] /\ fasb[g] \in Process
      BY <1>0 DEF TypeOK, Process
    <3>2. \/ UNCHANGED fasb
          \/ fasb' = [fasb EXCEPT ![started].stdin = @ \o
                <<[id |-> work.id, kind |-> work.kind], [id |-> work.id, kind |-> "count"]>>]
      BY <1>5, <2>1 DEF Write
    <3>3. \/ fasb'[g] = fasb[g]
          \/ fasb'[g] = [fasb[g] EXCEPT !.stdin = @ \o
                <<[id |-> work.id, kind |-> work.kind], [id |-> work.id, kind |-> "count"]>>]
      BY <2>1, <3>1, <3>2
    <3> QED
      BY <3>1, <3>3 DEF Process
  <2> QED
    BY <1>1, <2>1, <2>2
<1>6. CASE \E h \in Processes : Boot(h) \/ Serve(h) \/ Die(h) \/ ReadLine(h)
  <2>1. PICK h \in Processes : Boot(h) \/ Serve(h) \/ Die(h) \/ ReadLine(h)
    BY <1>6
  <2>2. UNCHANGED <<process, seen>>
    BY <2>1 DEF Boot, Serve, Die, ReadLine
  <2>3. fasb'[g].alive => fasb[g].alive
    BY <1>0, <2>1, BootAlters, ServeAlters, TerminateAlters, ReadAlters
    DEF Alters, Die
  <2> QED
    BY <1>1, <2>2, <2>3
<1>7. CASE UNCHANGED <<process, fasb, seen>>
  BY <1>1, <1>7
<1> QED
  BY <1>2, <1>3, <1>4, <1>5, <1>6, <1>7
  DEF Next, Restart, RestartFails, Restarting, SeesBanner, NotReady, Begin, Command,
      EnterCommand, Look, CheckSame, Poll, StillTime, DeadlinePasses, vars

-----------------------------------------------------------------------------
(* Every variable keeps its type, and the pipes of the newest process hold *)
(* no more than the banner or the command that is under way.               *)
THEOREM FasbTyping == Spec => []TypeOK
<1>1. FasbInv => TypeOK
  BY DEF FasbInv, HandleInv
<1> QED
  BY <1>1, FasbInvInit, FasbInvKept, PTL DEF Spec

(* The answer of a successful command is what FASB printed for it, and     *)
(* nothing of another command or process.                                  *)
THEOREM AnswersBelong == Spec => []AnswerBelongs
<1>1. FasbInv => AnswerBelongs
  BY DEF FasbInv, Outcomes, AnswerBelongs
<1> QED
  BY <1>1, FasbInvInit, FasbInvKept, PTL DEF Spec

(* An acknowledged change of the selections has been executed by FASB. *)
THEOREM Acknowledged == Spec => []AcknowledgedIsLoaded
<1>1. FasbInv => AcknowledgedIsLoaded
  BY DEF FasbInv, Outcomes, AcknowledgedIsLoaded
<1> QED
  BY <1>1, FasbInvInit, FasbInvKept, PTL DEF Spec

(* Only a stopper, after its lock-free clearing of self.process, leaves a  *)
(* process behind that nobody can stop.                                    *)
THEOREM NoneLost == Spec => WorkerKeepsProcess
<1>1. ASSUME FasbInv, [Next]_vars
      PROVE  [\A g \in Processes :
                (Stray(g))' /\ ~ Stray(g) =>
                  \E s \in Stoppers : at[s] = "clear" /\ at'[s] = "kill"]_vars
  BY <1>1, StrayKept
<1> QED
  BY <1>1, FasbInvInit, FasbInvKept, PTL DEF Spec, WorkerKeepsProcess
=============================================================================
