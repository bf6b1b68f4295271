--------------------------- MODULE WorkbenchTurns ---------------------------
(***************************************************************************)
(* The turns of the Workbench: sending a message, following its stream,    *)
(* stopping it, answering an approval, reading the session back when the   *)
(* stream is over, and offering a failed message for another try, while    *)
(* the user walks between sessions.  The module models the part of         *)
(* useWorkbenchController (features/workbench/application) that works on   *)
(* messages, with the stream of resourceWorkbenchGateway and the message   *)
(* rules of workbenchReducer.                                              *)
(*                                                                         *)
(* The controller is a hook that is written for a host that keeps it       *)
(* mounted while the route changes; AppShell mounts the page anew instead. *)
(* Anew says which of the two the host is.  In both its asynchronous       *)
(* functions are loops that go on after the page has moved: a run is one   *)
(* call of runCommand or resolveHITL, and each of its steps begins where   *)
(* an await returns.  An aborted request either rejects or, when its       *)
(* answer was already under way, still answers: the controller has to cope *)
(* with both.  One await it does not guard: what getCanvas answers is      *)
(* published whenever the route is that of the run, also for a run that    *)
(* has been replaced.  LateCanvas says whether a getCanvas that was        *)
(* aborted with its run may still answer; the gateway of the program       *)
(* rejects it, the port leaves it open.                                    *)
(*                                                                         *)
(* The agent provider behind the gateway is external.  It runs a job per   *)
(* request it accepts, goes on when the browser has left, and keeps the    *)
(* text of a session in a log that openSession reads.  Text, charts and    *)
(* what the canvas holds are left out (WorkbenchCanvas has the canvas).    *)
(***************************************************************************)
EXTENDS Naturals, Sequences, FiniteSets, SequencesExt

CONSTANTS
  Sessions,         \* the sessions of the user
  MaxRuns,          \* bound: calls of runCommand and resolveHITL
  MaxTools,         \* bound: tool calls and changes of the canvas of one job
  MaxInterrupts,    \* bound: approvals one job asks for
  MaxBusyRetries,   \* maxBusyRetries, the refusals a command waits out
  MaxMoves,         \* bound: changes of the route
  Anew,             \* whether the host mounts the page anew for another route
  LateCanvas,       \* whether getCanvas may still answer a run that was replaced
  None

ASSUME TurnsAssumption ==
  /\ MaxRuns \in Nat \ {0}
  /\ MaxTools \in Nat
  /\ MaxInterrupts \in Nat
  /\ MaxBusyRetries \in Nat
  /\ MaxMoves \in Nat
  /\ Anew \in BOOLEAN /\ LateCanvas \in BOOLEAN
  /\ Sessions # {} /\ None \notin Sessions

RunIds == 1 .. MaxRuns

VARIABLES
  route,     \* routeSessionIdRef
  opened,    \* openedRef: None, or the messages of the session on the page
  opening,   \* how the last loadOpenedSession went: "loading" until it is answered
  leaving,   \* another route was rendered, and its effects have not run yet
  run,       \* the calls of runCommand and resolveHITL, by their number
  live,      \* the run whose number is streamRunRef; 0 when none has it
  holder,    \* the run whose controller is in streamControllerRef; 0 for none
  streaming, \* the streaming state
  started,   \* activeTurnIdRef and activeClientTurnIdRef are set
  stopping,  \* the runs whose cancelTurn is unanswered
  failed,    \* failedCommandRef: None or a command
  pending,   \* pendingHITL and its refs: None or the job that waits
  moves,     \* counts the changes of the route
  log,       \* provider: the messages of each session
  job,       \* provider: the jobs, by the run that started them
  cancelled  \* provider: the jobs whose cancellation it has confirmed

page == <<route, opened, opening, leaving, live, holder, streaming, started, stopping,
          failed, pending, moves>>
provider == <<log, job, cancelled>>
vars == <<page, run, provider>>

-----------------------------------------------------------------------------
(* Messages.  by is the run that made a message, whose number stands for   *)
(* its identifier.  Nothing looks a message of the provider's history up,  *)
(* nor a tool call: they have by = 0.                                      *)

Message ==
  [role: {"user", "assistant", "tool"}, session: Sessions, by: 0 .. MaxRuns,
   status: {"none", "streaming", "complete", "stopped", "error"}]

Said(role, s, r, status) ==
  [role |-> role, session |-> s, by |-> r, status |-> status]

\* mapMessage: the one message with that identifier, if the page still has it.
MapMessage(messages, r, status) ==
  [i \in DOMAIN messages |->
     IF messages[i].by = r /\ messages[i].role = "assistant"
     THEN [messages[i] EXCEPT !.status = status]
     ELSE messages[i]]

\* The place of a message on the page; 0 when it is not there.
PlaceOf(messages, r) ==
  LET places == {i \in DOMAIN messages :
                   messages[i].by = r /\ messages[i].role = "assistant"}
  IN  IF places = {} THEN 0 ELSE CHOOSE i \in places : TRUE

\* A tool call the page does not know yet is put before the answer it belongs to.
InsertTool(messages, r, tool) ==
  LET i == PlaceOf(messages, r)
  IN  IF i = 0 THEN Append(messages, tool) ELSE InsertAt(messages, i, tool)

\* What openSession makes of the provider's history: every text is complete.
History(s) ==
  [i \in DOMAIN log[s] |-> Said(log[s][i], s, 0, "complete")]

\* mergePersistedSession: the tool calls of the page are kept, behind the history.
MergePersisted(s, messages) ==
  LET tools == {i \in DOMAIN messages : messages[i].role = "tool"}
  IN  History(s) \o [k \in 1 .. Cardinality(tools) |-> Said("tool", s, 0, "none")]

\* reconcileCommand: an answer at or behind the place where the page ended.
Committed(s, count) ==
  \E i \in DOMAIN log[s] : i > count /\ log[s][i] = "assistant"

-----------------------------------------------------------------------------
(* Runs.                                                                   *)

Command == [session: Sessions, answer: RunIds, count: Nat]

\* What stands for no messages and no command is neither.
ASSUME NoneAssumption == None \notin [messages : Seq(Message)] \cup Command

NoRun == [pc |-> "off"]

Run ==
  {NoRun} \cup
  [pc: {"stream", "canvas", "wait", "reconcile", "done"}, kind: {"turn", "resolve"},
   command: Command, job: RunIds, current: Seq(Message), busy: Nat,
   aborted: BOOLEAN,
   outcome: {"none", "interrupt", "done", "error", "failure", "abort"}]

\* A call, with its requests aborted if it is not over.
Aborted(q) ==
  IF run[q].pc \in {"off", "done"} THEN run[q] ELSE [run[q] EXCEPT !.aborted = TRUE]

\* runCommand and resolveHITL begin alike: a new number, a new controller, the
\* controllers of the run before aborted.
StartRun(r, kind, command, jobOf, messages) ==
  /\ run' = [q \in RunIds |->
               IF q = r
               THEN [pc |-> "stream", kind |-> kind, command |-> command,
                     job |-> jobOf, current |-> messages, busy |-> 0,
                     aborted |-> FALSE, outcome |-> "none"]
               ELSE Aborted(q)]
  /\ live' = r
  /\ holder' = r
  /\ streaming' = TRUE
  /\ opened' = [messages |-> messages]

NextRun == Cardinality({r \in RunIds : run[r].pc # "off"}) + 1

\* publishOpened: only the session of the route is shown.
Publish(s, messages) ==
  opened' = IF route = s THEN [messages |-> messages] ELSE opened

\* clearStream: the run gives back the refs if they are still its own.
ClearStream(r) ==
  IF holder = r
  THEN holder' = 0 /\ started' = FALSE /\ streaming' = FALSE
  ELSE UNCHANGED <<holder, started, streaming>>

\* The finally block of resolveHITL looks at the run number as well.
ClearResolve(r) ==
  IF live = r /\ holder = r
  THEN holder' = 0 /\ streaming' = FALSE /\ UNCHANGED started
  ELSE UNCHANGED <<holder, started, streaming>>

\* A call that is over keeps nothing of the stream.
Retire(r) ==
  run' = [run EXCEPT ![r] = [@ EXCEPT !.pc = "done", !.current = <<>>,
                                      !.aborted = FALSE, !.busy = 0,
                                      !.outcome = "none"]]

\* Fault: a run looks only at the route, which may have come back.
OvertakenByRoute(r) == route # run[r].command.session

\* An event finds that the page has moved on, or has a newer run.
Overtaken(r) == live # r \/ route # run[r].command.session

-----------------------------------------------------------------------------
(* The page.                                                               *)

\* The render of another route clears the handles.  A host that mounts the page
\* anew leaves the runs of the old one to themselves.
Navigate(s) ==
  /\ ~leaving
  /\ s # route
  /\ moves < MaxMoves
  /\ moves' = moves + 1
  /\ route' = s
  /\ opened' = None
  /\ opening' = "loading"
  /\ failed' = None
  /\ pending' = None
  /\ started' = FALSE
  /\ \/ /\ Anew
        /\ live' = 0
        /\ holder' = 0
        /\ streaming' = FALSE
        /\ run' = [r \in RunIds |-> Aborted(r)]
        /\ UNCHANGED leaving
     \/ /\ ~Anew
        /\ leaving' = TRUE
        /\ UNCHANGED <<live, holder, streaming, run>>
  /\ UNCHANGED <<stopping, provider>>

\* The effects of the render: the runs lose their number and their requests, and
\* loadOpenedSession drops what they may have left since then and asks for the session.
RouteEffects ==
  /\ leaving
  /\ leaving' = FALSE
  /\ live' = 0
  /\ run' = [r \in RunIds |-> Aborted(r)]
  /\ opened' = None
  /\ failed' = None
  /\ pending' = None
  /\ UNCHANGED <<route, opening, holder, streaming, started, stopping,
                 moves, provider>>

\* The answer of loadOpenedSession; one for another session is dropped.
OpenSession ==
  /\ ~leaving
  /\ opening = "loading"
  /\ \/ opened' = [messages |-> History(route)] /\ opening' = "success"
     \/ opened' = None /\ opening' = "error"
  /\ UNCHANGED <<route, leaving, live, holder, streaming, started, stopping,
                 failed, pending, moves, run, provider>>

RetryOpenedSession ==
  /\ opened = None
  /\ opening = "error"
  /\ opening' = "loading"
  /\ UNCHANGED <<route, opened, leaving, live, holder, streaming, started, stopping,
                 failed, pending, moves, run, provider>>

RunCommand(r, command, messages) ==
  /\ r \in RunIds
  /\ StartRun(r, "turn", command, r, messages)
  /\ started' = FALSE
  /\ failed' = None
  /\ UNCHANGED <<route, opening, leaving, stopping, pending, moves, provider>>

SendMessage ==
  LET r == NextRun
  IN  /\ opened # None
      /\ ~streaming
      /\ pending = None
      /\ RunCommand(r,
           [session |-> route, answer |-> r, count |-> Len(opened.messages)],
           opened.messages \o <<Said("user", route, r, "none"),
                                Said("assistant", route, r, "streaming")>>)

RetryLastMessage ==
  /\ opened # None
  /\ ~streaming
  /\ failed # None
  /\ failed.session = route
  /\ RunCommand(NextRun, failed,
       MapMessage(opened.messages, failed.answer, "streaming"))

\* resolveHITL; whether an approval is allowed is left to the caller.
ResolveHITL ==
  LET r == NextRun
      messages == Append(opened.messages, Said("assistant", route, r, "streaming"))
  IN  /\ opened # None
      /\ ~streaming
      /\ pending # None
      /\ r \in RunIds
      /\ StartRun(r, "resolve",
           [session |-> route, answer |-> r, count |-> Len(opened.messages)],
           pending, messages)
      /\ pending' = None
      /\ UNCHANGED <<route, opening, leaving, started, stopping, failed,
                     moves, provider>>

StopStreaming ==
  /\ holder # 0
  /\ started
  /\ holder \notin stopping
  /\ stopping' = stopping \cup {holder}
  /\ UNCHANGED <<route, opened, opening, leaving, live, holder, streaming, started,
                 failed, pending, moves, run, provider>>

\* Fault: the stream is closed whatever cancelTurn answered.
StopUnconfirmed(r) ==
  /\ r \in stopping
  /\ stopping' = stopping \ {r}
  /\ IF holder = r /\ started
     THEN /\ run' = [run EXCEPT ![r].aborted = TRUE]
          /\ opened' = IF opened = None THEN None
                       ELSE [messages |-> MapMessage(opened.messages,
                                            run[r].command.answer, "stopped")]
     ELSE UNCHANGED <<run, opened>>
  /\ UNCHANGED <<route, opening, leaving, live, holder, streaming, started, failed,
                 pending, moves, provider>>

\* cancelTurn is answered: only a confirmed cancellation, of the stream that is
\* still the current one, closes the stream and marks the answer.
StopAnswered(r) ==
  /\ r \in stopping
  /\ stopping' = stopping \ {r}
  /\ IF run[r].job \in cancelled /\ holder = r /\ started
     THEN /\ run' = [run EXCEPT ![r].aborted = TRUE]
          /\ opened' = IF opened = None THEN None
                       ELSE [messages |-> MapMessage(opened.messages,
                                            run[r].command.answer, "stopped")]
     ELSE UNCHANGED <<run, opened>>
  /\ UNCHANGED <<route, opening, leaving, live, holder, streaming, started, failed,
                 pending, moves, provider>>

-----------------------------------------------------------------------------
(* The stream of a run.  A job sends its events to its follower, the run   *)
(* whose request it took last; what it may send follows from its state.    *)

Answer(r) == run[r].command.answer

Follows(r, state) ==
  /\ run[r].pc = "stream"
  /\ ~Overtaken(r)
  /\ job[run[r].job].follower = r
  /\ job[run[r].job].state = state

\* turn.started names the turn, which Stop needs; resolveHITL does not keep it.
TurnStarted(r) ==
  /\ Follows(r, "running")
  /\ run[r].kind = "turn"
  /\ ~started
  /\ started' = TRUE
  /\ UNCHANGED <<route, opened, opening, leaving, live, holder, streaming, stopping,
                 failed, pending, moves, run, provider>>

\* tool.started for one more tool call of the job.
ToolCall(r) ==
  LET messages == InsertTool(run[r].current, Answer(r),
                    Said("tool", run[r].command.session, 0, "none"))
  IN  /\ Follows(r, "running")
      /\ job[run[r].job].tools < MaxTools
      /\ job' = [job EXCEPT ![run[r].job].tools = @ + 1]
      /\ run' = [run EXCEPT ![r].current = messages]
      /\ Publish(run[r].command.session, messages)
      /\ UNCHANGED <<route, opening, leaving, live, holder, streaming, started, stopping,
                     failed, pending, moves, log, cancelled>>

\* canvas.updated: the run asks for the canvas before it takes the next event.
CanvasUpdated(r) ==
  /\ Follows(r, "running")
  /\ job[run[r].job].tools < MaxTools
  /\ job' = [job EXCEPT ![run[r].job].tools = @ + 1]
  /\ run' = [run EXCEPT ![r].pc = "canvas"]
  /\ UNCHANGED <<page, log, cancelled>>

\* getCanvas has answered.  Only the route is looked at, not the number of the run: a
\* run that was replaced publishes its messages too, if its page is still there.
CanvasAnswered(r) ==
  /\ run[r].pc = "canvas"
  /\ live # r => LateCanvas
  /\ run' = [run EXCEPT ![r].pc = "stream"]
  /\ IF live # r /\ Anew
     THEN UNCHANGED opened
     ELSE Publish(run[r].command.session, run[r].current)
  /\ UNCHANGED <<route, opening, leaving, live, holder, streaming, started, stopping,
                 failed, pending, moves, provider>>

\* The stream of a turn is over: what it showed last, and how it ended.
EndTurn(r, outcome, messages) ==
  /\ run[r].kind = "turn"
  /\ run' = [run EXCEPT ![r].pc = "reconcile", ![r].outcome = outcome,
                        ![r].current = messages]
  /\ UNCHANGED <<holder, started, streaming>>

\* The stream of a resolution is over, and so is resolveHITL.
EndResolve(r) ==
  /\ run[r].kind = "resolve"
  /\ Retire(r)
  /\ ClearResolve(r)

\* The last event of the job, with the status it gives the answer.
LastEvent(r, outcome, status) ==
  LET messages == MapMessage(run[r].current, Answer(r), status)
  IN  /\ \/ EndTurn(r, outcome, messages)
         \/ EndResolve(r)
      /\ Publish(run[r].command.session, messages)
      /\ UNCHANGED <<route, opening, leaving, live, stopping, failed, moves, provider>>

\* approval.requested: message_end and interrupt.
Interrupt(r) ==
  /\ Follows(r, "waiting")
  /\ LastEvent(r, "interrupt", "complete")
  /\ pending' = run[r].job

\* turn.completed: message_end and done, also for a turn that was interrupted.
Done(r) ==
  /\ Follows(r, "completed") \/ Follows(r, "cancelled")
  /\ LastEvent(r, "done", "complete")
  /\ UNCHANGED pending

\* turn.failed.
Error(r) ==
  /\ Follows(r, "failed")
  /\ LastEvent(r, "error", "error")
  /\ UNCHANGED pending

\* The request is refused or the stream breaks off before its terminal event, or
\* getCanvas fails.  Errors look at the number of the run alone.  resolveHITL then
\* offers the approval again.
StreamBreaks(r) ==
  LET messages == MapMessage(run[r].current, Answer(r), "error")
  IN  /\ run[r].pc \in {"stream", "canvas"}
      /\ live = r
      /\ ~run[r].aborted
      /\ \/ /\ EndTurn(r, "failure", run[r].current)
            /\ UNCHANGED <<opened, pending>>
         \/ /\ EndResolve(r)
            /\ Publish(run[r].command.session, messages)
            /\ pending' = run[r].job
      /\ UNCHANGED <<route, opening, leaving, live, stopping, failed, moves, provider>>

\* Fault: a refusal is always waited out.
BusyForever(r) ==
  /\ run[r].pc = "stream"
  /\ run[r].kind = "turn"
  /\ live = r
  /\ job[r].state = "none"
  /\ run' = [run EXCEPT ![r].pc = "wait", ![r].busy = @ + 1]
  /\ UNCHANGED <<route, opened, opening, leaving, live, holder, streaming, started,
                 stopping, failed, pending, moves, provider>>

\* The provider is busy (2006): runCommand waits and sends the command again.
Busy(r) ==
  /\ run[r].pc = "stream"
  /\ run[r].kind = "turn"
  /\ live = r
  /\ job[r].state = "none"
  /\ run[r].busy < MaxBusyRetries
  /\ run' = [run EXCEPT ![r].pc = "wait", ![r].busy = @ + 1]
  /\ UNCHANGED <<route, opened, opening, leaving, live, holder, streaming, started,
                 stopping, failed, pending, moves, provider>>

WaitForRetry(r) ==
  /\ run[r].pc = "wait"
  /\ live = r
  /\ run' = [run EXCEPT ![r].pc = "stream"]
  /\ UNCHANGED <<route, opened, opening, leaving, live, holder, streaming, started,
                 stopping, failed, pending, moves, provider>>

\* The stream that Stop aborted rejects, and its run is still the current one.
Stopped(r) ==
  /\ run[r].pc \in {"stream", "canvas"}
  /\ live = r
  /\ run[r].aborted
  /\ EndTurn(r, "abort", run[r].current)
  /\ UNCHANGED <<route, opened, opening, leaving, live, stopping, failed, pending, moves,
                 provider>>

\* An event or an error finds that the page has moved on, or has a newer run: the run
\* ends there.
Overtake(r) ==
  /\ \/ run[r].pc = "stream" /\ Overtaken(r)
     \/ run[r].pc \in {"canvas", "wait", "reconcile"} /\ live # r
  /\ \/ /\ run[r].kind = "turn"
        /\ Retire(r)
        /\ ClearStream(r)
     \/ EndResolve(r)
  /\ UNCHANGED <<route, opened, opening, leaving, live, stopping, failed, pending, moves,
                 provider>>

-----------------------------------------------------------------------------
(* reconcileCommand and what runCommand makes of its result.               *)

\* How the page shows the end of a stream that the history does not settle.
ShowOutcome(r) ==
  LET status == [done |-> "error", failure |-> "error", abort |-> "stopped"]
  IN  IF run[r].outcome \in DOMAIN status
      THEN Publish(run[r].command.session,
             MapMessage(run[r].current, Answer(r), status[run[r].outcome]))
      ELSE UNCHANGED opened

\* The answer is in the history.
ReadFinds(r) ==
  LET s == run[r].command.session
  IN  /\ Committed(s, run[r].command.count)
      /\ Publish(s, MergePersisted(s, run[r].current))
      /\ failed' = None

\* Faults: a stream that broke off is not shown; a failed command is not remembered.
ReadSilently(r) ==
  /\ ~Committed(run[r].command.session, run[r].command.count)
  /\ failed' = run[r].command
  /\ UNCHANGED opened

ReadForgets(r) ==
  /\ ~Committed(run[r].command.session, run[r].command.count)
  /\ ShowOutcome(r)
  /\ UNCHANGED failed

\* The history was read and does not have the answer.
ReadMisses(r) ==
  /\ ~Committed(run[r].command.session, run[r].command.count)
  /\ ShowOutcome(r)
  /\ failed' = IF run[r].outcome \in {"done", "failure", "error"}
               THEN run[r].command ELSE failed

\* The history could not be read.
ReadFails(r) ==
  /\ ShowOutcome(r)
  /\ failed' = run[r].command

Reconcile(r) ==
  /\ run[r].pc = "reconcile"
  /\ live = r
  /\ ReadFinds(r) \/ ReadMisses(r) \/ ReadFails(r)
  /\ Retire(r)
  /\ ClearStream(r)
  /\ UNCHANGED <<route, opening, leaving, live, stopping, pending, moves, provider>>

-----------------------------------------------------------------------------
(* The provider.                                                           *)

\* turns:stream was taken: the job runs, and follows the request of the run.
Accept(r) ==
  /\ run[r].pc = "stream"
  /\ run[r].kind = "turn"
  /\ job[r].state = "none"
  /\ job' = [job EXCEPT ![r] = [@ EXCEPT !.state = "running", !.follower = r]]
  /\ log' = [log EXCEPT ![run[r].command.session] = Append(@, "user")]
  /\ UNCHANGED <<page, run, cancelled>>

\* approvals:resolve was taken: the job goes on.
AcceptResolution(r) ==
  /\ run[r].pc = "stream"
  /\ run[r].kind = "resolve"
  /\ job[run[r].job].state = "waiting"
  /\ job' = [job EXCEPT ![run[r].job] = [@ EXCEPT !.state = "running", !.follower = r]]
  /\ UNCHANGED <<page, run, log, cancelled>>

JobCompletes(j) ==
  /\ job[j].state = "running"
  /\ job' = [job EXCEPT ![j].state = "completed"]
  /\ log' = [log EXCEPT ![run[j].command.session] = Append(@, "assistant")]
  /\ UNCHANGED <<page, run, cancelled>>

JobFails(j) ==
  /\ job[j].state = "running"
  /\ job' = [job EXCEPT ![j].state = "failed"]
  /\ UNCHANGED <<page, run, log, cancelled>>

\* The job waits for an approval; what it said before may be in the log already.
JobAsks(j) ==
  /\ job[j].state = "running"
  /\ job[j].asked < MaxInterrupts
  /\ job' = [job EXCEPT ![j].state = "waiting", ![j].asked = @ + 1]
  /\ \/ UNCHANGED log
     \/ log' = [log EXCEPT ![run[j].command.session] = Append(@, "assistant")]
  /\ UNCHANGED <<page, run, cancelled>>

\* A cancelTurn that is under way reaches a job that is not over.
ConfirmCancel(r) ==
  /\ r \in stopping
  /\ job[run[r].job].state \in {"running", "waiting"}
  /\ job' = [job EXCEPT ![run[r].job].state = "cancelled"]
  /\ cancelled' = cancelled \cup {run[r].job}
  /\ UNCHANGED <<page, run, log>>

-----------------------------------------------------------------------------
\* Which session the page opens first makes no difference.
Init ==
  /\ route = CHOOSE s \in Sessions : TRUE
  /\ opened = None
  /\ opening = "loading"
  /\ leaving = FALSE
  /\ run = [r \in RunIds |-> NoRun]
  /\ live = 0
  /\ holder = 0
  /\ streaming = FALSE
  /\ started = FALSE
  /\ stopping = {}
  /\ failed = None
  /\ pending = None
  /\ moves = 0
  /\ log = [s \in Sessions |-> <<>>]
  /\ job = [r \in RunIds |-> [state |-> "none", follower |-> r, asked |-> 0, tools |-> 0]]
  /\ cancelled = {}

\* What the user does.
User ==
  \/ \E s \in Sessions : Navigate(s)
  \/ RetryOpenedSession
  \/ SendMessage
  \/ RetryLastMessage
  \/ ResolveHITL
  \/ StopStreaming

\* A run hears the end of what it waits for.
Hear(r) ==
  \/ Interrupt(r) \/ Done(r) \/ Error(r) \/ Stopped(r) \/ CanvasAnswered(r)
  \/ Overtake(r) \/ WaitForRetry(r) \/ Reconcile(r)

\* The request of a run is taken, or its job goes on.
Work(r) ==
  \/ Accept(r) \/ AcceptResolution(r)
  \/ JobCompletes(r) \/ JobFails(r) \/ JobAsks(r)

Next ==
  \/ User
  \/ RouteEffects
  \/ OpenSession
  \/ \E r \in RunIds :
       \/ StopAnswered(r) \/ TurnStarted(r) \/ ToolCall(r) \/ CanvasUpdated(r)
       \/ StreamBreaks(r) \/ Busy(r) \/ ConfirmCancel(r)
       \/ Hear(r) \/ Work(r)

Spec == Init /\ [][Next]_vars

\* A resolution the provider cannot take any more is refused.
Refused(r) ==
  /\ StreamBreaks(r)
  /\ run[r].kind = "resolve"
  /\ job[run[r].job].follower # r
  /\ job[run[r].job].state # "waiting"

\* Answers, refusals and aborts arrive, and the provider works on what it took.
Fairness ==
  \A r \in RunIds :
    WF_vars(Hear(r)) /\ WF_vars(Work(r)) /\ WF_vars(Refused(r))

FairSpec == Spec /\ Fairness

-----------------------------------------------------------------------------
(* Properties.                                                             *)

TypeOK ==
  /\ route \in Sessions
  /\ opened # None => \A i \in DOMAIN opened.messages : opened.messages[i] \in Message
  /\ opening \in {"loading", "success", "error"}
  /\ leaving \in BOOLEAN
  /\ \A r \in RunIds : run[r] # NoRun =>
       /\ run[r].pc \in {"stream", "canvas", "wait", "reconcile", "done"}
       /\ run[r].command \in Command
       /\ run[r].busy \in 0 .. MaxBusyRetries
       /\ run[r].job \in RunIds
  /\ live \in 0 .. MaxRuns /\ holder \in 0 .. MaxRuns
  /\ streaming \in BOOLEAN /\ started \in BOOLEAN
  /\ stopping \subseteq RunIds /\ cancelled \subseteq RunIds
  /\ failed \in Command \cup {None}
  /\ pending \in RunIds \cup {None}
  /\ moves \in 0 .. MaxMoves

Shown == IF opened = None THEN {} ELSE {opened.messages[i] : i \in DOMAIN opened.messages}

\* What arrives for a run that has been replaced, by a newer one or by a change of the
\* route, changes nothing on the page: not the messages, not the approval, not the retry.
\* Between the render of another route and its effects a run keeps its number; in that
\* interval it leaves the messages alone.  The code does not see to this by itself where it
\* awaits getCanvas: it holds if the host mounts the page anew or the gateway rejects what
\* was aborted.
SupersededRunsAreSilent ==
  [][\A r \in RunIds :
       run[r].pc # "off" /\ run'[r] # run[r] =>
         /\ live # r => UNCHANGED <<opened, pending, failed>>
         /\ route # run[r].command.session => UNCHANGED opened]_vars

\* The page says that an answer was stopped only when the provider has confirmed the
\* cancellation of a turn that was writing it.
StoppedIsConfirmed ==
  \A m \in Shown : m.status = "stopped" =>
    \E j \in cancelled : run[j].command.answer = m.by

\* An answer shown as being written is the one of the stream in streamControllerRef: the
\* page is busy with it and no other message waits for text that cannot come.
SpinnerHasRun ==
  \A m \in Shown : m.status = "streaming" =>
    /\ streaming
    /\ holder # 0
    /\ run[holder].command.answer = m.by
    /\ run[holder].pc # "done"

\* retryLastMessage has a command of the session on the page.
Offered == failed # None /\ failed.session = route

\* When the last turn of the page has ended in an error it is offered for another try, and
\* what is offered is an answer that stands on the page.
FailureIsOffered ==
  /\ \A m \in Shown :
       /\ m.status = "error" /\ live # 0
       /\ run[live].kind = "turn" /\ run[live].pc = "done"
       /\ m.by = run[live].command.answer
       => Offered
  /\ Offered => \E m \in Shown : m.by = failed.answer /\ m.role = "assistant"

\* Whatever happens to the stream, the user or the provider, no answer stays in the state
\* of being written for ever.
AnswersSettle ==
  \A r \in RunIds :
    (\E m \in Shown : m.by = r /\ m.status = "streaming")
    ~> ~(\E m \in Shown : m.by = r /\ m.status = "streaming")

\* The comment in runCommand: "The persisted aggregate is the terminal source of truth."
\* The history that is read after turn.completed has the answer: the turn is not reported
\* as failed and offered again.
PersistedIsTheTruth ==
  [][\A r \in RunIds :
       Reconcile(r) /\ ReadMisses(r) => run[r].outcome # "done"]_vars

=============================================================================
